------------------------------ MODULE VehicleSystem ------------------------------
(***************************************************************************)
(* The six contracts together: every transaction any account can make, in  *)
(* any order, with block time passing between them.                        *)
(*                                                                         *)
(* Three transactions write several contracts and are defined here:        *)
(*   register         OwnershipToken -> DVP (activateVehicle)              *)
(*   approveTransfer  OwnershipToken -> Loan (systemActivatePendingLoan)   *)
(*   scrapVehicle     DVP -> OwnershipToken, Insurance, PUC, Challan       *)
(* The contracts are linked and SYSTEM_ROLE is granted before any entity   *)
(* is registered, so Init is the state after deployment.                   *)
(***************************************************************************)
EXTENDS LoanContract, ChallanContract, InsuranceToken, PUCToken

vars == <<now, ownershipVars, dvpVars, loanVars, challanVars, insuranceVars, pucVars>>

complianceVars == <<challanVars, insuranceVars, pucVars>>

(* OwnershipToken stores a bank id that only LoanContract gives a meaning.   *)
PendingBankOK == \A t \in Tokens : xfer[t].bankId \in 0 .. MaxBanks

TypeOK ==
    /\ now \in Clock
    /\ OwnershipTypeOK /\ PendingBankOK /\ DvpTypeOK /\ LoanTypeOK
    /\ ChallanTypeOK /\ InsuranceTypeOK /\ PUCTypeOK

Init ==
    /\ now = 0
    /\ OwnershipInit /\ DvpInit /\ LoanInit
    /\ ChallanInit /\ InsuranceInit /\ PUCInit

-----------------------------------------------------------------------------
(* The grants of the deployment script, and those of the tests' BaseSetup,  *)
(* which also let LoanContract attach a pending loan to a transfer.         *)

DeployGrants == {<<"ownership", "dvp">>, <<"insurance", "dvp">>, <<"puc", "dvp">>,
                 <<"challan", "dvp">>, <<"loan", "ownership">>}

TestGrants == DeployGrants \cup {<<"ownership", "loan">>}

-----------------------------------------------------------------------------
(* Transactions that span contracts                                         *)

Register(r, d, u, dl) ==
    /\ MayRegister(r, d, dl)
    /\ DvpExists(d)
    /\ vehicleDealer[d] = dl
    /\ BorrowerMatches(d, u)
    /\ MintTitle(d, u)
    /\ ActivateVehicle(d)
    /\ UNCHANGED <<now, loanVars, complianceVars>>

(* Fault: the seller's loan is not looked at.                               *)
TransferIgnoresLoan(t) == IsInsuranceValid(t) /\ IsPUCValid(t) /\ ~HasPendingChallans(t)

(* The compliance checks of approveTransfer                                 *)
TransferCompliant(t) ==
    /\ IsInsuranceValid(t)
    /\ IsPUCValid(t)
    /\ ~HasPendingChallans(t)
    /\ IsLoanCleared(own[t].dvp)

ApproveTransfer(r, t) ==
    /\ MayApprove(r, t)
    /\ TransferCompliant(t)
    /\ MoveTitle(t)
    /\ IF xfer[t].hasPendingLoan
       THEN SystemActivatePendingLoan(own[t].dvp, xfer[t].bankId, xfer[t].buyer)
       ELSE UNCHANGED loanVars
    /\ UNCHANGED <<now, dvpVars, complianceVars>>

(* The compliance checks of scrapVehicle                                    *)
ScrapCompliant(d, t) ==
    /\ IsLoanCleared(d)
    /\ ~HasPendingChallans(t)
    /\ ~hasXfer[t]

ScrapVehicle(s, d) ==
    LET t == dvpToOwn[d] IN
    /\ MayScrap(s, d)
    /\ t # 0
    /\ ScrapCompliant(d, t)
    /\ DeactivateVehicle(t)
    /\ TerminatePolicy(t)
    /\ TerminatePUC(t)
    /\ CancelAllPendingChallans(t)
    /\ MarkScrapped(d)
    /\ UNCHANGED <<now, loanVars>>

-----------------------------------------------------------------------------
(* The next-state relation, contract by contract                            *)

(* The multi-signature wallet registers an entity or toggles its status.    *)
AdminStep ==
    \/ /\ \E r \in RTOs \cap AdminScope : AdminRTO(r)
       /\ UNCHANGED <<now, dvpVars, loanVars, complianceVars>>
    \/ /\ \/ \E m \in Mfgs \cap AdminScope : AdminMfg(m)
          \/ \E s \in ScrapCentres \cap AdminScope : AdminScrapCentre(s)
       /\ UNCHANGED <<now, ownershipVars, loanVars, complianceVars>>
    \/ /\ \/ \E w \in BankWallets : RegBank(w)
          \/ \E b \in BankIds : ToggleBankStatus(b)
       /\ UNCHANGED <<now, ownershipVars, dvpVars, complianceVars>>
    \/ /\ \E p \in PoliceStations \cap AdminScope : AdminPolice(p)
       /\ UNCHANGED <<now, ownershipVars, dvpVars, loanVars, insuranceVars, pucVars>>
    \/ /\ \E i \in Insurers \cap AdminScope : AdminInsurer(i)
       /\ UNCHANGED <<now, ownershipVars, dvpVars, loanVars, challanVars, pucVars>>
    \/ /\ \E c \in Centres \cap AdminScope : AdminCentre(c)
       /\ UNCHANGED <<now, ownershipVars, dvpVars, loanVars, challanVars, insuranceVars>>

DvpStep ==
    /\ \E d \in Vehicles :
         \/ \E m \in Mfgs : Manufacture(m, d)
         \/ \E m \in Mfgs, dl \in Dealers : AssignToDealer(m, d, dl)
         \/ \E u \in Users, s \in ScrapCentres : AuthorizeScrap(u, d, s)
    /\ UNCHANGED <<now, ownershipVars, loanVars, complianceVars>>

TransferStep ==
    /\ \E t \in Tokens :
         \/ \E u, b \in Users : InitTransfer(u, t, b)
         \/ \E b \in Users : AcceptTransfer(b, t)
         \/ \E c \in Users \cup RTOs \cup {Admin} : CancelTransfer(c, t)
    /\ UNCHANGED <<now, dvpVars, loanVars, complianceVars>>

TradeCertStep ==
    /\ \E r \in RTOs, dl \in Dealers :
         \/ \E till \in Dates : IssueTradeCert(r, dl, till)
         \/ RevokeTradeCert(r, dl)
    /\ UNCHANGED <<now, dvpVars, loanVars, complianceVars>>

LoanStep ==
    /\ \E w \in BankWallets, d \in Vehicles :
         \/ \E u \in Users : RegisterNewCarLoan(w, d, u)
         \/ \E u \in Users : RegisterUsedCarLoan(w, d, u)
         \/ \E u \in Users : RegisterTitleLoan(w, d, u)
         \/ CancelPendingLoan(w, d)
         \/ RefinanceLoan(w, d)
         \/ IssueNOC(w, d)
    /\ UNCHANGED <<now, dvpVars, complianceVars>>

ChallanStep ==
    /\ \E t \in Tokens :
         \/ \E p \in PoliceStations, amount \in Amounts : IssueChallan(p, t, amount)
         \/ \E p \in PoliceStations, c \in ChallanIds : PayChallan(p, t, c)
         \/ \E p \in PoliceStations, c \in ChallanIds : CancelChallan(p, t, c)
         \/ \E c \in ChallanIds : AdminCancelChallan(t, c)
    /\ UNCHANGED <<now, ownershipVars, dvpVars, loanVars, insuranceVars, pucVars>>

InsuranceStep ==
    /\ \E i \in Insurers :
         \/ \E t \in Tokens, expiry \in Dates : IssuePolicy(i, t, expiry)
         \/ \E p \in PolicyIds : MarkPolicyExpired(i, p)
         \/ \E p \in PolicyIds : FileClaim(i, p)
    /\ UNCHANGED <<now, ownershipVars, dvpVars, loanVars, challanVars, pucVars>>

PUCStep ==
    /\ \E c \in Centres :
         \/ \E t \in Tokens, expiry \in Dates, withinLimits, passed \in BOOLEAN :
              IssuePUC(c, t, expiry, withinLimits, passed)
         \/ \E n \in CertIds : MarkPUCExpired(c, n)
    /\ UNCHANGED <<now, ownershipVars, dvpVars, loanVars, challanVars, insuranceVars>>

RegisterStep == \E r \in RTOs, d \in Vehicles, u \in Users, dl \in Dealers :
                    Register(r, d, u, dl)
ApproveStep  == \E r \in RTOs, t \in Tokens : ApproveTransfer(r, t)
ScrapStep    == \E s \in ScrapCentres, d \in Vehicles : ScrapVehicle(s, d)

TimeStep ==
    /\ Tick
    /\ UNCHANGED <<ownershipVars, dvpVars, loanVars, complianceVars>>

Next == AdminStep \/ DvpStep \/ TransferStep \/ TradeCertStep \/ LoanStep
        \/ ChallanStep \/ InsuranceStep \/ PUCStep
        \/ RegisterStep \/ ApproveStep \/ ScrapStep \/ TimeStep

Spec == Init /\ [][Next]_vars

-----------------------------------------------------------------------------
(* SAFETY INVARIANTS                                                        *)

(* An active loan on a registered vehicle is owed by whoever owns the       *)
(* vehicle now: register, registerLoan's title branch, the cleared-loan     *)
(* check of approveTransfer and the loan it activates must agree.           *)
LoanFollowsTitle ==
    \A d \in Vehicles :
        HasActiveLoan(d) /\ IsRegistered(d) =>
            /\ loan[dvpToLoan[d]].borrower = CurrentOwner(d)
            /\ own[dvpToOwn[d]].active

(* A vehicle carries one loan at most: every active loan is the one that    *)
(* dvpToLoan, the only thing the checks read, points to.                    *)
NoHiddenLoan ==
    \A l \in LoanIds :
        loan[l].active => l <= loanCtr /\ dvpToLoan[loan[l].dvp] = l

(* Title, NFT and passport agree: while a title is active its NFT belongs   *)
(* to the recorded owner and the passport is ACTIVE and points back; once   *)
(* it is not, the NFT is burned and the passport SCRAPPED.                  *)
TitleConsistent ==
    \A t \in 1 .. tokenCtr :
        /\ own[t].dvp \in Vehicles /\ dvpToOwn[own[t].dvp] = t
        /\ own[t].active  => nft[t] = own[t].owner /\ passport[own[t].dvp].status = "ACTIVE"
        /\ ~own[t].active => nft[t] = Nobody /\ passport[own[t].dvp].status = "SCRAPPED"

(* A transfer request is live exactly while hasActiveXfer says so, and its  *)
(* seller still owns the active title: no request outlives the ownership    *)
(* it was made under.                                                       *)
TransferCurrent ==
    \A t \in Tokens :
        /\ hasXfer[t] <=> xfer[t].exists
        /\ xfer[t].exists => /\ own[t].active
                             /\ xfer[t].seller = own[t].owner
                             /\ xfer[t].buyer \in Users \ {xfer[t].seller}

(* Scrapping leaves nothing behind: no lien, fine, policy, certificate,     *)
(* transfer or scrap authorisation can be found on, or be put on, a         *)
(* scrapped vehicle.                                                        *)
ScrappedIsClean ==
    \A d \in Vehicles : passport[d].status = "SCRAPPED" =>
        LET t == dvpToOwn[d] IN
        /\ t # 0 /\ IsLoanCleared(d)
        /\ \A c \in ChallanIds : ~Unsettled(c, t)
        /\ \A p \in PolicyIds : policy[p].ownTid = t => ~policy[p].active
        /\ \A n \in CertIds : puc[n].ownTid = t => ~puc[n].valid
        /\ ~xfer[t].exists /\ authorizedScrap[d] = Nobody

(* The number of pending fines a title shows is the number it has: the      *)
(* clamp of the decrements never hides a difference.                        *)
CountsExact ==
    \A t \in Tokens : pendingCount[t] = Cardinality(UnsettledOf(t))

(* The counters the other contracts rely on say what the list of fines      *)
(* says, in number and in amount.                                           *)
CountersExact ==
    /\ CountsExact
    /\ \A t \in Tokens :
          pendingAmount[t] = MapThenSumSet(LAMBDA c : challan[c].amount, UnsettledOf(t))

(* The pointer a validity check follows is the only document in force:      *)
(* every active policy and every valid certificate is its title's current   *)
(* one, and a valid certificate was a passed test.                          *)
OneCurrentDocument ==
    /\ \A p \in PolicyIds : policy[p].active => ownToPolicy[policy[p].ownTid] = p
    /\ \A n \in CertIds : puc[n].valid => puc[n].passed /\ ownToPUC[puc[n].ownTid] = n

-----------------------------------------------------------------------------
(* INDUCTIVE INVARIANT behind the invariants on titles, transfers and loans *)

(* Titles above the counter are untouched, and the pointers from vehicles   *)
(* to titles and to loans stay below their counters and point back.         *)
PointersSound ==
    /\ \A t \in Tokens : t > tokenCtr => own[t] = NoOwn
    /\ \A d \in Vehicles : IsRegistered(d) =>
           dvpToOwn[d] <= tokenCtr /\ own[dvpToOwn[d]].dvp = d
    /\ \A d \in Vehicles : dvpToLoan[d] <= loanCtr
    /\ \A l \in LoanIds : loan[l].active => loan[l].dvp \in Vehicles

(* A request that is signed, or carries a loan, exists; a loan with its NOC *)
(* is closed.                                                               *)
FlagsSound ==
    /\ \A t \in Tokens : xfer[t].sellerOK \/ xfer[t].hasPendingLoan => xfer[t].exists
    /\ \A l \in LoanIds : loan[l].nocIssued => ~loan[l].active

(* None of these holds by itself: each step that keeps one of them uses the *)
(* others.                                                                  *)
TitleInv == PointersSound /\ FlagsSound /\ TitleConsistent /\ TransferCurrent
            /\ LoanFollowsTitle /\ NoHiddenLoan

IInv == TypeOK /\ TitleInv

(* A fine not yet issued names no title; a document in force names one.     *)
RegistersSound ==
    /\ \A c \in ChallanIds : c > challanCtr => challan[c].ownTid = 0
    /\ \A p \in PolicyIds : policy[p].active => policy[p].ownTid \in Tokens
    /\ \A n \in CertIds : puc[n].valid => puc[n].ownTid \in Tokens

(* What the fines and documents of every title add to it: scrapping trusts  *)
(* the count of pending fines and the two pointers, and what it leaves      *)
(* clean stays clean because the title is no longer active.                 *)
ComplianceInv == RegistersSound /\ CountsExact /\ OneCurrentDocument /\ ScrappedIsClean

FullInv == IInv /\ ComplianceInv

-----------------------------------------------------------------------------
(* ACTION PROPERTIES                                                        *)

(* While a lien stands the title does not move and the vehicle is not       *)
(* scrapped, whatever the parties, the RTO and the scrap centre do.         *)
LienStep ==
    \A d \in Vehicles : HasActiveLoan(d) /\ IsRegistered(d) =>
        CurrentOwner(d)' = CurrentOwner(d) /\ passport'[d] = passport[d]

LienHolds == [][LienStep]_vars

(* A title that changes hands under a pending loan leaves with that loan:   *)
(* the lender that attached it holds an active lien on the new owner.       *)
FinancedStep ==
    \A t \in Tokens :
        xfer[t].hasPendingLoan /\ own[t].owner # own'[t].owner =>
            \E d \in Vehicles :
                /\ d = own[t].dvp /\ HasActiveLoan(d)'
                /\ loan'[dvpToLoan'[d]].bankId = xfer[t].bankId
                /\ loan'[dvpToLoan'[d]].borrower = own'[t].owner

FinancedTransferCarriesLien == [][FinancedStep]_vars

(* A deactivated bank gains no lien -- not even through a loan it attached  *)
(* to a transfer while it was active.                                       *)
NewLienStep ==
    \A l \in LoanIds :
        loan'[l].active /\ ~loan[l].active => bank[loan'[l].bankId].active

InactiveBankGainsNoLien == [][NewLienStep]_vars

-----------------------------------------------------------------------------
(* REFINEMENT: the contracts implement the ledger of titles                 *)

TitleState(d) == IF ~IsRegistered(d) THEN "untitled"
                 ELSE IF own[dvpToOwn[d]].active THEN "held" ELSE "scrapped"

StandingOffer(d) ==
    IF HasActiveXfer(d)
    THEN [buyer |-> xfer[dvpToOwn[d]].buyer, agreed |-> xfer[dvpToOwn[d]].buyerOK]
    ELSE [buyer |-> Nobody, agreed |-> FALSE]

Ledger == INSTANCE TitleLedger WITH
    state  <- [d \in Vehicles |-> TitleState(d)],
    holder <- [d \in Vehicles |-> CurrentOwner(d)],
    offer  <- [d \in Vehicles |-> StandingOffer(d)]

(* Title moves only as the ledger allows: granted once, conveyed only to a  *)
(* person who agreed to the holder's standing offer, scrapped with no offer.*)
ImplementsLedger == Ledger!LedgerSpec

-----------------------------------------------------------------------------
(* STATEMENTS OF THE REPOSITORY THAT THE CODE DOES NOT KEEP                 *)

(* DigitalVehiclePassport.sol:89: the vehicle's owner designates the scrap  *)
(* centre.  Here: a centre that could scrap the vehicle now was designated  *)
(* by the person who owns it now.                                           *)
ScrapDesignatedByOwner ==
    \A d \in Vehicles, s \in ScrapCentres :
        MayScrap(s, d) => authorizedBy[d] = CurrentOwner(d)

(* LoanContract.sol:170: a loan on a used car attaches to its transfer.     *)
(* Here: an active bank can attach one, in the buyer's name, to any         *)
(* transfer that carries none.                                              *)
UsedCarLoanAttaches ==
    \A w \in BankWallets, d \in Vehicles :
        LET t == dvpToOwn[d] IN
        MayLend(w, d) /\ HasActiveXfer(d) /\ ~xfer[t].hasPendingLoan =>
            ENABLED RegisterUsedCarLoan(w, d, xfer[t].buyer)
=============================================================================
