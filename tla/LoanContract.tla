------------------------------ MODULE LoanContract ------------------------------
(***************************************************************************)
(* LoanContract.sol: banks, loans keyed by the vehicle's passport, and the *)
(* NOC token that records a cleared loan.  registerLoan takes one of three *)
(* courses: a loan on a vehicle not yet registered, a pending loan on a    *)
(* transfer under way, or a loan to the current owner.                     *)
(*                                                                         *)
(* regBank is the one registration that does not refuse a wallet it knows: *)
(* a wallet may stand for several bank ids and addrToBank keeps the last.  *)
(* So banks are modelled by id, with their wallet.                         *)
(***************************************************************************)
EXTENDS DigitalVehiclePassport

CONSTANTS
    BankWallets,   \* wallets registered as a bank's auth
    MaxBanks,      \* bound: bank ids
    MaxLoans       \* bound: loan ids

ASSUME LoanAssumption == MaxBanks \in Nat /\ MaxLoans \in Nat /\ Nobody \notin BankWallets

VARIABLES
    bankCtr,       \* _bankCtr
    bank,          \* banks
    addrToBank,    \* addrToBank; a wallet has BANK_ROLE iff it is not 0
    loanCtr,       \* _loanCtr
    loan,          \* loans
    dvpToLoan,     \* dvpToLoan: the vehicle's latest loan, 0 if none
    nocOwner       \* ERC-721 owner of each NOC token

loanVars == <<bankCtr, bank, addrToBank, loanCtr, loan, dvpToLoan, nocOwner>>

BankIds == 1 .. MaxBanks
LoanIds == 1 .. MaxLoans

LoanRecord == [dvp : Vehicles \cup {Nobody}, bankId : 0 .. MaxBanks,
               borrower : Owners, active : BOOLEAN, nocIssued : BOOLEAN]
NoLoan     == [dvp |-> Nobody, bankId |-> 0, borrower |-> Nobody,
               active |-> FALSE, nocIssued |-> FALSE]

LoanTypeOK ==
    /\ bankCtr \in 0 .. MaxBanks
    /\ bank \in [BankIds -> [auth : BankWallets \cup {Nobody}, active : BOOLEAN]]
    /\ addrToBank \in [BankWallets -> 0 .. MaxBanks]
    /\ loanCtr \in 0 .. MaxLoans
    /\ loan \in [LoanIds -> LoanRecord]
    /\ dvpToLoan \in [Vehicles -> 0 .. MaxLoans]
    /\ nocOwner \in [LoanIds -> Owners]

LoanInit ==
    /\ bankCtr = 0
    /\ bank = [b \in BankIds |-> [auth |-> Nobody, active |-> FALSE]]
    /\ addrToBank = [a \in BankWallets |-> 0]
    /\ loanCtr = 0
    /\ loan = [l \in LoanIds |-> NoLoan]
    /\ dvpToLoan = [d \in Vehicles |-> 0]
    /\ nocOwner = [l \in LoanIds |-> Nobody]

-----------------------------------------------------------------------------
(* Views                                                                    *)

HasActiveLoan(d) ==
    dvpToLoan[d] # 0 /\ loan[dvpToLoan[d]].active /\ ~loan[dvpToLoan[d]].nocIssued

IsLoanCleared(d) ==
    dvpToLoan[d] # 0 => ~loan[dvpToLoan[d]].active \/ loan[dvpToLoan[d]].nocIssued

(* Fault: tests nocIssued where active is meant.                            *)
LoanSettled(d) == dvpToLoan[d] # 0 /\ loan[dvpToLoan[d]].nocIssued

(* The test registerLoan and systemActivatePendingLoan make: LoanExists     *)
LoanExists(d) == dvpToLoan[d] # 0 /\ loan[dvpToLoan[d]].active

(* Fault: any borrower will do.                                             *)
AnyBorrower(d, u) == HasActiveLoan(d) => loan[dvpToLoan[d]].borrower # Nobody

(* The loan a vehicle is registered with is its buyer's.                    *)
BorrowerMatches(d, u) == HasActiveLoan(d) => loan[dvpToLoan[d]].borrower = u

(* onlyRole(BANK_ROLE), and the bank the wallet stands for now              *)
ActiveBank(w) == addrToBank[w] # 0 /\ bank[addrToBank[w]].active

-----------------------------------------------------------------------------
(* Banks                                                                    *)

RegBank(w) ==
    /\ bankCtr < MaxBanks
    /\ bankCtr' = bankCtr + 1
    /\ bank' = [bank EXCEPT ![bankCtr'] = [auth |-> w, active |-> TRUE]]
    /\ addrToBank' = [addrToBank EXCEPT ![w] = bankCtr']
    /\ UNCHANGED <<loanCtr, loan, dvpToLoan, nocOwner>>

ToggleBankStatus(b) ==
    /\ b <= bankCtr
    /\ bank' = [bank EXCEPT ![b].active = ~@]
    /\ UNCHANGED <<bankCtr, addrToBank, loanCtr, loan, dvpToLoan, nocOwner>>

-----------------------------------------------------------------------------
(* Loans                                                                    *)

(* _createLoan, after closed -- the loan it replaces, or 0 -- is closed     *)
CreateLoan(d, u, b, closed) ==
    /\ loanCtr < MaxLoans
    /\ loanCtr' = loanCtr + 1
    /\ loan' = [l \in LoanIds |->
                  IF l = loanCtr' THEN [dvp |-> d, bankId |-> b, borrower |-> u,
                                        active |-> TRUE, nocIssued |-> FALSE]
                  ELSE IF l = closed THEN [loan[l] EXCEPT !.active = FALSE]
                  ELSE loan[l]]
    /\ dvpToLoan' = [dvpToLoan EXCEPT ![d] = loanCtr']
    /\ UNCHANGED <<bankCtr, bank, addrToBank, nocOwner>>

MayLend(w, d) ==
    /\ DvpExists(d) /\ passport[d].status # "SCRAPPED"
    /\ ActiveBank(w)

(* registerLoan on a vehicle not yet registered: any buyer                  *)
RegisterNewCarLoan(w, d, u) ==
    /\ MayLend(w, d)
    /\ ~IsRegistered(d)
    /\ ~LoanExists(d)
    /\ CreateLoan(d, u, addrToBank[w], 0)
    /\ UNCHANGED ownershipVars

(* registerLoan while the vehicle is being transferred                      *)
RegisterUsedCarLoan(w, d, u) ==
    /\ MayLend(w, d)
    /\ HasActiveXfer(d)
    /\ AttachPendingLoan(d, addrToBank[w], u)
    /\ UNCHANGED loanVars

(* registerLoan to the owner of a registered vehicle                        *)
RegisterTitleLoan(w, d, u) ==
    /\ MayLend(w, d)
    /\ IsRegistered(d) /\ ~HasActiveXfer(d)
    /\ CurrentOwner(d) = u
    /\ ~LoanExists(d)
    /\ CreateLoan(d, u, addrToBank[w], 0)
    /\ UNCHANGED ownershipVars

CancelPendingLoan(w, d) ==
    /\ ActiveBank(w)
    /\ DetachPendingLoan(d, addrToBank[w])
    /\ UNCHANGED loanVars

(* Fault: an inactive bank's loan is dropped instead of refusing the call.  *)
ActivateOrDrop(d, b, u) == IF bank[b].active THEN CreateLoan(d, u, b, 0) ELSE UNCHANGED loanVars

(* Fault: the bank's status is not checked again.                           *)
ActivateUnchecked(d, b, u) == ~LoanExists(d) /\ CreateLoan(d, u, b, 0)

(* Called by OwnershipToken.approveTransfer                                 *)
SystemActivatePendingLoan(d, b, u) ==
    /\ HasSystemRole("loan", "ownership")
    /\ bank[b].active
    /\ ~LoanExists(d)
    /\ CreateLoan(d, u, b, 0)

RefinanceLoan(w, d) ==
    /\ LoanExists(d)
    /\ ActiveBank(w)
    /\ loan[dvpToLoan[d]].bankId = addrToBank[w]
    /\ CreateLoan(d, loan[dvpToLoan[d]].borrower, addrToBank[w], dvpToLoan[d])
    /\ UNCHANGED ownershipVars

(* The bank need not be active to clear a loan.                             *)
IssueNOC(w, d) ==
    LET l == dvpToLoan[d] IN
    /\ addrToBank[w] # 0
    /\ LoanExists(d) /\ ~loan[l].nocIssued
    /\ loan[l].bankId = addrToBank[w]
    /\ loan' = [loan EXCEPT ![l].active = FALSE, ![l].nocIssued = TRUE]
    /\ nocOwner' = IF CurrentOwner(d) # Nobody
                   THEN [nocOwner EXCEPT ![l] = CurrentOwner(d)] ELSE nocOwner
    /\ UNCHANGED <<bankCtr, bank, addrToBank, loanCtr, dvpToLoan>>
    /\ UNCHANGED ownershipVars
=============================================================================
