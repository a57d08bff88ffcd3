-------------------------- MODULE VehicleSystem_proofs --------------------------
(***************************************************************************)
(* Proofs about VehicleSystem, for any number of vehicles, citizens,       *)
(* offices and banks and any value of the bounds.                          *)
(***************************************************************************)
EXTENDS VehicleSystem, FiniteSetTheorems, WellFoundedInduction, TLAPS

(* The facts about the constants that the proofs use, under one name.       *)
LEMMA Constants ==
    /\ MaxTime \in Nat /\ MaxTokens \in Nat /\ MaxXfers \in Nat
    /\ MaxBanks \in Nat /\ MaxLoans \in Nat /\ MaxChallans \in Nat
    /\ MaxPolicies \in Nat /\ MaxClaims \in Nat /\ MaxCerts \in Nat
    /\ Amounts \subseteq Nat \ {0}
    /\ Nobody \notin Users /\ Nobody \notin Vehicles
BY TimeAssumption, OwnershipAssumption, LoanAssumption, ChallanAssumption,
   InsuranceAssumption, PUCAssumption

-----------------------------------------------------------------------------
(* TYPE CORRECTNESS, one contract at a time                                 *)

(* An administrator's call leaves every entity with one of the statuses.    *)
LEMMA AdminCallType ==
    ASSUME NEW S, NEW registry \in [S -> EntityStatus], NEW e \in S
    PROVE  AdminCall(registry, e) \in [S -> EntityStatus]
BY DEF AdminCall, Registered, Toggled, EntityStatus

(* Every storage starts well typed, the deployment linking and granting it. *)
LEMMA InitType == Init => TypeOK
<1> SUFFICES ASSUME Init PROVE TypeOK
  OBVIOUS
<1> USE Constants DEF Init
<1>1. now \in Clock
  BY DEF Clock
<1>2. OwnershipTypeOK
  BY DEF OwnershipInit, OwnershipTypeOK, InitialStatus, EntityStatus, Dates,
         OwnRecord, NoOwn, XferRecord, NoXfer, Owners, Clock
<1>3. DvpTypeOK
  BY DEF DvpInit, DvpTypeOK, InitialStatus, EntityStatus, PassportStatus, Owners
<1>4. LoanTypeOK
  BY DEF LoanInit, LoanTypeOK, LoanRecord, NoLoan, Owners
<1>5. ChallanTypeOK
  BY DEF ChallanInit, ChallanTypeOK, InitialStatus, EntityStatus, ChallanRecord, NoChallan
<1>6. InsuranceTypeOK
  BY DEF InsuranceInit, InsuranceTypeOK, InitialStatus, EntityStatus, PolicyRecord,
         NoPolicy, Dates
<1>7. PUCTypeOK
  BY DEF PUCInit, PUCTypeOK, InitialStatus, EntityStatus, PUCRecord, NoPUC, Dates
<1>8. PendingBankOK
  BY DEF PendingBankOK, OwnershipInit, NoXfer
<1> QED
  BY <1>1, <1>2, <1>3, <1>4, <1>5, <1>6, <1>7, <1>8 DEF TypeOK

(* A contract whose storage a transaction leaves alone stays well typed.    *)
LEMMA TypeFrame ==
    ASSUME TypeOK
    PROVE  /\ UNCHANGED now => (now \in Clock)'
           /\ UNCHANGED ownershipVars => OwnershipTypeOK' /\ PendingBankOK'
           /\ UNCHANGED dvpVars => DvpTypeOK'
           /\ UNCHANGED loanVars => LoanTypeOK'
           /\ UNCHANGED challanVars => ChallanTypeOK'
           /\ UNCHANGED insuranceVars => InsuranceTypeOK'
           /\ UNCHANGED pucVars => PUCTypeOK'
<1>1. UNCHANGED now => (now \in Clock)'
  BY DEF TypeOK
<1>2. UNCHANGED ownershipVars => OwnershipTypeOK' /\ PendingBankOK'
  BY DEF TypeOK, ownershipVars, OwnershipTypeOK, PendingBankOK
<1>3. UNCHANGED dvpVars => DvpTypeOK'
  BY DEF TypeOK, dvpVars, DvpTypeOK
<1>4. UNCHANGED loanVars => LoanTypeOK'
  BY DEF TypeOK, loanVars, LoanTypeOK
<1>5. UNCHANGED challanVars => ChallanTypeOK'
  BY DEF TypeOK, challanVars, ChallanTypeOK
<1>6. UNCHANGED insuranceVars => InsuranceTypeOK'
  BY DEF TypeOK, insuranceVars, InsuranceTypeOK
<1>7. UNCHANGED pucVars => PUCTypeOK'
  BY DEF TypeOK, pucVars, PUCTypeOK
<1> QED
  BY <1>1, <1>2, <1>3, <1>4, <1>5, <1>6, <1>7

(* A transfer request is deleted, signed, given a loan or taken from it.    *)
LEMMA XferType ==
    ASSUME TypeOK, NEW t \in Tokens
    PROVE  /\ DeleteXfer(t) =>
                /\ xfer' \in [Tokens -> XferRecord]
                /\ hasXfer' \in [Tokens -> BOOLEAN]
                /\ PendingBankOK'
           /\ \A b : AcceptTransfer(b, t) => OwnershipTypeOK' /\ PendingBankOK'
           /\ \A u, b \in Users : InitTransfer(u, t, b) => OwnershipTypeOK' /\ PendingBankOK'
<1> OwnershipTypeOK /\ PendingBankOK /\ now \in Clock
  BY DEF TypeOK
<1>1. ASSUME DeleteXfer(t)
      PROVE  /\ xfer' \in [Tokens -> XferRecord]
             /\ hasXfer' \in [Tokens -> BOOLEAN]
             /\ PendingBankOK'
  <2>1. NoXfer \in XferRecord /\ NoXfer.bankId \in 0 .. MaxBanks
    BY Constants DEF NoXfer, XferRecord, Owners, Clock
  <2> QED
    BY <1>1, <2>1 DEF DeleteXfer, OwnershipTypeOK, PendingBankOK
<1>2. ASSUME NEW b, AcceptTransfer(b, t) PROVE OwnershipTypeOK' /\ PendingBankOK'
  <2>1. xfer' \in [Tokens -> XferRecord] /\ PendingBankOK'
    BY <1>2 DEF AcceptTransfer, OwnershipTypeOK, PendingBankOK, XferRecord
  <2> QED
    BY <1>2, <2>1 DEF AcceptTransfer, OwnershipTypeOK
<1>3. ASSUME NEW u \in Users, NEW b \in Users, InitTransfer(u, t, b)
      PROVE  OwnershipTypeOK' /\ PendingBankOK'
  <2> DEFINE x == [exists |-> TRUE, seller |-> u, buyer |-> b, date |-> now,
                   sellerOK |-> TRUE, buyerOK |-> FALSE,
                   hasPendingLoan |-> FALSE, bankId |-> 0]
  <2>1. x \in XferRecord /\ x.bankId \in 0 .. MaxBanks
    BY Constants DEF XferRecord, Owners
  <2>2. xfer' = [xfer EXCEPT ![t] = x]
    BY <1>3 DEF InitTransfer
  <2> HIDE DEF x
  <2>3. xfer' \in [Tokens -> XferRecord] /\ PendingBankOK'
    BY <2>1, <2>2 DEF OwnershipTypeOK, PendingBankOK
  <2> QED
    BY <1>3, <2>3 DEF InitTransfer, OwnershipTypeOK
<1> QED
  BY <1>1, <1>2, <1>3

(* The storage of OwnershipToken, one transaction or local part at a time.  *)
LEMMA OwnershipType ==
    ASSUME TypeOK
    PROVE  /\ \A r \in RTOs : AdminRTO(r) => OwnershipTypeOK' /\ PendingBankOK'
           /\ \A r \in RTOs, dl \in Dealers :
                 \/ RevokeTradeCert(r, dl)
                 \/ \E till \in Dates : IssueTradeCert(r, dl, till)
                 => OwnershipTypeOK' /\ PendingBankOK'
           /\ \A t \in Tokens : \A c : CancelTransfer(c, t) => OwnershipTypeOK' /\ PendingBankOK'
           /\ \A t \in Tokens : DeactivateVehicle(t) => OwnershipTypeOK' /\ PendingBankOK'
           /\ \A t \in Tokens : MoveTitle(t) => OwnershipTypeOK' /\ PendingBankOK'
           /\ \A d \in Vehicles, u \in Users :
                 MintTitle(d, u) => OwnershipTypeOK' /\ PendingBankOK'
<1> USE Constants
<1>1. ASSUME NEW r \in RTOs, AdminRTO(r) PROVE OwnershipTypeOK' /\ PendingBankOK'
  BY <1>1, AdminCallType DEF AdminRTO, TypeOK, OwnershipTypeOK, PendingBankOK
<1>2. ASSUME NEW r \in RTOs, NEW dl \in Dealers,
             \/ RevokeTradeCert(r, dl)
             \/ \E till \in Dates : IssueTradeCert(r, dl, till)
      PROVE  OwnershipTypeOK' /\ PendingBankOK'
  <2>1. tradeCert \in [Dealers -> [validTill : Dates, active : BOOLEAN]]
    BY DEF TypeOK, OwnershipTypeOK
  <2>2. CASE RevokeTradeCert(r, dl)
    <3>1. tradeCert' \in [Dealers -> [validTill : Dates, active : BOOLEAN]]
      BY <2>1, <2>2 DEF RevokeTradeCert
    <3> QED
      BY <2>2, <3>1 DEF RevokeTradeCert, TypeOK, OwnershipTypeOK, PendingBankOK
  <2>3. CASE \E till \in Dates : IssueTradeCert(r, dl, till)
    <3>1. tradeCert' \in [Dealers -> [validTill : Dates, active : BOOLEAN]]
      BY <2>1, <2>3 DEF IssueTradeCert
    <3> QED
      BY <2>3, <3>1 DEF IssueTradeCert, TypeOK, OwnershipTypeOK, PendingBankOK
  <2> QED
    BY <1>2, <2>2, <2>3
<1>3. ASSUME NEW t \in Tokens, NEW c, CancelTransfer(c, t)
      PROVE  OwnershipTypeOK' /\ PendingBankOK'
  BY <1>3, XferType DEF CancelTransfer, TypeOK, OwnershipTypeOK
<1>4. ASSUME NEW t \in Tokens, DeactivateVehicle(t)
      PROVE  OwnershipTypeOK' /\ PendingBankOK'
  <2>1. xfer' \in [Tokens -> XferRecord] /\ hasXfer' \in [Tokens -> BOOLEAN] /\ PendingBankOK'
    BY <1>4, XferType DEF DeactivateVehicle, TypeOK, OwnershipTypeOK, PendingBankOK
  <2>2. own' \in [Tokens -> OwnRecord]
    BY <1>4 DEF DeactivateVehicle, TypeOK, OwnershipTypeOK, OwnRecord
  <2> QED
    BY <1>4, <2>1, <2>2 DEF DeactivateVehicle, TypeOK, OwnershipTypeOK, Owners
<1>5. ASSUME NEW t \in Tokens, MoveTitle(t) PROVE OwnershipTypeOK' /\ PendingBankOK'
  <2>1. xfer[t].buyer \in Owners
    BY DEF TypeOK, OwnershipTypeOK, XferRecord
  <2>2. own' \in [Tokens -> OwnRecord]
    BY <1>5, <2>1 DEF MoveTitle, TypeOK, OwnershipTypeOK, OwnRecord
  <2> QED
    BY <1>5, <2>1, <2>2, XferType DEF MoveTitle, TypeOK, OwnershipTypeOK
<1>6. ASSUME NEW d \in Vehicles, NEW u \in Users, MintTitle(d, u)
      PROVE  OwnershipTypeOK' /\ PendingBankOK'
  <2>1. tokenCtr' \in Tokens /\ tokenCtr' \in 0 .. MaxTokens
    BY <1>6 DEF MintTitle, TypeOK, OwnershipTypeOK, Tokens
  <2>2. own' \in [Tokens -> OwnRecord]
    BY <1>6, <2>1 DEF MintTitle, TypeOK, OwnershipTypeOK, OwnRecord, Owners
  <2> QED
    BY <1>6, <2>1, <2>2 DEF MintTitle, TypeOK, OwnershipTypeOK, PendingBankOK, Owners
<1> QED
  BY <1>1, <1>2, <1>3, <1>4, <1>5, <1>6

(* The storage of DigitalVehiclePassport.                                   *)
LEMMA DvpType ==
    ASSUME TypeOK
    PROVE  /\ \A m \in Mfgs : AdminMfg(m) => DvpTypeOK'
           /\ \A s \in ScrapCentres : AdminScrapCentre(s) => DvpTypeOK'
           /\ DvpStep => DvpTypeOK'
           /\ \A d \in Vehicles : ActivateVehicle(d) \/ MarkScrapped(d) => DvpTypeOK'
<1> DvpTypeOK
  BY DEF TypeOK
<1> USE DEF DvpTypeOK
<1>1. ASSUME NEW m \in Mfgs, AdminMfg(m) PROVE DvpTypeOK'
  BY <1>1, AdminCallType DEF AdminMfg
<1>2. ASSUME NEW s \in ScrapCentres, AdminScrapCentre(s) PROVE DvpTypeOK'
  BY <1>2, AdminCallType DEF AdminScrapCentre
<1>3. ASSUME NEW d \in Vehicles, NEW m \in Mfgs, Manufacture(m, d) PROVE DvpTypeOK'
  BY <1>3 DEF Manufacture, PassportStatus
<1>4. ASSUME NEW d \in Vehicles, NEW m \in Mfgs, NEW dl \in Dealers, AssignToDealer(m, d, dl)
      PROVE  DvpTypeOK'
  BY <1>4 DEF AssignToDealer
<1>5. ASSUME NEW d \in Vehicles, NEW u \in Users, NEW s \in ScrapCentres, AuthorizeScrap(u, d, s)
      PROVE  DvpTypeOK'
  BY <1>5 DEF AuthorizeScrap, Owners
<1>6. ASSUME NEW d \in Vehicles, ActivateVehicle(d) \/ MarkScrapped(d) PROVE DvpTypeOK'
  <2>1. passport' \in [Vehicles -> [status : PassportStatus, mfg : Mfgs \cup {Nobody}]]
    BY <1>6 DEF ActivateVehicle, MarkScrapped, PassportStatus
  <2> QED
    BY <1>6, <2>1 DEF ActivateVehicle, MarkScrapped
<1> QED
  BY <1>1, <1>2, <1>3, <1>4, <1>5, <1>6 DEF DvpStep

(* The storage of LoanContract.                                             *)
LEMMA CreateLoanType ==
    ASSUME TypeOK, NEW d \in Vehicles \cup {Nobody}, NEW u \in Owners,
           NEW b \in 0 .. MaxBanks, NEW closed,
           CreateLoan(d, u, b, closed)
    PROVE  LoanTypeOK'
<1> USE Constants
<1>1. LoanTypeOK
  BY DEF TypeOK
<1>2. loanCtr' \in LoanIds /\ loanCtr' \in 0 .. MaxLoans
  BY <1>1 DEF CreateLoan, LoanTypeOK, LoanIds
<1>3. loan' \in [LoanIds -> LoanRecord]
  BY <1>1 DEF CreateLoan, LoanTypeOK, LoanRecord
<1> QED
  BY <1>1, <1>2, <1>3 DEF CreateLoan, LoanTypeOK

(* A bank's wallet is used under the id it stands for now.                  *)
LEMMA BankIdType == ASSUME TypeOK, NEW w \in BankWallets PROVE addrToBank[w] \in 0 .. MaxBanks
BY DEF TypeOK, LoanTypeOK

(* The storage of LoanContract, one transaction or local part at a time.    *)
LEMMA LoanType ==
    ASSUME TypeOK
    PROVE  /\ \A w \in BankWallets : RegBank(w) => LoanTypeOK'
           /\ \A b \in BankIds : ToggleBankStatus(b) => LoanTypeOK'
           /\ LoanStep => LoanTypeOK' /\ OwnershipTypeOK' /\ PendingBankOK'
<1> USE Constants
<1>0. LoanTypeOK
  BY DEF TypeOK
<1>1. ASSUME NEW w \in BankWallets, RegBank(w) PROVE LoanTypeOK'
  <2>1. bankCtr' \in BankIds /\ bankCtr' \in 0 .. MaxBanks
    BY <1>0, <1>1 DEF RegBank, LoanTypeOK, BankIds
  <2> QED
    BY <1>0, <1>1, <2>1 DEF RegBank, LoanTypeOK
<1>2. ASSUME NEW b \in BankIds, ToggleBankStatus(b) PROVE LoanTypeOK'
  <2>1. bank' \in [BankIds -> [auth : BankWallets \cup {Nobody}, active : BOOLEAN]]
    BY <1>0, <1>2 DEF ToggleBankStatus, LoanTypeOK
  <2> QED
    BY <1>0, <1>2, <2>1 DEF ToggleBankStatus, LoanTypeOK
<1>3. ASSUME NEW w \in BankWallets, NEW d \in Vehicles, NEW u \in Users,
             RegisterNewCarLoan(w, d, u) \/ RegisterTitleLoan(w, d, u)
      PROVE  LoanTypeOK' /\ OwnershipTypeOK' /\ PendingBankOK'
  <2>1. CreateLoan(d, u, addrToBank[w], 0) /\ UNCHANGED ownershipVars
    BY <1>3 DEF RegisterNewCarLoan, RegisterTitleLoan
  <2> QED
    BY <2>1, CreateLoanType, BankIdType, TypeFrame DEF Owners
<1>4. ASSUME NEW w \in BankWallets, NEW d \in Vehicles,
             \/ \E u \in Users : RegisterUsedCarLoan(w, d, u)
             \/ CancelPendingLoan(w, d)
      PROVE  LoanTypeOK' /\ OwnershipTypeOK' /\ PendingBankOK'
  <2> DEFINE t == dvpToOwn[d]
  <2>1. t # 0 /\ UNCHANGED <<loanVars, rto, tradeCert, tokenCtr, own, dvpToOwn, nft, hasXfer>>
    BY <1>4 DEF RegisterUsedCarLoan, CancelPendingLoan, AttachPendingLoan, DetachPendingLoan
  <2>2. t \in Tokens
    BY <2>1 DEF TypeOK, OwnershipTypeOK, Tokens
  <2>3. \/ xfer' = [xfer EXCEPT ![t].hasPendingLoan = TRUE, ![t].bankId = addrToBank[w]]
        \/ xfer' = [xfer EXCEPT ![t].hasPendingLoan = FALSE, ![t].bankId = 0]
    BY <1>4 DEF RegisterUsedCarLoan, CancelPendingLoan, AttachPendingLoan, DetachPendingLoan
  <2>4. xfer' \in [Tokens -> XferRecord] /\ PendingBankOK'
    <3> DEFINE Typed(f) == f \in [Tokens -> XferRecord]
                           /\ \A s \in Tokens : f[s].bankId \in 0 .. MaxBanks
    <3>1. ASSUME NEW flag \in BOOLEAN, NEW id \in 0 .. MaxBanks
          PROVE  Typed([xfer EXCEPT ![t].hasPendingLoan = flag, ![t].bankId = id])
      <4>1. Typed(xfer)
        BY DEF TypeOK, OwnershipTypeOK, PendingBankOK
      <4> DEFINE g == [xfer EXCEPT ![t].hasPendingLoan = flag]
      <4>2. Typed(g)
        BY <2>2, <4>1 DEF XferRecord
      <4>3. Typed([g EXCEPT ![t].bankId = id])
        <5> HIDE DEF g
        <5> QED
          BY <2>2, <4>2 DEF XferRecord
      <4> QED
        BY <4>3
    <3>2. 0 \in 0 .. MaxBanks
      OBVIOUS
    <3>3. Typed(xfer')
      <4> HIDE DEF Typed
      <4> QED
        BY <2>3, <3>1, <3>2, BankIdType
    <3> QED
      BY <3>3 DEF PendingBankOK
  <2> QED
    BY <2>1, <2>4, TypeFrame DEF TypeOK, OwnershipTypeOK
<1>5. ASSUME NEW w \in BankWallets, NEW d \in Vehicles, RefinanceLoan(w, d)
      PROVE  LoanTypeOK' /\ OwnershipTypeOK' /\ PendingBankOK'
  <2>1. loan[dvpToLoan[d]].borrower \in Owners
    BY <1>0, <1>5 DEF RefinanceLoan, LoanExists, LoanTypeOK, LoanRecord, LoanIds
  <2> QED
    BY <1>5, <2>1, CreateLoanType, BankIdType, TypeFrame DEF RefinanceLoan
<1>6. ASSUME NEW w \in BankWallets, NEW d \in Vehicles, IssueNOC(w, d)
      PROVE  LoanTypeOK' /\ OwnershipTypeOK' /\ PendingBankOK'
  <2>1. dvpToLoan[d] \in LoanIds
    BY <1>0, <1>6 DEF IssueNOC, LoanExists, LoanTypeOK, LoanIds
  <2>2. CurrentOwner(d) \in Owners
    BY DEF CurrentOwner, IsRegistered, TypeOK, OwnershipTypeOK, OwnRecord, Owners, Tokens
  <2>3. loan' \in [LoanIds -> LoanRecord]
    BY <1>0, <1>6, <2>1 DEF IssueNOC, LoanTypeOK, LoanRecord
  <2>4. nocOwner' \in [LoanIds -> Owners]
    BY <1>0, <1>6, <2>1, <2>2 DEF IssueNOC, LoanTypeOK
  <2> QED
    BY <1>0, <1>6, <2>3, <2>4, TypeFrame DEF IssueNOC, LoanTypeOK
<1> QED
  BY <1>1, <1>2, <1>3, <1>4, <1>5, <1>6 DEF LoanStep

(* The storage of ChallanContract.                                          *)
LEMMA ChallanType ==
    ASSUME TypeOK
    PROVE  /\ \A p \in PoliceStations : AdminPolice(p) => ChallanTypeOK'
           /\ ChallanStep => ChallanTypeOK'
           /\ \A t \in Tokens : CancelAllPendingChallans(t) => ChallanTypeOK'
<1> USE Constants
<1>0. ChallanTypeOK
  BY DEF TypeOK
<1>1. ASSUME NEW p \in PoliceStations, AdminPolice(p) PROVE ChallanTypeOK'
  BY <1>0, <1>1, AdminCallType DEF AdminPolice, ChallanTypeOK
<1>2. ASSUME NEW t \in Tokens, NEW p \in PoliceStations, NEW amount \in Amounts,
             IssueChallan(p, t, amount)
      PROVE  ChallanTypeOK'
  <2>1. challanCtr' \in ChallanIds /\ challanCtr' \in 0 .. MaxChallans
    BY <1>0, <1>2 DEF IssueChallan, ChallanTypeOK, ChallanIds
  <2>2. [ownTid |-> t, police |-> p, amount |-> amount, isPaid |-> FALSE,
         isCancelled |-> FALSE] \in ChallanRecord
    BY DEF ChallanRecord, Tokens
  <2>3. challan' \in [ChallanIds -> ChallanRecord]
    BY <1>0, <1>2, <2>1, <2>2 DEF IssueChallan, ChallanTypeOK
  <2>4. pendingCount' \in [Tokens -> Nat] /\ pendingAmount' \in [Tokens -> Nat]
    BY <1>0, <1>2 DEF IssueChallan, ChallanTypeOK
  <2> QED
    BY <1>0, <1>2, <2>1, <2>3, <2>4 DEF IssueChallan, ChallanTypeOK
<1>3. ASSUME NEW t \in Tokens, NEW c \in ChallanIds, SettleCounters(c, t),
             \/ challan' = [challan EXCEPT ![c].isPaid = TRUE]
             \/ challan' = [challan EXCEPT ![c].isCancelled = TRUE]
      PROVE  ChallanTypeOK'
  <2>0. challan[c] \in ChallanRecord
    BY <1>0 DEF ChallanTypeOK
  <2>1. challan[c].amount \in Nat
    <3>1. challan[c].amount \in Amounts \cup {0}
      BY <2>0 DEF ChallanRecord
    <3>2. \A a \in Amounts : a \in Nat
      BY ChallanAssumption
    <3>3. 0 \in Nat
      OBVIOUS
    <3> QED
      BY <3>1, <3>2, <3>3, Zenon
  <2>2. \A n, by \in Nat : Decremented(n, by) \in Nat
    BY DEF Decremented
  <2>3. pendingCount' \in [Tokens -> Nat] /\ pendingAmount' \in [Tokens -> Nat]
    BY <1>0, <1>3, <2>1, <2>2 DEF SettleCounters, ChallanTypeOK
  <2>4. challan' \in [ChallanIds -> ChallanRecord]
    <3>1. [challan[c] EXCEPT !.isPaid = TRUE] \in ChallanRecord
      BY <2>0 DEF ChallanRecord
    <3>2. [challan[c] EXCEPT !.isCancelled = TRUE] \in ChallanRecord
      BY <2>0 DEF ChallanRecord
    <3> QED
      BY <1>0, <1>3, <3>1, <3>2 DEF ChallanTypeOK
  <2> QED
    BY <1>0, <1>3, <2>3, <2>4 DEF SettleCounters, ChallanTypeOK
<1>4. ASSUME ChallanStep PROVE ChallanTypeOK'
  <2>1. PICK t \in Tokens :
          \/ \E p \in PoliceStations, amount \in Amounts : IssueChallan(p, t, amount)
          \/ \E p \in PoliceStations, c \in ChallanIds : PayChallan(p, t, c)
          \/ \E p \in PoliceStations, c \in ChallanIds : CancelChallan(p, t, c)
          \/ \E c \in ChallanIds : AdminCancelChallan(t, c)
    BY <1>4 DEF ChallanStep
  <2> QED
    BY <1>2, <1>3, <2>1 DEF PayChallan, CancelChallan, AdminCancelChallan
<1>5. ASSUME NEW t \in Tokens, CancelAllPendingChallans(t) PROVE ChallanTypeOK'
  <2>1. challan' \in [ChallanIds -> ChallanRecord]
    <3>1. \A c \in ChallanIds : challan[c] \in ChallanRecord
      BY <1>0 DEF ChallanTypeOK
    <3>2. \A c \in ChallanIds : [challan[c] EXCEPT !.isCancelled = TRUE] \in ChallanRecord
      BY <3>1 DEF ChallanRecord
    <3> QED
      BY <1>0, <1>5, <3>1, <3>2 DEF CancelAllPendingChallans, ChallanTypeOK
  <2>2. pendingCount' \in [Tokens -> Nat] /\ pendingAmount' \in [Tokens -> Nat]
    BY <1>0, <1>5 DEF CancelAllPendingChallans, ChallanTypeOK
  <2> QED
    BY <1>0, <1>5, <2>1, <2>2 DEF CancelAllPendingChallans, ChallanTypeOK
<1> QED
  BY <1>1, <1>4, <1>5

(* The storage of InsuranceToken.                                           *)
LEMMA InsuranceType ==
    ASSUME TypeOK
    PROVE  /\ \A i \in Insurers : AdminInsurer(i) => InsuranceTypeOK'
           /\ InsuranceStep => InsuranceTypeOK'
           /\ \A t \in Tokens : TerminatePolicy(t) => InsuranceTypeOK'
<1> USE Constants
<1>0. InsuranceTypeOK
  BY DEF TypeOK
<1>1. ASSUME NEW i \in Insurers, AdminInsurer(i) PROVE InsuranceTypeOK'
  BY <1>0, <1>1, AdminCallType DEF AdminInsurer, InsuranceTypeOK
<1>2. ASSUME NEW i \in Insurers, NEW t \in Tokens, NEW expiry \in Dates, IssuePolicy(i, t, expiry)
      PROVE  InsuranceTypeOK'
  <2>1. polCtr' \in PolicyIds /\ polCtr' \in 0 .. MaxPolicies
    BY <1>0, <1>2 DEF IssuePolicy, InsuranceTypeOK, PolicyIds
  <2>2. [ownTid |-> t, comp |-> i, expiry |-> expiry, active |-> TRUE, claimCnt |-> 0]
          \in PolicyRecord
    BY DEF PolicyRecord, Tokens
  <2>3. policy' \in [PolicyIds -> PolicyRecord]
    BY <1>0, <1>2, <2>1, <2>2 DEF IssuePolicy, InsuranceTypeOK, PolicyRecord
  <2> QED
    BY <1>0, <1>2, <2>1, <2>3 DEF IssuePolicy, InsuranceTypeOK
<1>3. ASSUME NEW i \in Insurers, NEW p \in PolicyIds, MarkPolicyExpired(i, p)
      PROVE  InsuranceTypeOK'
  BY <1>0, <1>3 DEF MarkPolicyExpired, InsuranceTypeOK, PolicyRecord
<1>4. ASSUME NEW i \in Insurers, NEW p \in PolicyIds, FileClaim(i, p) PROVE InsuranceTypeOK'
  <2>1. policy[p].claimCnt + 1 \in 0 .. MaxClaims
    BY <1>0, <1>4 DEF FileClaim, ClaimsLeft, InsuranceTypeOK, PolicyRecord
  <2>2. policy' \in [PolicyIds -> PolicyRecord]
    BY <1>0, <1>4, <2>1 DEF FileClaim, InsuranceTypeOK, PolicyRecord
  <2> QED
    BY <1>0, <1>4, <2>2 DEF FileClaim, InsuranceTypeOK
<1>5. ASSUME NEW t \in Tokens, TerminatePolicy(t) PROVE InsuranceTypeOK'
  BY <1>0, <1>5 DEF TerminatePolicy, InsuranceTypeOK, PolicyRecord
<1> QED
  BY <1>1, <1>2, <1>3, <1>4, <1>5 DEF InsuranceStep

(* The storage of PUCToken.                                                 *)
LEMMA PUCType ==
    ASSUME TypeOK
    PROVE  /\ \A c \in Centres : AdminCentre(c) => PUCTypeOK'
           /\ PUCStep => PUCTypeOK'
           /\ \A t \in Tokens : TerminatePUC(t) => PUCTypeOK'
<1> USE Constants
<1>0. PUCTypeOK
  BY DEF TypeOK
<1>1. ASSUME NEW c \in Centres, AdminCentre(c) PROVE PUCTypeOK'
  BY <1>0, <1>1, AdminCallType DEF AdminCentre, PUCTypeOK
<1>2. ASSUME NEW c \in Centres, NEW t \in Tokens, NEW expiry \in Dates,
             NEW withinLimits \in BOOLEAN, NEW passed \in BOOLEAN,
             IssuePUC(c, t, expiry, withinLimits, passed)
      PROVE  PUCTypeOK'
  <2>1. certCtr' \in CertIds /\ certCtr' \in 0 .. MaxCerts /\ certCtr' = certCtr + 1
    BY <1>0, <1>2 DEF IssuePUC, RecordTest, PUCTypeOK, CertIds
  <2>2. [ownTid |-> t, passed |-> passed, valid |-> passed,
         expiry |-> IF passed THEN expiry ELSE 0] \in PUCRecord
    BY DEF PUCRecord, Tokens, Dates
  <2>3. puc' \in [CertIds -> PUCRecord]
    BY <1>0, <1>2, <2>2 DEF IssuePUC, RecordTest, PUCTypeOK, PUCRecord
  <2>4. ownToPUC' \in [Tokens -> 0 .. MaxCerts]
    BY <1>0, <1>2, <2>1 DEF IssuePUC, RecordTest, CurrentAfter, PUCTypeOK
  <2> QED
    BY <1>0, <1>2, <2>1, <2>3, <2>4 DEF IssuePUC, PUCTypeOK
<1>3. ASSUME NEW c \in Centres, NEW n \in CertIds, MarkPUCExpired(c, n) PROVE PUCTypeOK'
  BY <1>0, <1>3 DEF MarkPUCExpired, PUCTypeOK, PUCRecord
<1>4. ASSUME NEW t \in Tokens, TerminatePUC(t) PROVE PUCTypeOK'
  BY <1>0, <1>4 DEF TerminatePUC, PUCTypeOK, PUCRecord
<1> QED
  BY <1>1, <1>2, <1>3, <1>4 DEF PUCStep

(* A step of the whole system, one group of transactions at a time.         *)
LEMMA NextType == TypeOK /\ [Next]_vars => TypeOK'
<1> SUFFICES ASSUME TypeOK, [Next]_vars PROVE TypeOK'
  OBVIOUS
<1>1. CASE AdminStep
  BY <1>1, TypeFrame, OwnershipType, DvpType, LoanType, ChallanType, InsuranceType, PUCType
     DEF AdminStep, TypeOK, complianceVars
<1>2. CASE DvpStep
  BY <1>2, TypeFrame, DvpType DEF DvpStep, TypeOK, complianceVars
<1>3. CASE TransferStep
  <2>1. OwnershipTypeOK' /\ PendingBankOK'
    BY <1>3, XferType, OwnershipType DEF TransferStep
  <2> QED
    BY <1>3, <2>1, TypeFrame DEF TransferStep, TypeOK, complianceVars
<1>4. CASE TradeCertStep
  <2>1. OwnershipTypeOK' /\ PendingBankOK'
    BY <1>4, OwnershipType DEF TradeCertStep
  <2> QED
    BY <1>4, <2>1, TypeFrame DEF TradeCertStep, TypeOK, complianceVars
<1>5. CASE LoanStep
  BY <1>5, TypeFrame, LoanType DEF LoanStep, TypeOK, complianceVars
<1>6. CASE ChallanStep
  BY <1>6, TypeFrame, ChallanType DEF ChallanStep, TypeOK
<1>7. CASE InsuranceStep
  BY <1>7, TypeFrame, InsuranceType DEF InsuranceStep, TypeOK
<1>8. CASE PUCStep
  BY <1>8, TypeFrame, PUCType DEF PUCStep, TypeOK
<1>9. CASE RegisterStep
  <2>1. PICK r \in RTOs, d \in Vehicles, u \in Users, dl \in Dealers : Register(r, d, u, dl)
    BY <1>9 DEF RegisterStep
  <2> QED
    BY <2>1, TypeFrame, OwnershipType, DvpType DEF Register, TypeOK, complianceVars
<1>10. CASE ApproveStep
  <2>1. PICK r \in RTOs, t \in Tokens : ApproveTransfer(r, t)
    BY <1>10 DEF ApproveStep
  <2>2. LoanTypeOK'
    <3>1. CASE ~xfer[t].hasPendingLoan
      BY <2>1, <3>1, TypeFrame DEF ApproveTransfer
    <3>2. CASE xfer[t].hasPendingLoan
      <4>1. own[t].dvp \in Vehicles \cup {Nobody}
        BY DEF TypeOK, OwnershipTypeOK, OwnRecord
      <4>2. xfer[t].bankId \in 0 .. MaxBanks /\ xfer[t].buyer \in Owners
        BY DEF TypeOK, PendingBankOK, OwnershipTypeOK, XferRecord
      <4> QED
        BY <2>1, <3>2, <4>1, <4>2, CreateLoanType
           DEF ApproveTransfer, SystemActivatePendingLoan
    <3> QED
      BY <3>1, <3>2
  <2>3. OwnershipTypeOK' /\ PendingBankOK'
    BY <2>1, OwnershipType DEF ApproveTransfer
  <2> QED
    BY <2>1, <2>2, <2>3, TypeFrame DEF ApproveTransfer, TypeOK, complianceVars
<1>11. CASE ScrapStep
  <2>1. PICK s \in ScrapCentres, d \in Vehicles : ScrapVehicle(s, d)
    BY <1>11 DEF ScrapStep
  <2>2. dvpToOwn[d] \in Tokens
    BY <2>1 DEF ScrapVehicle, TypeOK, OwnershipTypeOK, Tokens
  <2> QED
    BY <2>1, <2>2, TypeFrame, OwnershipType, DvpType, ChallanType, InsuranceType, PUCType
       DEF ScrapVehicle, TypeOK
<1>12. CASE TimeStep
  <2>1. (now \in Clock)'
    BY <1>12, Constants DEF TimeStep, Tick, TypeOK, Clock
  <2> QED
    BY <1>12, <2>1, TypeFrame DEF TimeStep, TypeOK, complianceVars
<1>13. CASE UNCHANGED vars
  BY <1>13, TypeFrame DEF vars, TypeOK
<1> QED
  BY <1>1, <1>2, <1>3, <1>4, <1>5, <1>6, <1>7, <1>8, <1>9, <1>10, <1>11, <1>12, <1>13 DEF Next

(* Every reachable state of the six contracts is well typed: every counter, *)
(* pointer and record stays in its range whatever is called in what order.  *)
THEOREM TypeCorrect == Spec => []TypeOK
<1> QED
  BY InitType, NextType, PTL DEF Spec

-----------------------------------------------------------------------------
(* THE INDUCTIVE INVARIANT.  TitleInv speaks of titles, transfers and loans *)
(* only; a transaction that writes none of them keeps it.                   *)
titleVars == <<tokenCtr, own, dvpToOwn, nft, xfer, hasXfer, passport, loanCtr, loan, dvpToLoan>>

(* With no passport, token or loan, the title invariant holds trivially.    *)
LEMMA InitTitleInv == Init => TitleInv
<1> SUFFICES ASSUME Init PROVE TitleInv
  OBVIOUS
<1> USE Constants DEF Init, OwnershipInit, DvpInit, LoanInit
<1>1. PointersSound
  BY DEF PointersSound, IsRegistered, NoLoan, Tokens
<1>2. FlagsSound
  BY DEF FlagsSound, NoXfer, NoLoan
<1>3. TitleConsistent
  BY DEF TitleConsistent
<1>4. TransferCurrent
  BY DEF TransferCurrent, NoXfer
<1>5. LoanFollowsTitle /\ NoHiddenLoan
  BY DEF LoanFollowsTitle, HasActiveLoan, NoHiddenLoan, NoLoan
<1> QED
  BY <1>1, <1>2, <1>3, <1>4, <1>5 DEF TitleInv

(* The title invariant reads only the storage that titleVars names.         *)
LEMMA TitleFrame == TitleInv /\ UNCHANGED titleVars => TitleInv'
BY DEF titleVars, TitleInv, PointersSound, FlagsSound, TitleConsistent, TransferCurrent,
       LoanFollowsTitle, NoHiddenLoan, IsRegistered, CurrentOwner, HasActiveLoan

(* The title a vehicle's pointer names is that vehicle's, and exists.       *)
LEMMA TitleOf ==
    ASSUME IInv, NEW d \in Vehicles, IsRegistered(d)
    PROVE  /\ dvpToOwn[d] \in Tokens /\ dvpToOwn[d] \in 1 .. tokenCtr
           /\ own[dvpToOwn[d]].dvp = d
           /\ CurrentOwner(d) = own[dvpToOwn[d]].owner
BY DEF IInv, TypeOK, OwnershipTypeOK, TitleInv, PointersSound, IsRegistered, CurrentOwner, Tokens

(* An active title is below the counter, is its vehicle's, and the vehicle  *)
(* is ACTIVE.                                                               *)
LEMMA ActiveTitle ==
    ASSUME IInv, NEW t \in Tokens, own[t].active
    PROVE  /\ t \in 1 .. tokenCtr
           /\ own[t].dvp \in Vehicles /\ dvpToOwn[own[t].dvp] = t
           /\ nft[t] = own[t].owner /\ passport[own[t].dvp].status = "ACTIVE"
<1>1. t \in 1 .. tokenCtr
  BY DEF IInv, TypeOK, OwnershipTypeOK, TitleInv, PointersSound, NoOwn, Tokens
<1> QED
  BY <1>1 DEF IInv, TitleInv, TitleConsistent

(* A live ownership record belongs to a token that was minted.              *)
LEMMA TitlesMinted ==
    ASSUME IInv
    PROVE  tokenCtr \in Nat /\ MaxTokens \in Nat /\ \A t \in 1 .. tokenCtr : t \in Tokens
BY Constants DEF IInv, TypeOK, OwnershipTypeOK, Tokens

(* A transfer request deleted with its flag leaves the rest as it was.      *)
LEMMA DeleteXferInv ==
    ASSUME IInv, NEW t \in Tokens, DeleteXfer(t), UNCHANGED own
    PROVE  /\ TransferCurrent'
           /\ \A s \in Tokens : xfer'[s].sellerOK \/ xfer'[s].hasPendingLoan => xfer'[s].exists
           /\ ~xfer'[t].exists
BY DEF IInv, TypeOK, OwnershipTypeOK, TitleInv, TransferCurrent, FlagsSound, DeleteXfer, NoXfer

(* Transactions of the passport contract preserve the title invariant.      *)
LEMMA DvpStepInv == IInv /\ DvpStep => TitleInv'
<1> SUFFICES ASSUME IInv, DvpStep PROVE TitleInv'
  OBVIOUS
<1>1. CASE \E d \in Vehicles, m \in Mfgs : Manufacture(m, d)
  <2>1. PICK d \in Vehicles, m \in Mfgs : Manufacture(m, d)
    BY <1>1
  <2>2. UNCHANGED <<ownershipVars, loanVars>>
    BY DEF DvpStep
  <2>3. \A e \in Vehicles : passport[e].status # "NONE" => passport'[e] = passport[e]
    BY <2>1 DEF Manufacture, DvpExists, IInv, TypeOK, DvpTypeOK
  <2>4. TitleConsistent'
    BY <2>2, <2>3 DEF IInv, TitleInv, TitleConsistent, ownershipVars
  <2>5. PointersSound' /\ FlagsSound' /\ TransferCurrent' /\ LoanFollowsTitle' /\ NoHiddenLoan'
    BY <2>2 DEF IInv, TitleInv, ownershipVars, loanVars, PointersSound, FlagsSound,
       TransferCurrent, LoanFollowsTitle, NoHiddenLoan, IsRegistered, CurrentOwner, HasActiveLoan
  <2> QED
    BY <2>4, <2>5 DEF TitleInv
<1>2. CASE \E d \in Vehicles : \/ \E m \in Mfgs, dl \in Dealers : AssignToDealer(m, d, dl)
                               \/ \E u \in Users, s \in ScrapCentres : AuthorizeScrap(u, d, s)
  BY <1>2, TitleFrame
     DEF DvpStep, AssignToDealer, AuthorizeScrap, IInv, titleVars, ownershipVars, loanVars
<1> QED
  BY <1>1, <1>2 DEF DvpStep

(* Steps that change only the transfer requests keep all but what TitleInv  *)
(* says of them.                                                            *)
LEMMA XferOnlyFrame ==
    ASSUME IInv, UNCHANGED <<tokenCtr, own, dvpToOwn, nft, passport, loanCtr, loan, dvpToLoan>>,
           TransferCurrent',
           \A t \in Tokens : xfer'[t].sellerOK \/ xfer'[t].hasPendingLoan => xfer'[t].exists
    PROVE  TitleInv'
<1>1. PointersSound' /\ FlagsSound' /\ TitleConsistent'
  BY DEF IInv, TitleInv, PointersSound, FlagsSound, TitleConsistent, IsRegistered
<1>2. LoanFollowsTitle' /\ NoHiddenLoan'
  BY DEF IInv, TitleInv, LoanFollowsTitle, NoHiddenLoan, IsRegistered, CurrentOwner, HasActiveLoan
<1> QED
  BY <1>1, <1>2 DEF TitleInv

(* Offering, signing or withdrawing a transfer preserves it.                *)
LEMMA TransferStepInv == IInv /\ TransferStep => TitleInv'
<1> SUFFICES ASSUME IInv, TransferStep PROVE TitleInv'
  OBVIOUS
<1>0. UNCHANGED <<tokenCtr, own, dvpToOwn, nft, passport, loanCtr, loan, dvpToLoan>>
  BY DEF TransferStep, InitTransfer, AcceptTransfer, CancelTransfer, dvpVars, loanVars
<1>1. ASSUME NEW t \in Tokens, NEW u \in Users, NEW b \in Users, InitTransfer(u, t, b)
      PROVE  TitleInv'
  <2>1. own[t].active /\ own[t].owner = u /\ b # u
    BY <1>1, ActiveTitle DEF InitTransfer, MayOffer
  <2>2. /\ \A s \in Tokens \ {t} : xfer'[s] = xfer[s] /\ hasXfer'[s] = hasXfer[s]
        /\ xfer'[t].exists /\ xfer'[t].seller = u /\ xfer'[t].buyer = b
        /\ hasXfer'[t]
    BY <1>1 DEF InitTransfer, IInv, TypeOK, OwnershipTypeOK
  <2>3. TransferCurrent'
    BY <1>0, <2>1, <2>2 DEF IInv, TitleInv, TransferCurrent
  <2>4. \A s \in Tokens : xfer'[s].sellerOK \/ xfer'[s].hasPendingLoan => xfer'[s].exists
    BY <2>2 DEF IInv, TitleInv, FlagsSound
  <2> QED
    BY <1>0, <2>3, <2>4, XferOnlyFrame
<1>2. ASSUME NEW t \in Tokens, NEW b \in Users, AcceptTransfer(b, t) PROVE TitleInv'
  <2>1. /\ hasXfer' = hasXfer
        /\ \A s \in Tokens : /\ xfer'[s].exists = xfer[s].exists
                             /\ xfer'[s].seller = xfer[s].seller
                             /\ xfer'[s].buyer = xfer[s].buyer
                             /\ xfer'[s].sellerOK = xfer[s].sellerOK
                             /\ xfer'[s].hasPendingLoan = xfer[s].hasPendingLoan
    BY <1>2 DEF AcceptTransfer, IInv, TypeOK, OwnershipTypeOK, XferRecord
  <2> QED
    BY <1>0, <2>1, XferOnlyFrame DEF IInv, TitleInv, TransferCurrent, FlagsSound
<1>3. ASSUME NEW t \in Tokens, NEW c, CancelTransfer(c, t) PROVE TitleInv'
  <2>1. DeleteXfer(t)
    BY <1>3 DEF CancelTransfer
  <2> QED
    BY <1>0, <2>1, DeleteXferInv, XferOnlyFrame
<1> QED
  BY <1>1, <1>2, <1>3 DEF TransferStep

(* A loan is created for a vehicle that has none in force, or in place of   *)
(* the one it has: the new loan is the vehicle's only one, and no other     *)
(* vehicle gains or changes a loan.                                         *)
LEMMA CreateLoanInv ==
    ASSUME IInv, NEW d \in Vehicles, NEW u \in Owners, NEW b, NEW closed,
           CreateLoan(d, u, b, closed),
           LoanExists(d) => closed = dvpToLoan[d]
    PROVE  /\ NoHiddenLoan'
           /\ \A e \in Vehicles : dvpToLoan'[e] <= loanCtr'
           /\ \A l \in LoanIds : loan'[l].active => loan'[l].dvp \in Vehicles
           /\ \A l \in LoanIds : loan'[l].nocIssued => ~loan'[l].active
           /\ HasActiveLoan(d)'
           /\ loan'[dvpToLoan'[d]].borrower = u /\ loan'[dvpToLoan'[d]].bankId = b
           /\ \A e \in Vehicles \ {d} : HasActiveLoan(e)' =>
                 HasActiveLoan(e) /\ loan'[dvpToLoan'[e]].borrower = loan[dvpToLoan[e]].borrower
<1> DEFINE n == loanCtr'
<1>0. /\ loanCtr \in 0 .. MaxLoans /\ dvpToLoan \in [Vehicles -> 0 .. MaxLoans]
      /\ loan \in [LoanIds -> LoanRecord] /\ MaxLoans \in Nat
  BY Constants DEF IInv, TypeOK, LoanTypeOK
<1>1. n \in LoanIds /\ n = loanCtr + 1
  BY <1>0 DEF CreateLoan, LoanIds
<1>2. /\ dvpToLoan'[d] = n
      /\ loan'[n] = [dvp |-> d, bankId |-> b, borrower |-> u,
                     active |-> TRUE, nocIssued |-> FALSE]
      /\ \A e \in Vehicles \ {d} : dvpToLoan'[e] = dvpToLoan[e]
  BY <1>0, <1>1 DEF CreateLoan
<1>3. \A l \in LoanIds \ {n} :
        /\ loan'[l].active => loan[l].active /\ l # closed
        /\ loan'[l].dvp = loan[l].dvp /\ loan'[l].borrower = loan[l].borrower
        /\ loan'[l].nocIssued = loan[l].nocIssued
  BY <1>0 DEF CreateLoan, LoanRecord
<1>4. \A e \in Vehicles : dvpToLoan[e] <= loanCtr
  BY DEF IInv, TitleInv, PointersSound
<1>5. NoHiddenLoan'
  <2>1. ASSUME NEW l \in LoanIds, loan'[l].active
        PROVE  l <= n /\ dvpToLoan'[loan'[l].dvp] = l
    <3>1. CASE l = n
      BY <1>1, <1>2, <3>1 DEF LoanIds
    <3>2. CASE l # n
      <4>1. loan[l].active /\ l # closed /\ loan[l].dvp \in Vehicles
            /\ dvpToLoan[loan[l].dvp] = l /\ l <= loanCtr
        BY <1>3, <2>1, <3>2 DEF IInv, TitleInv, NoHiddenLoan, PointersSound
      <4>2. loan[l].dvp # d
        BY <4>1 DEF LoanExists, LoanIds
      <4> QED
        BY <1>0, <1>1, <1>2, <1>3, <3>2, <4>1, <4>2 DEF LoanIds
    <3> QED
      BY <3>1, <3>2
  <2> QED
    BY <2>1 DEF NoHiddenLoan
<1>6. \A e \in Vehicles : dvpToLoan'[e] <= loanCtr'
  BY <1>0, <1>1, <1>2, <1>4
<1>7. \A l \in LoanIds : (loan'[l].active => loan'[l].dvp \in Vehicles)
                         /\ (loan'[l].nocIssued => ~loan'[l].active)
  BY <1>2, <1>3 DEF IInv, TitleInv, PointersSound, FlagsSound
<1>8. ASSUME NEW e \in Vehicles \ {d}, HasActiveLoan(e)'
      PROVE  HasActiveLoan(e) /\ loan'[dvpToLoan'[e]].borrower = loan[dvpToLoan[e]].borrower
  <2>1. dvpToLoan[e] \in LoanIds \ {n} /\ dvpToLoan'[e] = dvpToLoan[e]
    BY <1>0, <1>1, <1>2, <1>4, <1>8 DEF HasActiveLoan, LoanIds
  <2> QED
    BY <1>3, <1>8, <2>1 DEF HasActiveLoan
<1>9. /\ HasActiveLoan(d)'
      /\ loan'[dvpToLoan'[d]].borrower = u /\ loan'[dvpToLoan'[d]].bankId = b
  BY <1>1, <1>2 DEF HasActiveLoan, LoanIds
<1> QED
  BY <1>5, <1>6, <1>7, <1>8, <1>9

(* Steps of LoanContract that leave OwnershipToken and the passports alone: *)
(* all that remains is that the vehicle's loan follows its title.           *)
LEMMA LendingInv ==
    ASSUME IInv, UNCHANGED <<ownershipVars, passport>>,
           NEW d \in Vehicles, NEW u \in Owners, NEW b, NEW closed,
           CreateLoan(d, u, b, closed),
           LoanExists(d) => closed = dvpToLoan[d],
           IsRegistered(d) => CurrentOwner(d) = u /\ own[dvpToOwn[d]].active
    PROVE  TitleInv'
<1>1. PointersSound' /\ FlagsSound' /\ NoHiddenLoan'
  BY CreateLoanInv DEF IInv, TitleInv, PointersSound, FlagsSound, IsRegistered, ownershipVars
<1>2. TitleConsistent' /\ TransferCurrent'
  BY DEF IInv, TitleInv, TitleConsistent, TransferCurrent, ownershipVars
<1>3. LoanFollowsTitle'
  <2>1. ASSUME NEW e \in Vehicles, HasActiveLoan(e)', IsRegistered(e)'
        PROVE  (loan[dvpToLoan[e]].borrower = CurrentOwner(e) /\ own[dvpToOwn[e]].active)'
    <3>1. IsRegistered(e) /\ CurrentOwner(e)' = CurrentOwner(e)
          /\ own'[dvpToOwn'[e]] = own[dvpToOwn[e]]
      BY <2>1 DEF IsRegistered, CurrentOwner, ownershipVars
    <3>2. CASE e = d
      <4>1. loan'[dvpToLoan'[d]].borrower = u
        BY CreateLoanInv
      <4> QED
        BY <3>1, <3>2, <4>1
    <3>3. CASE e # d
      BY <2>1, <3>1, <3>3, CreateLoanInv DEF IInv, TitleInv, LoanFollowsTitle
    <3> QED
      BY <3>2, <3>3
  <2> QED
    BY <2>1 DEF LoanFollowsTitle
<1> QED
  BY <1>1, <1>2, <1>3 DEF TitleInv

(* Transactions of the loan contract preserve it.                           *)
LEMMA LoanStepInv == IInv /\ LoanStep => TitleInv'
<1> SUFFICES ASSUME IInv, LoanStep PROVE TitleInv'
  OBVIOUS
<1>0. UNCHANGED passport
  BY DEF LoanStep, dvpVars
<1>1. ASSUME NEW w \in BankWallets, NEW d \in Vehicles, NEW u \in Users,
             RegisterNewCarLoan(w, d, u)
      PROVE  TitleInv'
  BY <1>0, <1>1, LendingInv DEF RegisterNewCarLoan, Owners
<1>2. ASSUME NEW w \in BankWallets, NEW d \in Vehicles, NEW u \in Users,
             RegisterTitleLoan(w, d, u)
      PROVE  TitleInv'
  <2>1. own[dvpToOwn[d]].active
    BY <1>2, TitleOf DEF RegisterTitleLoan, MayLend, IInv, TitleInv, TitleConsistent
  <2> QED
    BY <1>0, <1>2, <2>1, LendingInv DEF RegisterTitleLoan, Owners
<1>3. ASSUME NEW w \in BankWallets, NEW d \in Vehicles,
             \/ \E u \in Users : RegisterUsedCarLoan(w, d, u)
             \/ CancelPendingLoan(w, d)
      PROVE  TitleInv'
  <2> DEFINE t == dvpToOwn[d]
  <2>1. UNCHANGED <<tokenCtr, own, dvpToOwn, nft, hasXfer, passport, loanCtr, loan, dvpToLoan>>
    BY <1>0, <1>3 DEF RegisterUsedCarLoan, CancelPendingLoan, AttachPendingLoan,
       DetachPendingLoan, loanVars
  <2>2. t \in Tokens /\ xfer[t].exists
    BY <1>3 DEF RegisterUsedCarLoan, CancelPendingLoan, AttachPendingLoan, DetachPendingLoan,
       IInv, TypeOK, OwnershipTypeOK, Tokens
  <2>3. \A s \in Tokens : /\ xfer'[s].exists = xfer[s].exists
                          /\ xfer'[s].seller = xfer[s].seller
                          /\ xfer'[s].buyer = xfer[s].buyer
                          /\ xfer'[s].sellerOK = xfer[s].sellerOK
                          /\ s # t => xfer'[s] = xfer[s]
    BY <1>3, <2>2 DEF RegisterUsedCarLoan, CancelPendingLoan, AttachPendingLoan,
       DetachPendingLoan, IInv, TypeOK, OwnershipTypeOK, XferRecord
  <2> QED
    BY <2>1, <2>2, <2>3, XferOnlyFrame DEF IInv, TitleInv, TransferCurrent, FlagsSound
<1>4. ASSUME NEW w \in BankWallets, NEW d \in Vehicles, RefinanceLoan(w, d) PROVE TitleInv'
  <2> DEFINE u == loan[dvpToLoan[d]].borrower
  <2>1. dvpToLoan[d] \in LoanIds
    BY <1>4 DEF RefinanceLoan, LoanExists, IInv, TypeOK, LoanTypeOK, LoanIds
  <2>2. HasActiveLoan(d)
    BY <1>4, <2>1 DEF RefinanceLoan, LoanExists, HasActiveLoan, IInv, TitleInv, FlagsSound
  <2>3. u \in Owners /\ (IsRegistered(d) => CurrentOwner(d) = u /\ own[dvpToOwn[d]].active)
    BY <2>1, <2>2 DEF IInv, TypeOK, LoanTypeOK, LoanRecord, TitleInv, LoanFollowsTitle
  <2>4. CreateLoan(d, u, addrToBank[w], dvpToLoan[d]) /\ UNCHANGED ownershipVars
    BY <1>4 DEF RefinanceLoan
  <2> QED
    BY <1>0, <2>3, <2>4, LendingInv
<1>5. ASSUME NEW w \in BankWallets, NEW d \in Vehicles, IssueNOC(w, d) PROVE TitleInv'
  <2>1. UNCHANGED <<tokenCtr, own, dvpToOwn, nft, xfer, hasXfer, passport, loanCtr, dvpToLoan>>
    BY <1>0, <1>5 DEF IssueNOC, ownershipVars
  <2>2. \A l \in LoanIds :
          /\ loan'[l].active => loan[l].active
          /\ loan'[l].dvp = loan[l].dvp /\ loan'[l].borrower = loan[l].borrower
          /\ loan'[l].nocIssued => loan[l].nocIssued \/ ~loan'[l].active
          /\ loan[l].nocIssued => loan'[l].nocIssued
    BY <1>5 DEF IssueNOC, LoanExists, IInv, TypeOK, LoanTypeOK, LoanRecord, LoanIds
  <2>3. PointersSound' /\ FlagsSound' /\ NoHiddenLoan'
    BY <2>1, <2>2 DEF IInv, TitleInv, PointersSound, FlagsSound, NoHiddenLoan, IsRegistered
  <2>4. TitleConsistent' /\ TransferCurrent'
    BY <2>1 DEF IInv, TitleInv, TitleConsistent, TransferCurrent
  <2>5. LoanFollowsTitle'
    <3>1. ASSUME NEW e \in Vehicles, HasActiveLoan(e)'
          PROVE  HasActiveLoan(e) /\ loan'[dvpToLoan'[e]].borrower = loan[dvpToLoan[e]].borrower
      <4>1. dvpToLoan[e] \in LoanIds
        BY <2>1, <3>1 DEF HasActiveLoan, IInv, TypeOK, LoanTypeOK, LoanIds
      <4> QED
        BY <2>1, <2>2, <3>1, <4>1 DEF HasActiveLoan
    <3> QED
      BY <2>1, <3>1 DEF IInv, TitleInv, LoanFollowsTitle, IsRegistered, CurrentOwner
  <2> QED
    BY <2>3, <2>4, <2>5 DEF TitleInv
<1> QED
  BY <1>1, <1>2, <1>3, <1>4, <1>5 DEF LoanStep

(* Registering a vehicle, across three contracts, preserves it.             *)
LEMMA RegisterInv == IInv /\ RegisterStep => TitleInv'
<1> SUFFICES ASSUME IInv, NEW r \in RTOs, NEW d \in Vehicles, NEW u \in Users, NEW dl \in Dealers,
                    Register(r, d, u, dl)
             PROVE  TitleInv'
  BY DEF RegisterStep
<1> DEFINE n == tokenCtr'
<1>0. /\ tokenCtr \in 0 .. MaxTokens /\ MaxTokens \in Nat /\ dvpToOwn \in [Vehicles -> 0 .. MaxTokens]
      /\ own \in [Tokens -> OwnRecord] /\ nft \in [Tokens -> Owners]
      /\ passport \in [Vehicles -> [status : PassportStatus, mfg : Mfgs \cup {Nobody}]]
  BY Constants DEF IInv, TypeOK, OwnershipTypeOK, DvpTypeOK
<1>1. n \in Tokens /\ n = tokenCtr + 1
  BY <1>0 DEF Register, MintTitle, Tokens
<1>2. /\ dvpToOwn'[d] = n /\ nft'[n] = u
      /\ own'[n] = [dvp |-> d, owner |-> u, active |-> TRUE, xferCnt |-> 0]
      /\ \A t \in Tokens \ {n} : own'[t] = own[t] /\ nft'[t] = nft[t]
      /\ \A e \in Vehicles \ {d} : dvpToOwn'[e] = dvpToOwn[e] /\ passport'[e] = passport[e]
      /\ passport'[d].status = "ACTIVE"
      /\ UNCHANGED <<xfer, hasXfer, loanCtr, loan, dvpToLoan>>
  BY <1>0, <1>1 DEF Register, MintTitle, ActivateVehicle, loanVars
<1>3. ~IsRegistered(d)
  BY DEF Register, MayRegister
<1>4. \A t \in 1 .. tokenCtr : t \in Tokens \ {n} /\ own[t].dvp \in Vehicles \ {d}
                               /\ dvpToOwn[own[t].dvp] = t
  BY <1>0, <1>1, <1>3 DEF IInv, TitleInv, TitleConsistent, IsRegistered, Tokens
<1>5. PointersSound'
  <2>1. \A t \in Tokens : t > n => own'[t] = NoOwn
    BY <1>0, <1>1, <1>2 DEF IInv, TitleInv, PointersSound, Tokens
  <2>2. \A e \in Vehicles : IsRegistered(e)' => dvpToOwn'[e] <= n /\ own'[dvpToOwn'[e]].dvp = e
    BY <1>0, <1>1, <1>2 DEF IInv, TitleInv, PointersSound, IsRegistered, Tokens
  <2> QED
    BY <1>2, <2>1, <2>2 DEF IInv, TitleInv, PointersSound
<1>6. FlagsSound' /\ NoHiddenLoan'
  BY <1>2 DEF IInv, TitleInv, FlagsSound, NoHiddenLoan
<1>7. TitleConsistent'
  <2>1. \A t \in 1 .. n : t = n \/ t \in 1 .. tokenCtr
    BY <1>0, <1>1
  <2> QED
    BY <1>2, <1>4, <2>1 DEF IInv, TitleInv, TitleConsistent
<1>8. TransferCurrent'
  <2>1. own[n] = NoOwn
    BY <1>0, <1>1 DEF IInv, TitleInv, PointersSound, Tokens
  <2>2. ~xfer[n].exists
    BY <1>1, <2>1 DEF IInv, TitleInv, TransferCurrent, NoOwn
  <2> QED
    BY <1>2, <2>2 DEF IInv, TitleInv, TransferCurrent
<1>9. LoanFollowsTitle'
  <2>1. ASSUME NEW e \in Vehicles, HasActiveLoan(e)', IsRegistered(e)'
        PROVE  (loan[dvpToLoan[e]].borrower = CurrentOwner(e) /\ own[dvpToOwn[e]].active)'
    <3>1. CASE e = d
      <4>1. loan[dvpToLoan[d]].borrower = u
        BY <1>2, <2>1, <3>1 DEF Register, BorrowerMatches, HasActiveLoan
      <4> QED
        BY <1>0, <1>1, <1>2, <3>1, <4>1 DEF CurrentOwner, IsRegistered
    <3>2. CASE e # d
      <4>1. IsRegistered(e) /\ HasActiveLoan(e)
        BY <1>2, <2>1, <3>2 DEF IsRegistered, HasActiveLoan
      <4>2. dvpToOwn[e] \in Tokens \ {n}
        BY <1>0, <1>1, <4>1, TitleOf
      <4> QED
        BY <1>2, <3>2, <4>1, <4>2
           DEF IInv, TitleInv, LoanFollowsTitle, CurrentOwner, IsRegistered
    <3> QED
      BY <3>1, <3>2
  <2> QED
    BY <2>1 DEF LoanFollowsTitle
<1> QED
  BY <1>5, <1>6, <1>7, <1>8, <1>9 DEF TitleInv

(* An RTO's approval of a transfer, with its pending loan, preserves it.    *)
LEMMA ApproveInv == IInv /\ ApproveStep => TitleInv'
<1> SUFFICES ASSUME IInv, NEW r \in RTOs, NEW t \in Tokens, ApproveTransfer(r, t)
             PROVE  TitleInv'
  BY DEF ApproveStep
<1>d. PICK d, b : d = own[t].dvp /\ b = xfer[t].buyer
  OBVIOUS
<1>0. /\ own \in [Tokens -> OwnRecord] /\ nft \in [Tokens -> Owners]
      /\ xfer \in [Tokens -> XferRecord]
  BY DEF IInv, TypeOK, OwnershipTypeOK
<1>1. xfer[t].exists /\ own[t].active /\ b \in Users
  BY <1>d DEF ApproveTransfer, MayApprove, IInv, TitleInv, FlagsSound, TransferCurrent
<1>2. t \in 1 .. tokenCtr /\ d \in Vehicles /\ dvpToOwn[d] = t /\ IsRegistered(d)
  BY <1>d, <1>1, ActiveTitle DEF IsRegistered, Tokens
<1>3. /\ DeleteXfer(t) /\ UNCHANGED <<tokenCtr, dvpToOwn, passport>>
      /\ own'[t].dvp = d /\ own'[t].owner = b /\ own'[t].active = own[t].active
      /\ nft'[t] = b
      /\ \A s \in Tokens \ {t} : own'[s] = own[s] /\ nft'[s] = nft[s]
  BY <1>d, <1>0 DEF ApproveTransfer, MoveTitle, dvpVars, OwnRecord
<1>4. /\ \A s \in Tokens \ {t} : xfer'[s] = xfer[s] /\ hasXfer'[s] = hasXfer[s]
      /\ xfer'[t] = NoXfer /\ ~hasXfer'[t]
  BY <1>3 DEF DeleteXfer, IInv, TypeOK, OwnershipTypeOK
<1>5. ~HasActiveLoan(d)
  BY <1>d DEF ApproveTransfer, TransferCompliant, IsLoanCleared, HasActiveLoan
<1>6. /\ NoHiddenLoan'
      /\ \A e \in Vehicles : dvpToLoan'[e] <= loanCtr'
      /\ \A l \in LoanIds : loan'[l].active => loan'[l].dvp \in Vehicles
      /\ \A l \in LoanIds : loan'[l].nocIssued => ~loan'[l].active
      /\ HasActiveLoan(d)' => loan'[dvpToLoan'[d]].borrower = b
      /\ \A e \in Vehicles \ {d} : HasActiveLoan(e)' =>
            HasActiveLoan(e) /\ loan'[dvpToLoan'[e]].borrower = loan[dvpToLoan[e]].borrower
  <2>1. CASE ~xfer[t].hasPendingLoan
    <3>1. UNCHANGED <<loanCtr, loan, dvpToLoan>>
      BY <2>1 DEF ApproveTransfer, loanVars
    <3>2. \A e : HasActiveLoan(e)' <=> HasActiveLoan(e)
      BY <3>1 DEF HasActiveLoan
    <3>3. NoHiddenLoan'
      BY <3>1 DEF IInv, TitleInv, NoHiddenLoan
    <3>4. /\ \A e \in Vehicles : dvpToLoan'[e] <= loanCtr'
          /\ \A l \in LoanIds : loan'[l].active => loan'[l].dvp \in Vehicles
          /\ \A l \in LoanIds : loan'[l].nocIssued => ~loan'[l].active
      BY <3>1 DEF IInv, TitleInv, PointersSound, FlagsSound
    <3> QED
      BY <1>5, <3>1, <3>2, <3>3, <3>4
  <2>2. CASE xfer[t].hasPendingLoan
    <3>1. CreateLoan(d, b, xfer[t].bankId, 0) /\ ~LoanExists(d) /\ b \in Owners
      BY <1>d, <1>1, <2>2 DEF ApproveTransfer, SystemActivatePendingLoan, Owners
    <3> QED
      BY <1>2, <3>1, CreateLoanInv
  <2> QED
    BY <2>1, <2>2
<1>7. PointersSound'
  <2>1. \A s \in Tokens : s > tokenCtr => own'[s] = NoOwn
    <3>1. \A s \in Tokens : s > tokenCtr => s # t
      BY <1>2, TitlesMinted DEF Tokens
    <3> QED
      BY <1>3, <3>1 DEF IInv, TitleInv, PointersSound
  <2>2. \A s \in Tokens : own'[s].dvp = own[s].dvp
    BY <1>d, <1>3
  <2>3. \A e \in Vehicles : IsRegistered(e)' =>
            dvpToOwn'[e] <= tokenCtr' /\ own'[dvpToOwn'[e]].dvp = e
    BY <1>3, <2>2, TitleOf DEF IInv, TitleInv, PointersSound, IsRegistered
  <2> QED
    BY <1>3, <1>6, <2>1, <2>3 DEF PointersSound
<1>8. FlagsSound' /\ TransferCurrent'
  <2>1. \A s \in Tokens : xfer'[s].exists => xfer[s].exists /\ s # t
    BY <1>4 DEF NoXfer
  <2>2. FlagsSound'
    BY <1>4, <1>6 DEF FlagsSound, IInv, TitleInv, NoXfer
  <2>3. TransferCurrent'
    BY <1>3, <1>4, <2>1 DEF TransferCurrent, IInv, TitleInv, NoXfer
  <2> QED
    BY <2>2, <2>3
<1>9. TitleConsistent'
  <2>1. ASSUME NEW s \in 1 .. tokenCtr, s # t
        PROVE  s \in Tokens \ {t} /\ passport'[own'[s].dvp] = passport[own[s].dvp]
               /\ own'[s] = own[s] /\ nft'[s] = nft[s]
    BY <1>3, <2>1, TitlesMinted
  <2>2. passport'[own'[t].dvp].status = "ACTIVE" /\ own'[t].active
    BY <1>d, <1>1, <1>3, ActiveTitle
  <2> QED
    BY <1>2, <1>3, <2>1, <2>2 DEF TitleConsistent, IInv, TitleInv
<1>10. LoanFollowsTitle'
  <2>1. ASSUME NEW e \in Vehicles, HasActiveLoan(e)', IsRegistered(e)'
        PROVE  (loan[dvpToLoan[e]].borrower = CurrentOwner(e) /\ own[dvpToOwn[e]].active)'
    <3>1. IsRegistered(e) /\ CurrentOwner(e)' = own'[dvpToOwn[e]].owner /\ dvpToOwn'[e] = dvpToOwn[e]
      BY <1>3, <2>1 DEF IsRegistered, CurrentOwner
    <3>2. CASE e = d
      BY <1>1, <1>2, <1>3, <1>6, <2>1, <3>1, <3>2
    <3>3. CASE e # d
      <4>1. dvpToOwn[e] \in Tokens \ {t}
        BY <1>d, <3>1, <3>3, TitleOf
      <4> QED
        BY <1>3, <1>6, <2>1, <3>1, <3>3, <4>1, TitleOf DEF IInv, TitleInv, LoanFollowsTitle
    <3> QED
      BY <3>2, <3>3
  <2> QED
    BY <2>1 DEF LoanFollowsTitle
<1> QED
  BY <1>6, <1>7, <1>8, <1>9, <1>10 DEF TitleInv

(* Scrapping a vehicle, across every contract, preserves it.                *)
LEMMA ScrapInv == IInv /\ ScrapStep => TitleInv'
<1> SUFFICES ASSUME IInv, NEW s \in ScrapCentres, NEW d \in Vehicles, ScrapVehicle(s, d)
             PROVE  TitleInv'
  BY DEF ScrapStep
<1> DEFINE t == dvpToOwn[d]
<1>0. /\ own \in [Tokens -> OwnRecord] /\ nft \in [Tokens -> Owners]
      /\ xfer \in [Tokens -> XferRecord] /\ hasXfer \in [Tokens -> BOOLEAN]
      /\ passport \in [Vehicles -> [status : PassportStatus, mfg : Mfgs \cup {Nobody}]]
  BY DEF IInv, TypeOK, OwnershipTypeOK, DvpTypeOK
<1>1. IsRegistered(d) /\ t \in Tokens /\ t \in 1 .. tokenCtr /\ own[t].dvp = d
  BY TitleOf DEF ScrapVehicle, IsRegistered
<1>2. ~hasXfer[t] /\ ~xfer[t].exists
  BY <1>1 DEF ScrapVehicle, ScrapCompliant, IInv, TitleInv, TransferCurrent
<1>3. /\ own'[t].dvp = d /\ own'[t].owner = own[t].owner /\ ~own'[t].active /\ nft'[t] = Nobody
      /\ \A x \in Tokens \ {t} : own'[x] = own[x] /\ nft'[x] = nft[x]
      /\ passport'[d].status = "SCRAPPED"
      /\ \A e \in Vehicles \ {d} : passport'[e] = passport[e]
      /\ UNCHANGED <<tokenCtr, dvpToOwn, xfer, hasXfer, loanCtr, loan, dvpToLoan>>
  BY <1>0, <1>1, <1>2 DEF ScrapVehicle, DeactivateVehicle, MarkScrapped, OwnRecord, loanVars
<1>4. ~HasActiveLoan(d)
  BY DEF ScrapVehicle, ScrapCompliant, IsLoanCleared, HasActiveLoan
<1>5. PointersSound'
  <2>1. \A x \in Tokens : own'[x].dvp = own[x].dvp /\ (x > tokenCtr => own'[x] = own[x])
    BY <1>1, <1>3, TitlesMinted
  <2>2. \A e \in Vehicles : IsRegistered(e)' =>
            dvpToOwn'[e] <= tokenCtr' /\ own'[dvpToOwn'[e]].dvp = e
    BY <1>3, <2>1, TitleOf DEF IInv, TitleInv, PointersSound, IsRegistered
  <2> QED
    BY <1>3, <2>1, <2>2 DEF IInv, TitleInv, PointersSound
<1>6. FlagsSound' /\ NoHiddenLoan'
  BY <1>3 DEF IInv, TitleInv, FlagsSound, NoHiddenLoan
<1>7. TitleConsistent'
  <2>1. ASSUME NEW x \in 1 .. tokenCtr, x # t
        PROVE  x \in Tokens \ {t} /\ own[x].dvp # d
    BY <2>1, <1>1 DEF IInv, TypeOK, OwnershipTypeOK, TitleInv, TitleConsistent, Tokens
  <2> QED
    BY <1>1, <1>3, <2>1 DEF IInv, TitleInv, TitleConsistent
<1>8. TransferCurrent'
  BY <1>2, <1>3 DEF IInv, TitleInv, TransferCurrent
<1>9. LoanFollowsTitle'
  <2>1. ASSUME NEW e \in Vehicles, HasActiveLoan(e)', IsRegistered(e)'
        PROVE  (loan[dvpToLoan[e]].borrower = CurrentOwner(e) /\ own[dvpToOwn[e]].active)'
    <3>1. HasActiveLoan(e) /\ IsRegistered(e) /\ e # d
      BY <1>3, <1>4, <2>1 DEF HasActiveLoan, IsRegistered
    <3>2. dvpToOwn[e] \in Tokens \ {t}
      BY <1>1, <3>1, TitleOf
    <3> QED
      BY <1>3, <3>1, <3>2 DEF IInv, TitleInv, LoanFollowsTitle, CurrentOwner, IsRegistered
  <2> QED
    BY <2>1 DEF LoanFollowsTitle
<1> QED
  BY <1>5, <1>6, <1>7, <1>8, <1>9 DEF TitleInv

(* The steps of the other contracts, of the administrators and of time.     *)
LEMMA OtherStepInv ==
    IInv /\ (\/ AdminStep \/ TradeCertStep \/ ChallanStep \/ InsuranceStep
             \/ PUCStep \/ TimeStep \/ UNCHANGED vars) => TitleInv'
<1> SUFFICES ASSUME IInv, \/ AdminStep \/ TradeCertStep \/ ChallanStep \/ InsuranceStep
                          \/ PUCStep \/ TimeStep \/ UNCHANGED vars
             PROVE  UNCHANGED titleVars
  BY TitleFrame DEF IInv
<1> USE DEF titleVars, ownershipVars, dvpVars, loanVars
<1>1. CASE AdminStep
  BY <1>1 DEF AdminStep, AdminRTO, AdminMfg, AdminScrapCentre, RegBank, ToggleBankStatus
<1>2. CASE TradeCertStep
  BY <1>2 DEF TradeCertStep, IssueTradeCert, RevokeTradeCert
<1>3. CASE ChallanStep \/ InsuranceStep \/ PUCStep \/ TimeStep \/ UNCHANGED vars
  BY <1>3 DEF ChallanStep, InsuranceStep, PUCStep, TimeStep, vars
<1> QED
  BY <1>1, <1>2, <1>3

(* The strengthened invariant is inductive.                                 *)
LEMMA NextInv == IInv /\ [Next]_vars => IInv'
BY NextType, DvpStepInv, TransferStepInv, LoanStepInv, RegisterInv, ApproveInv, ScrapInv,
   OtherStepInv DEF IInv, Next

(* The strengthened invariant holds of every reachable state.               *)
THEOREM Inductive == Spec => []IInv
<1>1. Init => IInv
  BY InitType, InitTitleInv DEF IInv
<1> QED
  BY <1>1, NextInv, PTL DEF Spec

-----------------------------------------------------------------------------
(* WHAT THE CONTRACTS GUARANTEE                                             *)

(* Whatever registerLoan, register, approveTransfer, refinanceLoan and      *)
(* issueNOC do in whatever order, the borrower of a registered vehicle's    *)
(* active loan is its current owner and its title is active.                *)
THEOREM LoanFollowsTitleAlways == Spec => []LoanFollowsTitle
<1>1. IInv => LoanFollowsTitle
  BY DEF IInv, TitleInv
<1> QED
  BY <1>1, Inductive, PTL

(* No loan stays active out of reach of dvpToLoan: the check of one loan    *)
(* that approveTransfer and scrapVehicle make is a check of all of them.    *)
THEOREM NoHiddenLoanAlways == Spec => []NoHiddenLoan
<1>1. IInv => NoHiddenLoan
  BY DEF IInv, TitleInv
<1> QED
  BY <1>1, Inductive, PTL

(* owns, the ERC-721 owner and the passport never disagree, across the      *)
(* transactions that write one or several of them.                          *)
THEOREM TitleConsistentAlways == Spec => []TitleConsistent
<1>1. IInv => TitleConsistent
  BY DEF IInv, TitleInv
<1> QED
  BY <1>1, Inductive, PTL

(* activeXfer and hasActiveXfer agree, and the request of a transfer is     *)
(* always its current owner's.                                              *)
THEOREM TransferCurrentAlways == Spec => []TransferCurrent
<1>1. IInv => TransferCurrent
  BY DEF IInv, TitleInv
<1> QED
  BY <1>1, Inductive, PTL

(* Most steps change neither the owner of a vehicle with a title nor a      *)
(* passport that is ACTIVE or SCRAPPED.                                     *)
LEMMA OwnerFrame ==
    ASSUME UNCHANGED <<own, dvpToOwn>>, NEW d \in Vehicles
    PROVE  CurrentOwner(d)' = CurrentOwner(d)
BY DEF CurrentOwner, IsRegistered

(* A step keeps the lien a loan gives its bank: see LienHolds.              *)
LEMMA LienNext == IInv /\ Next => LienStep
<1> SUFFICES ASSUME IInv, Next, NEW d \in Vehicles, HasActiveLoan(d), IsRegistered(d)
             PROVE  CurrentOwner(d)' = CurrentOwner(d) /\ passport'[d] = passport[d]
  BY DEF LienStep
<1> USE DEF ownershipVars, dvpVars
<1>0. passport[d].status \in {"ACTIVE", "SCRAPPED"}
  BY TitleOf DEF IInv, TitleInv, TitleConsistent
<1>1. CASE AdminStep \/ TradeCertStep \/ ChallanStep \/ InsuranceStep \/ PUCStep \/ TimeStep
  BY <1>1, OwnerFrame DEF AdminStep, AdminRTO, AdminMfg, AdminScrapCentre, TradeCertStep,
     IssueTradeCert, RevokeTradeCert, ChallanStep, InsuranceStep, PUCStep, TimeStep
<1>2. CASE DvpStep
  <2>1. UNCHANGED <<own, dvpToOwn>>
    BY <1>2 DEF DvpStep
  <2>2. passport'[d] = passport[d]
    BY <1>0, <1>2 DEF DvpStep, Manufacture, AssignToDealer, AuthorizeScrap, DvpExists, IInv,
       TypeOK, DvpTypeOK
  <2> QED
    BY <2>1, <2>2, OwnerFrame
<1>3. CASE TransferStep \/ LoanStep
  <2>1. UNCHANGED passport
    BY <1>3 DEF TransferStep, LoanStep
  <2>2. CASE TransferStep
    BY <2>1, <2>2, OwnerFrame DEF TransferStep, InitTransfer, AcceptTransfer, CancelTransfer
  <2>3. CASE LoanStep
    BY <2>1, <2>3, OwnerFrame DEF LoanStep, RegisterNewCarLoan, RegisterUsedCarLoan,
       RegisterTitleLoan, CancelPendingLoan, RefinanceLoan, IssueNOC, AttachPendingLoan,
       DetachPendingLoan
  <2> QED
    BY <1>3, <2>2, <2>3
<1>4. ASSUME NEW r \in RTOs, NEW e \in Vehicles, NEW u \in Users, NEW dl \in Dealers,
             Register(r, e, u, dl)
      PROVE  CurrentOwner(d)' = CurrentOwner(d) /\ passport'[d] = passport[d]
  <2>1. e # d
    BY <1>4 DEF Register, MayRegister
  <2>2. dvpToOwn'[d] = dvpToOwn[d] /\ passport'[d] = passport[d]
    BY <1>4, <2>1 DEF Register, MintTitle, ActivateVehicle, IInv, TypeOK, OwnershipTypeOK, DvpTypeOK
  <2>3. dvpToOwn[d] \in Tokens /\ dvpToOwn[d] # tokenCtr'
    BY <1>4, TitleOf, TitlesMinted DEF Register, MintTitle
  <2>4. own'[dvpToOwn[d]] = own[dvpToOwn[d]]
    BY <1>4, <2>3 DEF Register, MintTitle, IInv, TypeOK, OwnershipTypeOK
  <2> QED
    BY <2>2, <2>4 DEF CurrentOwner, IsRegistered
<1>5. ASSUME NEW r \in RTOs, NEW t \in Tokens, ApproveTransfer(r, t)
      PROVE  CurrentOwner(d)' = CurrentOwner(d) /\ passport'[d] = passport[d]
  <2>1. dvpToOwn[d] \in Tokens /\ dvpToOwn[d] # t
    BY <1>5, TitleOf DEF ApproveTransfer, TransferCompliant, IsLoanCleared, HasActiveLoan
  <2>2. own'[dvpToOwn[d]] = own[dvpToOwn[d]] /\ UNCHANGED <<dvpToOwn, passport>>
    BY <1>5, <2>1 DEF ApproveTransfer, MoveTitle, IInv, TypeOK, OwnershipTypeOK
  <2> QED
    BY <2>2 DEF CurrentOwner, IsRegistered
<1>6. ASSUME NEW s \in ScrapCentres, NEW e \in Vehicles, ScrapVehicle(s, e)
      PROVE  CurrentOwner(d)' = CurrentOwner(d) /\ passport'[d] = passport[d]
  <2>1. e # d
    BY <1>6 DEF ScrapVehicle, ScrapCompliant, IsLoanCleared, HasActiveLoan
  <2>2. IsRegistered(e) /\ dvpToOwn[d] # dvpToOwn[e] /\ dvpToOwn[d] \in Tokens
    BY <1>6, <2>1, TitleOf DEF ScrapVehicle, IsRegistered
  <2>3. own'[dvpToOwn[d]] = own[dvpToOwn[d]] /\ UNCHANGED dvpToOwn
    BY <1>6, <2>2 DEF ScrapVehicle, DeactivateVehicle, IInv, TypeOK, OwnershipTypeOK
  <2>4. passport'[d] = passport[d]
    BY <1>6, <2>1 DEF ScrapVehicle, MarkScrapped, IInv, TypeOK, DvpTypeOK
  <2> QED
    BY <2>3, <2>4 DEF CurrentOwner, IsRegistered
<1> QED
  BY <1>1, <1>2, <1>3, <1>4, <1>5, <1>6 DEF Next, RegisterStep, ApproveStep, ScrapStep

(* A vehicle with an active loan is neither conveyed nor scrapped: the bank *)
(* has to issue its NOC first, whichever contract is asked.                 *)
THEOREM LienHoldsAlways == Spec => LienHolds
<1>1. IInv /\ [Next]_vars => [LienStep]_vars
  BY LienNext
<1> QED
  BY <1>1, Inductive, PTL DEF Spec, LienHolds

(* A loan created by any of the three courses of registerLoan, by a         *)
(* refinance or by an approval names a bank that is active at that moment.  *)
LEMMA CreatedByActiveBank ==
    ASSUME IInv, NEW d, NEW u, NEW b, NEW closed,
           CreateLoan(d, u, b, closed), bank[b].active
    PROVE  NewLienStep
<1> SUFFICES ASSUME NEW l \in LoanIds, loan'[l].active, ~loan[l].active
             PROVE  bank[loan'[l].bankId].active
  BY DEF NewLienStep
<1>1. loan[l] \in LoanRecord
  BY DEF IInv, TypeOK, LoanTypeOK
<1>2. l # loanCtr' => ~loan'[l].active
  BY <1>1 DEF CreateLoan, LoanRecord
<1> QED
  BY <1>2 DEF CreateLoan

(* A step gives no lien to an inactive bank: see InactiveBankGainsNoLien.   *)
LEMMA NewLienNext == IInv /\ Next => NewLienStep
<1> SUFFICES ASSUME IInv, Next PROVE NewLienStep
  OBVIOUS
<1>1. CASE loan' = loan
  BY <1>1 DEF NewLienStep
<1>2. CASE LoanStep
  <2>1. PICK w \in BankWallets, d \in Vehicles :
          \/ \E u \in Users : \/ RegisterNewCarLoan(w, d, u) \/ RegisterUsedCarLoan(w, d, u)
                              \/ RegisterTitleLoan(w, d, u)
          \/ CancelPendingLoan(w, d) \/ RefinanceLoan(w, d) \/ IssueNOC(w, d)
    BY <1>2 DEF LoanStep
  <2>2. ASSUME NEW u \in Users, RegisterNewCarLoan(w, d, u) \/ RegisterTitleLoan(w, d, u)
        PROVE  NewLienStep
    BY <2>2, CreatedByActiveBank DEF RegisterNewCarLoan, RegisterTitleLoan, MayLend, ActiveBank
  <2>3. CASE RefinanceLoan(w, d)
    BY <2>3, CreatedByActiveBank DEF RefinanceLoan, ActiveBank
  <2>4. CASE IssueNOC(w, d)
    <3>1. \A l \in LoanIds : loan'[l].active => loan[l].active
      BY <2>4 DEF IssueNOC, IInv, TypeOK, LoanTypeOK, LoanRecord
    <3> QED
      BY <3>1 DEF NewLienStep
  <2>5. CASE CancelPendingLoan(w, d) \/ \E u \in Users : RegisterUsedCarLoan(w, d, u)
    BY <1>1, <2>5 DEF CancelPendingLoan, RegisterUsedCarLoan, loanVars
  <2> QED
    BY <2>1, <2>2, <2>3, <2>4, <2>5
<1>3. CASE ApproveStep
  <2>1. PICK r \in RTOs, t \in Tokens : ApproveTransfer(r, t)
    BY <1>3 DEF ApproveStep
  <2>2. CASE xfer[t].hasPendingLoan
    BY <2>1, <2>2, CreatedByActiveBank DEF ApproveTransfer, SystemActivatePendingLoan
  <2>3. CASE ~xfer[t].hasPendingLoan
    BY <1>1, <2>1, <2>3 DEF ApproveTransfer, loanVars
  <2> QED
    BY <2>2, <2>3
<1>4. CASE AdminStep
  BY <1>1, <1>4 DEF AdminStep, RegBank, ToggleBankStatus, loanVars
<1>5. CASE DvpStep \/ TransferStep \/ TradeCertStep \/ ChallanStep \/ InsuranceStep \/ PUCStep
           \/ RegisterStep \/ ScrapStep \/ TimeStep
  BY <1>1, <1>5 DEF DvpStep, TransferStep, TradeCertStep, ChallanStep, InsuranceStep, PUCStep,
     RegisterStep, Register, ScrapStep, ScrapVehicle, TimeStep, loanVars
<1> QED
  BY <1>2, <1>3, <1>4, <1>5 DEF Next

(* A bank that was deactivated after it attached a loan to a transfer does  *)
(* not get its lien: the approval reverts.                                  *)
THEOREM InactiveBankGainsNoLienAlways == Spec => InactiveBankGainsNoLien
<1>1. IInv /\ [Next]_vars => [NewLienStep]_vars
  BY NewLienNext
<1> QED
  BY <1>1, Inductive, PTL DEF Spec, InactiveBankGainsNoLien

(* An approval moves one title.                                             *)
LEMMA ApproveOne ==
    ASSUME IInv, NEW r \in RTOs, NEW s \in Tokens, ApproveTransfer(r, s),
           NEW t \in Tokens, s # t
    PROVE  own'[t] = own[t]
BY DEF ApproveTransfer, MoveTitle, IInv, TypeOK, OwnershipTypeOK

(* The owner recorded in an existing title changes only when its transfer   *)
(* is approved.                                                             *)
LEMMA OwnerMoves ==
    ASSUME IInv, Next, NEW t \in Tokens, xfer[t].exists, own[t].owner # own'[t].owner
    PROVE  \E r \in RTOs : ApproveTransfer(r, t)
<1>0. own \in [Tokens -> OwnRecord] /\ UNCHANGED own => FALSE
  BY DEF IInv, TypeOK, OwnershipTypeOK
<1>1. ~(AdminStep \/ TradeCertStep \/ ChallanStep \/ InsuranceStep \/ PUCStep \/ TimeStep \/ DvpStep)
  BY <1>0 DEF ownershipVars, AdminStep, AdminRTO, TradeCertStep, IssueTradeCert, RevokeTradeCert,
     ChallanStep, InsuranceStep, PUCStep, TimeStep, DvpStep
<1>2. ~TransferStep
  BY <1>0 DEF TransferStep, InitTransfer, AcceptTransfer, CancelTransfer
<1>3. ~LoanStep
  <2>1. LoanStep => own' = own
    BY DEF ownershipVars, LoanStep, RegisterNewCarLoan, RegisterUsedCarLoan, RegisterTitleLoan,
       CancelPendingLoan, RefinanceLoan, IssueNOC, AttachPendingLoan, DetachPendingLoan
  <2> QED
    BY <1>0, <2>1
<1>4. ASSUME NEW r \in RTOs, NEW d \in Vehicles, NEW u \in Users, NEW dl \in Dealers,
             Register(r, d, u, dl)
      PROVE  FALSE
  <2>1. t # tokenCtr'
    <3>1. t \in 1 .. tokenCtr
      BY ActiveTitle DEF IInv, TitleInv, TransferCurrent
    <3> QED
      BY <1>4, <3>1, TitlesMinted DEF Register, MintTitle
  <2> QED
    BY <1>4, <2>1 DEF Register, MintTitle, IInv, TypeOK, OwnershipTypeOK
<1>5. ASSUME NEW s \in ScrapCentres, NEW d \in Vehicles, ScrapVehicle(s, d) PROVE FALSE
  <2>1. own' = [own EXCEPT ![dvpToOwn[d]].active = FALSE]
    BY <1>5 DEF ScrapVehicle, DeactivateVehicle
  <2>2. own'[t].owner = own[t].owner
    BY <1>0, <2>1 DEF OwnRecord
  <2> QED
    BY <2>2
<1>6. ASSUME NEW r \in RTOs, NEW s \in Tokens, ApproveTransfer(r, s), s # t PROVE FALSE
  <2>1. own'[t] = own[t]
    BY <1>6, ApproveOne
  <2> QED
    BY <2>1
<1> QED
  BY <1>1, <1>2, <1>3, <1>4, <1>5, <1>6 DEF Next, RegisterStep, ApproveStep, ScrapStep

(* A financed transfer carries its lien: see FinancedTransferCarriesLien.   *)
LEMMA FinancedNext == IInv /\ Next => FinancedStep
<1> SUFFICES ASSUME IInv, Next, NEW t \in Tokens, xfer[t].hasPendingLoan,
                    own[t].owner # own'[t].owner
             PROVE  \E d \in Vehicles :
                      /\ d = own[t].dvp /\ HasActiveLoan(d)'
                      /\ loan'[dvpToLoan'[d]].bankId = xfer[t].bankId
                      /\ loan'[dvpToLoan'[d]].borrower = own'[t].owner
  BY DEF FinancedStep
<1>1. PICK r \in RTOs : ApproveTransfer(r, t)
  BY OwnerMoves DEF IInv, TitleInv, FlagsSound
<1>2. own[t].active /\ xfer[t].buyer \in Users
  BY <1>1 DEF ApproveTransfer, MayApprove, IInv, TitleInv, FlagsSound, TransferCurrent
<1>3. PICK d \in Vehicles : d = own[t].dvp
  BY <1>2, ActiveTitle
<1>4. CreateLoan(d, xfer[t].buyer, xfer[t].bankId, 0) /\ ~LoanExists(d)
  BY <1>1, <1>3 DEF ApproveTransfer, SystemActivatePendingLoan
<1>5. own'[t].owner = xfer[t].buyer
  <2>1. own \in [Tokens -> OwnRecord]
    BY DEF IInv, TypeOK, OwnershipTypeOK
  <2> QED
    BY <1>1, <2>1 DEF ApproveTransfer, MoveTitle, OwnRecord
<1>6. /\ HasActiveLoan(d)'
      /\ loan'[dvpToLoan'[d]].bankId = xfer[t].bankId
      /\ loan'[dvpToLoan'[d]].borrower = xfer[t].buyer
  BY <1>2, <1>4, CreateLoanInv DEF Owners
<1> QED
  BY <1>3, <1>5, <1>6

(* The lender that financed a purchase is never left without its lien when  *)
(* the title moves: both happen in the same transaction.                    *)
THEOREM FinancedTransferCarriesLienAlways == Spec => FinancedTransferCarriesLien
<1>1. IInv /\ [Next]_vars => [FinancedStep]_vars
  BY FinancedNext
<1> QED
  BY <1>1, Inductive, PTL DEF Spec, FinancedTransferCarriesLien

-----------------------------------------------------------------------------
(* FINES, DOCUMENTS AND SCRAPPED VEHICLES                                   *)

(* No fine and no document exists at deployment, and no vehicle.            *)
LEMMA InitComplianceInv == Init => ComplianceInv
<1> SUFFICES ASSUME Init PROVE ComplianceInv
  OBVIOUS
<1> USE Constants DEF Init
<1>1. RegistersSound
  BY DEF RegistersSound, ChallanInit, InsuranceInit, PUCInit, NoChallan, NoPolicy, NoPUC
<1>2. CountsExact
  <2>1. \A t \in Tokens : UnsettledOf(t) = {}
    BY DEF UnsettledOf, Unsettled, ChallanInit, NoChallan, Tokens
  <2> QED
    BY <2>1, FS_EmptySet DEF CountsExact, ChallanInit
<1>3. OneCurrentDocument
  BY DEF OneCurrentDocument, InsuranceInit, PUCInit, NoPolicy, NoPUC
<1>4. ScrappedIsClean
  BY DEF ScrappedIsClean, DvpInit
<1> QED
  BY <1>1, <1>2, <1>3, <1>4 DEF ComplianceInv

(* A scrapped vehicle's title is inactive for good: nothing of it can be    *)
(* lent on, offered, fined, insured or tested.                              *)
LEMMA ScrappedTitle ==
    ASSUME FullInv, NEW d \in Vehicles, passport[d].status = "SCRAPPED"
    PROVE  /\ dvpToOwn[d] \in Tokens /\ own[dvpToOwn[d]].dvp = d
           /\ ~own[dvpToOwn[d]].active
           /\ ~LoanExists(d)
<1>0. IInv /\ ScrappedIsClean
  BY DEF FullInv, ComplianceInv
<1>1. IsRegistered(d) /\ IsLoanCleared(d)
  BY <1>0 DEF ScrappedIsClean, IsRegistered
<1>2. /\ dvpToOwn[d] \in Tokens /\ dvpToOwn[d] \in 1 .. tokenCtr
      /\ own[dvpToOwn[d]].dvp = d
  BY <1>0, <1>1, TitleOf
<1>3. ~own[dvpToOwn[d]].active
  BY <1>0, <1>2 DEF IInv, TitleInv, TitleConsistent
<1>4. ~LoanExists(d)
  BY <1>0, <1>1 DEF IsLoanCleared, LoanExists, IInv, TitleInv, FlagsSound, TypeOK, LoanTypeOK,
     LoanIds
<1> QED
  BY <1>2, <1>3, <1>4

(* A step scraps no vehicle, and leaves the title and the authorisation of  *)
(* the scrapped ones alone.                                                 *)
NoneScrapped ==
    \A d \in Vehicles : passport'[d].status = "SCRAPPED" =>
        /\ passport[d].status = "SCRAPPED"
        /\ dvpToOwn'[d] = dvpToOwn[d] /\ authorizedScrap'[d] = authorizedScrap[d]

(* A step gives no loan to a vehicle whose title is inactive.               *)
NothingLent ==
    \A d \in Vehicles :
        passport[d].status = "SCRAPPED" /\ IsLoanCleared(d) => IsLoanCleared(d)'

(* A step adds no request, fine or document to an inactive title.           *)
NothingAdded ==
    \A t \in Tokens : ~own[t].active =>
        /\ xfer'[t].exists => xfer[t].exists
        /\ \A c \in ChallanIds : Unsettled(c, t)' => Unsettled(c, t)
        /\ \A p \in PolicyIds : policy'[p].ownTid = t /\ policy'[p].active =>
                                    policy[p].ownTid = t /\ policy[p].active
        /\ \A n \in CertIds : puc'[n].ownTid = t /\ puc'[n].valid =>
                                  puc[n].ownTid = t /\ puc[n].valid

(* What is scrapped stays clean under a step that adds nothing to it.       *)
LEMMA StaysClean ==
    ASSUME FullInv, NoneScrapped, NothingLent, NothingAdded
    PROVE  ScrappedIsClean'
<1> SUFFICES ASSUME NEW d \in Vehicles, passport'[d].status = "SCRAPPED"
             PROVE  /\ dvpToOwn'[d] = dvpToOwn[d] /\ dvpToOwn[d] # 0 /\ IsLoanCleared(d)'
                    /\ \A c \in ChallanIds : ~Unsettled(c, dvpToOwn[d])'
                    /\ \A p \in PolicyIds : policy'[p].ownTid = dvpToOwn[d] => ~policy'[p].active
                    /\ \A n \in CertIds : puc'[n].ownTid = dvpToOwn[d] => ~puc'[n].valid
                    /\ ~xfer'[dvpToOwn[d]].exists /\ authorizedScrap'[d] = Nobody
  BY DEF ScrappedIsClean, Unsettled
<1> DEFINE t == dvpToOwn[d]
<1>1. passport[d].status = "SCRAPPED" /\ dvpToOwn'[d] = t /\ authorizedScrap'[d] = authorizedScrap[d]
  BY DEF NoneScrapped
<1>2. t \in Tokens /\ ~own[t].active
  BY <1>1, ScrappedTitle
<1>3. /\ t # 0 /\ IsLoanCleared(d) /\ ~xfer[t].exists /\ authorizedScrap[d] = Nobody
      /\ \A c \in ChallanIds : ~Unsettled(c, t)
      /\ \A p \in PolicyIds : policy[p].ownTid = t => ~policy[p].active
      /\ \A n \in CertIds : puc[n].ownTid = t => ~puc[n].valid
  BY <1>1 DEF FullInv, ComplianceInv, ScrappedIsClean
<1>4. IsLoanCleared(d)'
  BY <1>1, <1>3 DEF NothingLent
<1>5. /\ ~xfer'[t].exists
      /\ \A c \in ChallanIds : ~Unsettled(c, dvpToOwn[d])'
      /\ \A p \in PolicyIds : policy'[p].ownTid = t => ~policy'[p].active
      /\ \A n \in CertIds : puc'[n].ownTid = t => ~puc'[n].valid
  BY <1>1, <1>2, <1>3 DEF NothingAdded, Unsettled
<1> QED
  BY <1>1, <1>3, <1>4, <1>5

(* The registers say the same after a step that writes none of them.        *)
LEMMA ComplianceFrame ==
    ASSUME FullInv, UNCHANGED complianceVars, NoneScrapped, NothingLent,
           \A t \in Tokens : ~own[t].active /\ xfer'[t].exists => xfer[t].exists
    PROVE  ComplianceInv'
<1> USE DEF complianceVars, challanVars, insuranceVars, pucVars
<1>1. RegistersSound' /\ OneCurrentDocument'
  BY DEF FullInv, ComplianceInv, RegistersSound, OneCurrentDocument
<1>2. CountsExact'
  BY DEF FullInv, ComplianceInv, CountsExact, UnsettledOf, Unsettled
<1>3. NothingAdded
  BY DEF NothingAdded, Unsettled
<1> QED
  BY <1>1, <1>2, <1>3, StaysClean DEF ComplianceInv

(* Steps of the passport contract.                                          *)
LEMMA DvpStepClean == FullInv /\ DvpStep => ComplianceInv'
<1> SUFFICES ASSUME FullInv, DvpStep PROVE ComplianceInv'
  OBVIOUS
<1>1. UNCHANGED <<ownershipVars, loanVars, complianceVars>>
  BY DEF DvpStep
<1>2. NoneScrapped
  <2>0. DvpTypeOK
    BY DEF FullInv, IInv, TypeOK
  <2>1. ASSUME NEW d \in Vehicles, NEW m \in Mfgs, Manufacture(m, d) PROVE NoneScrapped
    BY <1>1, <2>0, <2>1 DEF NoneScrapped, Manufacture, DvpTypeOK, ownershipVars
  <2>2. ASSUME NEW d \in Vehicles, NEW m \in Mfgs, NEW dl \in Dealers, AssignToDealer(m, d, dl)
        PROVE  NoneScrapped
    BY <1>1, <2>2 DEF NoneScrapped, AssignToDealer, ownershipVars
  <2>3. ASSUME NEW d \in Vehicles, NEW u \in Users, NEW s \in ScrapCentres,
               AuthorizeScrap(u, d, s)
        PROVE  NoneScrapped
    BY <1>1, <2>0, <2>3 DEF NoneScrapped, AuthorizeScrap, DvpTypeOK, ownershipVars
  <2> QED
    BY <2>1, <2>2, <2>3 DEF DvpStep
<1>3. NothingLent
  BY <1>1 DEF NothingLent, IsLoanCleared, loanVars
<1> QED
  BY <1>1, <1>2, <1>3, ComplianceFrame DEF ownershipVars

(* Offering, signing and withdrawing a transfer.                            *)
LEMMA TransferStepClean == FullInv /\ TransferStep => ComplianceInv'
<1> SUFFICES ASSUME FullInv, TransferStep PROVE ComplianceInv'
  OBVIOUS
<1>1. UNCHANGED <<dvpVars, loanVars, complianceVars, own, dvpToOwn>>
  BY DEF TransferStep, InitTransfer, AcceptTransfer, CancelTransfer
<1>2. ASSUME NEW t \in Tokens, ~own[t].active, xfer'[t].exists PROVE xfer[t].exists
  <2>0. xfer \in [Tokens -> XferRecord]
    BY DEF FullInv, IInv, TypeOK, OwnershipTypeOK
  <2> QED
    BY <1>2, <2>0 DEF TransferStep, InitTransfer, MayOffer, AcceptTransfer, CancelTransfer,
       DeleteXfer, NoXfer, XferRecord
<1> QED
  BY <1>1, <1>2, ComplianceFrame DEF NoneScrapped, NothingLent, IsLoanCleared, dvpVars, loanVars

(* A loan is created for one vehicle, or replaces the one it has.           *)
LEMMA CreateLoanClean ==
    ASSUME FullInv, NEW d \in Vehicles, NEW u, NEW b, NEW closed,
           CreateLoan(d, u, b, closed), passport[d].status # "SCRAPPED"
    PROVE  NothingLent
<1> SUFFICES ASSUME NEW e \in Vehicles, passport[e].status = "SCRAPPED", IsLoanCleared(e)
             PROVE  IsLoanCleared(e)'
  BY DEF NothingLent
<1>1. /\ loanCtr \in 0 .. MaxLoans /\ dvpToLoan \in [Vehicles -> 0 .. MaxLoans]
      /\ loan \in [LoanIds -> LoanRecord] /\ MaxLoans \in Nat
      /\ dvpToLoan[e] <= loanCtr
  BY Constants DEF FullInv, IInv, TypeOK, LoanTypeOK, TitleInv, PointersSound
<1>2. dvpToLoan'[e] = dvpToLoan[e]
  BY <1>1 DEF CreateLoan
<1>3. CASE dvpToLoan[e] # 0
  <2>1. dvpToLoan[e] \in LoanIds /\ dvpToLoan[e] # loanCtr'
    BY <1>1, <1>3 DEF CreateLoan, LoanIds
  <2>2. /\ loan'[dvpToLoan[e]].active => loan[dvpToLoan[e]].active
        /\ loan'[dvpToLoan[e]].nocIssued = loan[dvpToLoan[e]].nocIssued
    BY <1>1, <2>1 DEF CreateLoan, LoanRecord
  <2> QED
    BY <1>2, <1>3, <2>2 DEF IsLoanCleared
<1> QED
  BY <1>2, <1>3 DEF IsLoanCleared

(* Lending, refinancing and clearing: never on a scrapped vehicle.          *)
LEMMA LoanStepClean == FullInv /\ LoanStep => ComplianceInv'
<1> SUFFICES ASSUME FullInv, LoanStep PROVE ComplianceInv'
  OBVIOUS
<1>0. /\ xfer \in [Tokens -> XferRecord] /\ loan \in [LoanIds -> LoanRecord]
      /\ dvpToLoan \in [Vehicles -> 0 .. MaxLoans] /\ dvpToOwn \in [Vehicles -> 0 .. MaxTokens]
      /\ MaxLoans \in Nat /\ MaxTokens \in Nat
  BY Constants DEF FullInv, IInv, TypeOK, OwnershipTypeOK, LoanTypeOK
<1>1. UNCHANGED <<dvpVars, complianceVars, own, dvpToOwn>>
  BY DEF LoanStep, RegisterNewCarLoan, RegisterUsedCarLoan, RegisterTitleLoan, CancelPendingLoan,
     RefinanceLoan, IssueNOC, AttachPendingLoan, DetachPendingLoan, ownershipVars
<1>2. PICK w \in BankWallets, d \in Vehicles :
        \/ \E u \in Users : \/ RegisterNewCarLoan(w, d, u) \/ RegisterUsedCarLoan(w, d, u)
                            \/ RegisterTitleLoan(w, d, u)
        \/ CancelPendingLoan(w, d) \/ RefinanceLoan(w, d) \/ IssueNOC(w, d)
  BY DEF LoanStep
<1>3. \A t \in Tokens : xfer'[t].exists => xfer[t].exists
  <2>1. CASE xfer' = xfer
    BY <2>1
  <2>2. CASE CancelPendingLoan(w, d) \/ \E u \in Users : RegisterUsedCarLoan(w, d, u)
    BY <1>0, <2>2 DEF CancelPendingLoan, RegisterUsedCarLoan, AttachPendingLoan, DetachPendingLoan,
       XferRecord
  <2> QED
    BY <1>2, <2>1, <2>2 DEF RegisterNewCarLoan, RegisterTitleLoan, RefinanceLoan, IssueNOC,
       ownershipVars
<1>4. NothingLent
  <2>1. ASSUME NEW u \in Users, RegisterNewCarLoan(w, d, u) \/ RegisterTitleLoan(w, d, u)
        PROVE  NothingLent
    BY <2>1, CreateLoanClean DEF RegisterNewCarLoan, RegisterTitleLoan, MayLend
  <2>2. CASE RefinanceLoan(w, d)
    BY <2>2, ScrappedTitle, CreateLoanClean DEF RefinanceLoan
  <2>3. CASE IssueNOC(w, d)
    <3>1. dvpToLoan[d] \in LoanIds
      BY <1>0, <2>3 DEF IssueNOC, LoanExists, LoanIds
    <3>2. \A l \in LoanIds : loan'[l].active => loan'[l] = loan[l]
      BY <1>0, <2>3, <3>1 DEF IssueNOC, LoanRecord
    <3>3. \A e \in Vehicles : dvpToLoan[e] # 0 => dvpToLoan[e] \in LoanIds
      BY <1>0 DEF LoanIds
    <3> QED
      BY <2>3, <3>2, <3>3 DEF IssueNOC, NothingLent, IsLoanCleared
  <2>4. CASE CancelPendingLoan(w, d) \/ \E u \in Users : RegisterUsedCarLoan(w, d, u)
    BY <2>4 DEF CancelPendingLoan, RegisterUsedCarLoan, loanVars, NothingLent, IsLoanCleared
  <2> QED
    BY <1>2, <2>1, <2>2, <2>3, <2>4
<1> QED
  BY <1>1, <1>3, <1>4, ComplianceFrame DEF NoneScrapped, dvpVars

(* Registering a vehicle and approving a transfer: the vehicle is not, and  *)
(* does not become, scrapped.                                               *)
LEMMA RegisterClean == FullInv /\ RegisterStep => ComplianceInv'
<1> SUFFICES ASSUME FullInv, NEW r \in RTOs, NEW d \in Vehicles, NEW u \in Users,
                    NEW dl \in Dealers, Register(r, d, u, dl)
             PROVE  ComplianceInv'
  BY DEF RegisterStep
<1>0. /\ dvpToOwn \in [Vehicles -> 0 .. MaxTokens]
      /\ passport \in [Vehicles -> [status : PassportStatus, mfg : Mfgs \cup {Nobody}]]
  BY DEF FullInv, IInv, TypeOK, OwnershipTypeOK, DvpTypeOK
<1>1. NoneScrapped
  BY <1>0 DEF NoneScrapped, Register, MintTitle, ActivateVehicle
<1> QED
  BY <1>1, ComplianceFrame DEF Register, MintTitle, NothingLent, IsLoanCleared, loanVars

(* Approving: the loan that is activated is on an active title's vehicle.   *)
LEMMA ApproveClean == FullInv /\ ApproveStep => ComplianceInv'
<1> SUFFICES ASSUME FullInv, NEW r \in RTOs, NEW t \in Tokens, ApproveTransfer(r, t)
             PROVE  ComplianceInv'
  BY DEF ApproveStep
<1>0. xfer \in [Tokens -> XferRecord] /\ IInv
  BY DEF FullInv, IInv, TypeOK, OwnershipTypeOK
<1>1. UNCHANGED <<dvpVars, complianceVars, dvpToOwn>>
  BY DEF ApproveTransfer, MoveTitle
<1>2. own[t].active
  BY <1>0 DEF ApproveTransfer, MayApprove, IInv, TitleInv, FlagsSound, TransferCurrent
<1>3. own[t].dvp \in Vehicles /\ passport[own[t].dvp].status # "SCRAPPED"
  BY <1>0, <1>2, ActiveTitle
<1>4. NothingLent
  <2>1. CASE xfer[t].hasPendingLoan
    BY <1>3, <2>1, CreateLoanClean DEF ApproveTransfer, SystemActivatePendingLoan
  <2>2. CASE ~xfer[t].hasPendingLoan
    BY <2>2 DEF ApproveTransfer, NothingLent, IsLoanCleared, loanVars
  <2> QED
    BY <2>1, <2>2
<1>5. \A s \in Tokens : xfer'[s].exists => xfer[s].exists
  BY <1>0 DEF ApproveTransfer, MoveTitle, DeleteXfer, NoXfer
<1> QED
  BY <1>1, <1>4, <1>5, ComplianceFrame DEF NoneScrapped, dvpVars

(* The unsettled fines of a title are finitely many.                        *)
LEMMA UnsettledFinite ==
    \A t : IsFiniteSet(UnsettledOf(t)) /\ Cardinality(UnsettledOf(t)) \in Nat
<1>1. IsFiniteSet(ChallanIds)
  BY FS_Interval, Constants DEF ChallanIds
<1> QED
  BY <1>1, FS_Subset, FS_CardinalityType DEF UnsettledOf

(* A fine issued to a title is one more on it, and none on another.         *)
LEMMA IssueChallanCounts ==
    ASSUME FullInv, NEW p \in PoliceStations, NEW t \in Tokens, NEW amount \in Amounts,
           IssueChallan(p, t, amount), UNCHANGED <<insuranceVars, pucVars>>
    PROVE  RegistersSound' /\ CountsExact'
<1> DEFINE n == challanCtr'
<1>0. /\ challanCtr \in 0 .. MaxChallans /\ MaxChallans \in Nat
      /\ challan \in [ChallanIds -> ChallanRecord] /\ pendingCount \in [Tokens -> Nat]
  BY Constants DEF FullInv, IInv, TypeOK, ChallanTypeOK
<1>1. n \in ChallanIds /\ n = challanCtr + 1
  BY <1>0 DEF IssueChallan, ChallanIds
<1>2. /\ challan'[n] = [ownTid |-> t, police |-> p, amount |-> amount,
                        isPaid |-> FALSE, isCancelled |-> FALSE]
      /\ \A c \in ChallanIds \ {n} : challan'[c] = challan[c]
  BY <1>0, <1>1 DEF IssueChallan
<1>3. challan[n].ownTid = 0
  BY <1>0, <1>1 DEF FullInv, ComplianceInv, RegistersSound, ChallanIds
<1>4. n \notin UnsettledOf(t) /\ UnsettledOf(t)' = UnsettledOf(t) \cup {n}
  <2>1. ~Unsettled(n, t)
    BY <1>3 DEF Unsettled, Tokens
  <2>2. ASSUME NEW c \in ChallanIds PROVE Unsettled(c, t)' <=> Unsettled(c, t) \/ c = n
    BY <1>1, <1>2 DEF Unsettled
  <2> HIDE DEF n
  <2> QED
    BY <1>1, <2>1, <2>2 DEF UnsettledOf
<1>5. \A s \in Tokens \ {t} : UnsettledOf(s)' = UnsettledOf(s)
  <2>1. ASSUME NEW s \in Tokens \ {t}, NEW c \in ChallanIds
        PROVE  Unsettled(c, s)' <=> Unsettled(c, s)
    BY <1>1, <1>2, <1>3 DEF Unsettled, Tokens
  <2> QED
    BY <2>1 DEF UnsettledOf
<1>6. CountsExact'
  <2>1. pendingCount'[t] = pendingCount[t] + 1
        /\ \A s \in Tokens \ {t} : pendingCount'[s] = pendingCount[s]
    BY <1>0 DEF IssueChallan
  <2>2. Cardinality(UnsettledOf(t) \cup {n}) = Cardinality(UnsettledOf(t)) + 1
    BY <1>4, UnsettledFinite, FS_AddElement
  <2>3. \A s \in Tokens : pendingCount[s] = Cardinality(UnsettledOf(s))
    BY DEF FullInv, ComplianceInv, CountsExact
  <2>4. \A s \in Tokens : pendingCount'[s] = Cardinality(UnsettledOf(s)')
    BY <1>4, <1>5, <2>1, <2>2, <2>3
  <2> QED
    BY <2>4 DEF CountsExact
<1>7. RegistersSound'
  <2>1. \A c \in ChallanIds : c > n => challan'[c].ownTid = 0
    BY <1>0, <1>1, <1>2 DEF FullInv, ComplianceInv, RegistersSound, ChallanIds
  <2> QED
    BY <2>1 DEF RegistersSound, FullInv, ComplianceInv, insuranceVars, pucVars
<1> QED
  BY <1>6, <1>7

(* A fine that is paid or withdrawn is one less on its title, and the clamp *)
(* of the decrement does not apply.                                         *)
LEMMA SettleCounts ==
    ASSUME FullInv, NEW t \in Tokens, NEW c \in ChallanIds, Unsettled(c, t),
           SettleCounters(c, t), UNCHANGED <<insuranceVars, pucVars>>,
           \/ challan' = [challan EXCEPT ![c].isPaid = TRUE]
           \/ challan' = [challan EXCEPT ![c].isCancelled = TRUE]
    PROVE  /\ RegistersSound' /\ CountsExact'
           /\ \A e \in ChallanIds, s \in Tokens : Unsettled(e, s)' => Unsettled(e, s)
<1>0. challan \in [ChallanIds -> ChallanRecord] /\ pendingCount \in [Tokens -> Nat]
  BY DEF FullInv, IInv, TypeOK, ChallanTypeOK
<1>1. /\ \A e \in ChallanIds \ {c} : challan'[e] = challan[e]
      /\ challan'[c].ownTid = t /\ (challan'[c].isPaid \/ challan'[c].isCancelled)
  <2>1. CASE challan' = [challan EXCEPT ![c].isPaid = TRUE]
    BY <1>0, <2>1 DEF Unsettled, ChallanRecord
  <2>2. CASE challan' = [challan EXCEPT ![c].isCancelled = TRUE]
    BY <1>0, <2>2 DEF Unsettled, ChallanRecord
  <2> QED
    BY <2>1, <2>2
<1>2. ASSUME NEW e \in ChallanIds, NEW s \in Tokens
      PROVE  Unsettled(e, s)' <=> Unsettled(e, s) /\ e # c
  BY <1>1 DEF Unsettled
<1>3. c \in UnsettledOf(t) /\ UnsettledOf(t)' = UnsettledOf(t) \ {c}
  BY <1>2 DEF UnsettledOf
<1>4. \A s \in Tokens \ {t} : UnsettledOf(s)' = UnsettledOf(s)
  <2>1. ASSUME NEW s \in Tokens \ {t}, NEW e \in ChallanIds
        PROVE  Unsettled(e, s)' <=> Unsettled(e, s)
    BY <1>2 DEF Unsettled
  <2> QED
    BY <2>1 DEF UnsettledOf
<1>5. CountsExact'
  <2>1. pendingCount'[t] = Decremented(pendingCount[t], 1)
        /\ \A s \in Tokens \ {t} : pendingCount'[s] = pendingCount[s]
    BY <1>0 DEF SettleCounters
  <2>2. Cardinality(UnsettledOf(t) \ {c}) = Cardinality(UnsettledOf(t)) - 1
        /\ Cardinality(UnsettledOf(t) \ {c}) \in Nat
    BY <1>3, UnsettledFinite, FS_RemoveElement, FS_CardinalityType
  <2>3. \A s \in Tokens : pendingCount[s] = Cardinality(UnsettledOf(s))
    BY DEF FullInv, ComplianceInv, CountsExact
  <2>4. pendingCount'[t] = Cardinality(UnsettledOf(t) \ {c})
    BY <2>1, <2>2, <2>3, UnsettledFinite DEF Decremented
  <2>5. \A s \in Tokens : pendingCount'[s] = Cardinality(UnsettledOf(s)')
    BY <1>3, <1>4, <2>1, <2>3, <2>4
  <2> QED
    BY <2>5 DEF CountsExact
<1>6. RegistersSound'
  <2>1. \A e \in ChallanIds : challan'[e].ownTid = challan[e].ownTid
    BY <1>1 DEF Unsettled
  <2> QED
    BY <2>1 DEF RegistersSound, FullInv, ComplianceInv, insuranceVars, pucVars, SettleCounters
<1> QED
  BY <1>2, <1>5, <1>6

(* Every transaction of ChallanContract keeps the count exact and fines no  *)
(* inactive title.                                                          *)
LEMMA ChallanStepClean == FullInv /\ ChallanStep => ComplianceInv'
<1> SUFFICES ASSUME FullInv, ChallanStep PROVE ComplianceInv'
  OBVIOUS
<1>1. UNCHANGED <<ownershipVars, dvpVars, loanVars, insuranceVars, pucVars>>
  BY DEF ChallanStep
<1>2. NoneScrapped /\ NothingLent /\ OneCurrentDocument'
  BY <1>1 DEF NoneScrapped, NothingLent, IsLoanCleared, OneCurrentDocument, ownershipVars, dvpVars,
     loanVars, insuranceVars, pucVars, FullInv, ComplianceInv
<1> DEFINE Kept ==
      /\ RegistersSound' /\ CountsExact'
      /\ \A t \in Tokens, c \in ChallanIds : ~own[t].active => (Unsettled(c, t)' => Unsettled(c, t))
<1>3. Kept
  <2>1. ASSUME NEW t \in Tokens, NEW p \in PoliceStations, NEW amount \in Amounts,
               IssueChallan(p, t, amount)
        PROVE  Kept
    <3>1. own[t].active
      BY <2>1 DEF IssueChallan, ExistsAndIsActive
    <3>2. \A c \in ChallanIds : challan'[c] = challan[c] \/ challan'[c].ownTid = t
      BY <2>1 DEF IssueChallan, FullInv, IInv, TypeOK, ChallanTypeOK
    <3> QED
      BY <1>1, <2>1, <3>1, <3>2, IssueChallanCounts DEF Unsettled
  <2>2. ASSUME NEW t \in Tokens, NEW c \in ChallanIds,
               \/ \E p \in PoliceStations : PayChallan(p, t, c) \/ CancelChallan(p, t, c)
               \/ AdminCancelChallan(t, c)
        PROVE  Kept
    BY <1>1, <2>2, SettleCounts DEF PayChallan, CancelChallan, AdminCancelChallan
  <2> QED
    BY <2>1, <2>2 DEF ChallanStep
<1>4. NothingAdded
  BY <1>1, <1>3 DEF NothingAdded, ownershipVars, insuranceVars, pucVars
<1> QED
  BY <1>2, <1>3, <1>4, StaysClean DEF ComplianceInv

(* A new policy takes the place of the title's current one; the others are  *)
(* not touched.                                                             *)
LEMMA IssuePolicyClean ==
    ASSUME FullInv, NEW i \in Insurers, NEW t \in Tokens, NEW expiry, IssuePolicy(i, t, expiry)
    PROVE  /\ \A p \in PolicyIds : policy'[p].active =>
                 policy'[p].ownTid \in Tokens /\ ownToPolicy'[policy'[p].ownTid] = p
           /\ \A p \in PolicyIds : policy'[p].active =>
                 policy'[p].ownTid = t \/ (policy[p].ownTid = policy'[p].ownTid /\ policy[p].active)
           /\ own[t].active
<1> DEFINE n == polCtr'
<1>0. /\ ownToPolicy \in [Tokens -> 0 .. MaxPolicies] /\ policy \in [PolicyIds -> PolicyRecord]
      /\ polCtr \in 0 .. MaxPolicies /\ MaxPolicies \in Nat
  BY Constants DEF FullInv, IInv, TypeOK, InsuranceTypeOK
<1>1. \A p \in PolicyIds : policy[p].active =>
        policy[p].ownTid \in Tokens /\ ownToPolicy[policy[p].ownTid] = p
  BY DEF FullInv, ComplianceInv, RegistersSound, OneCurrentDocument
<1>2. n \in PolicyIds /\ policy'[n].ownTid = t
  BY <1>0 DEF IssuePolicy, PolicyIds
<1>3. ownToPolicy'[t] = n /\ \A s \in Tokens \ {t} : ownToPolicy'[s] = ownToPolicy[s]
  BY <1>0 DEF IssuePolicy
<1>4. ASSUME NEW p \in PolicyIds \ {n}, policy'[p].active
      PROVE  /\ p # ownToPolicy[t] /\ policy'[p] = policy[p]
             /\ policy[p].ownTid \in Tokens \ {t} /\ ownToPolicy[policy[p].ownTid] = p
  <2>1. p # ownToPolicy[t]
    BY <1>0, <1>4 DEF IssuePolicy, PolicyRecord
  <2>2. policy'[p] = policy[p]
    BY <1>4, <2>1 DEF IssuePolicy
  <2> QED
    BY <1>1, <1>4, <2>1, <2>2
<1>5. own[t].active
  BY DEF IssuePolicy, ExistsAndIsActive
<1> HIDE DEF n
<1>6. ASSUME NEW p \in PolicyIds, policy'[p].active
      PROVE  /\ policy'[p].ownTid \in Tokens /\ ownToPolicy'[policy'[p].ownTid] = p
             /\ policy'[p].ownTid = t \/ (policy[p].ownTid = policy'[p].ownTid /\ policy[p].active)
  <2>1. CASE p = n
    BY <1>2, <1>3, <2>1
  <2>2. CASE p # n
    BY <1>3, <1>4, <1>6, <2>2
  <2> QED
    BY <2>1, <2>2
<1> QED
  BY <1>5, <1>6

(* Every transaction of InsuranceToken.                                     *)
LEMMA InsuranceStepClean == FullInv /\ InsuranceStep => ComplianceInv'
<1> SUFFICES ASSUME FullInv, InsuranceStep PROVE ComplianceInv'
  OBVIOUS
<1>1. UNCHANGED <<ownershipVars, dvpVars, loanVars, challanVars, pucVars>>
  BY DEF InsuranceStep
<1>2. NoneScrapped /\ NothingLent /\ CountsExact'
  BY <1>1 DEF NoneScrapped, NothingLent, IsLoanCleared, CountsExact, UnsettledOf, Unsettled,
     ownershipVars, dvpVars, loanVars, challanVars, FullInv, ComplianceInv
<1> DEFINE Kept ==
      /\ \A p \in PolicyIds : policy'[p].active =>
            policy'[p].ownTid \in Tokens /\ ownToPolicy'[policy'[p].ownTid] = p
      /\ \A t \in Tokens, p \in PolicyIds : ~own[t].active =>
            (policy'[p].ownTid = t /\ policy'[p].active => policy[p].ownTid = t /\ policy[p].active)
<1>3. Kept
  <2>1. ASSUME NEW i \in Insurers, NEW t \in Tokens, NEW expiry \in Dates, IssuePolicy(i, t, expiry)
        PROVE  Kept
    BY <2>1, IssuePolicyClean
  <2>2. ASSUME NEW i \in Insurers, NEW q \in PolicyIds,
               MarkPolicyExpired(i, q) \/ FileClaim(i, q)
        PROVE  Kept
    <3>1. policy \in [PolicyIds -> PolicyRecord]
      BY DEF FullInv, IInv, TypeOK, InsuranceTypeOK
    <3>2. \A p \in PolicyIds : /\ policy'[p].ownTid = policy[p].ownTid
                               /\ policy'[p].active => policy[p].active
      <4>1. CASE MarkPolicyExpired(i, q)
        BY <3>1, <4>1 DEF MarkPolicyExpired, PolicyRecord
      <4>2. CASE FileClaim(i, q)
        BY <3>1, <4>2 DEF FileClaim, PolicyRecord
      <4> QED
        BY <2>2, <4>1, <4>2
    <3>3. ownToPolicy' = ownToPolicy
      BY <2>2 DEF MarkPolicyExpired, FileClaim
    <3> QED
      BY <3>2, <3>3 DEF FullInv, ComplianceInv, RegistersSound, OneCurrentDocument
  <2> QED
    BY <2>1, <2>2 DEF InsuranceStep
<1>4. RegistersSound' /\ OneCurrentDocument'
  BY <1>1, <1>3 DEF RegistersSound, OneCurrentDocument, FullInv, ComplianceInv, challanVars, pucVars
<1>5. NothingAdded
  BY <1>1, <1>3 DEF NothingAdded, Unsettled, ownershipVars, challanVars, pucVars
<1> QED
  BY <1>2, <1>4, <1>5, StaysClean DEF ComplianceInv

(* A recorded test replaces the title's current certificate if it passed,   *)
(* and is not in force if it failed.                                        *)
LEMMA IssuePUCClean ==
    ASSUME FullInv, NEW c \in Centres, NEW t \in Tokens, NEW expiry, NEW within,
           NEW passed \in BOOLEAN, IssuePUC(c, t, expiry, within, passed)
    PROVE  /\ \A n \in CertIds : puc'[n].valid =>
                 puc'[n].ownTid \in Tokens /\ puc'[n].passed /\ ownToPUC'[puc'[n].ownTid] = n
           /\ \A n \in CertIds : puc'[n].valid =>
                 puc'[n].ownTid = t \/ (puc[n].ownTid = puc'[n].ownTid /\ puc[n].valid)
           /\ own[t].active
<1> DEFINE k == certCtr'
<1>0. /\ ownToPUC \in [Tokens -> 0 .. MaxCerts] /\ puc \in [CertIds -> PUCRecord]
      /\ certCtr \in 0 .. MaxCerts /\ MaxCerts \in Nat /\ RecordTest(t, passed, expiry)
  BY Constants DEF FullInv, IInv, TypeOK, PUCTypeOK, IssuePUC
<1>1. \A n \in CertIds : puc[n].valid =>
        puc[n].ownTid \in Tokens /\ puc[n].passed /\ ownToPUC[puc[n].ownTid] = n
  BY DEF FullInv, ComplianceInv, RegistersSound, OneCurrentDocument
<1>2. k \in CertIds /\ k = certCtr + 1
      /\ puc'[k].ownTid = t /\ puc'[k].valid = passed /\ puc'[k].passed = passed
  BY <1>0 DEF RecordTest, CertIds
<1>3. ownToPUC' = IF passed THEN [ownToPUC EXCEPT ![t] = k] ELSE ownToPUC
  BY <1>0, <1>2 DEF RecordTest, CurrentAfter
<1>4. ASSUME NEW n \in CertIds \ {k}, puc'[n].valid
      PROVE  /\ puc'[n] = puc[n] /\ puc[n].ownTid \in Tokens /\ puc[n].passed
             /\ ownToPUC[puc[n].ownTid] = n /\ (passed => puc[n].ownTid # t)
  <2>1. passed => n # ownToPUC[t]
    BY <1>0, <1>4 DEF RecordTest, PUCRecord
  <2>2. puc'[n] = puc[n]
    BY <1>0, <1>4, <2>1 DEF RecordTest
  <2> QED
    BY <1>1, <1>4, <2>1, <2>2
<1>5. own[t].active
  BY DEF IssuePUC, ExistsAndIsActive
<1> HIDE DEF k
<1>6. ASSUME NEW n \in CertIds, puc'[n].valid
      PROVE  /\ puc'[n].ownTid \in Tokens /\ puc'[n].passed /\ ownToPUC'[puc'[n].ownTid] = n
             /\ puc'[n].ownTid = t \/ (puc[n].ownTid = puc'[n].ownTid /\ puc[n].valid)
  <2>1. CASE n = k
    BY <1>0, <1>2, <1>3, <1>6, <2>1
  <2>2. CASE n # k
    BY <1>0, <1>3, <1>4, <1>6, <2>2
  <2> QED
    BY <2>1, <2>2
<1> QED
  BY <1>5, <1>6

(* Every transaction of PUCToken.                                           *)
LEMMA PUCStepClean == FullInv /\ PUCStep => ComplianceInv'
<1> SUFFICES ASSUME FullInv, PUCStep PROVE ComplianceInv'
  OBVIOUS
<1>1. UNCHANGED <<ownershipVars, dvpVars, loanVars, challanVars, insuranceVars>>
  BY DEF PUCStep
<1>2. NoneScrapped /\ NothingLent /\ CountsExact'
  BY <1>1 DEF NoneScrapped, NothingLent, IsLoanCleared, CountsExact, UnsettledOf, Unsettled,
     ownershipVars, dvpVars, loanVars, challanVars, FullInv, ComplianceInv
<1> DEFINE Kept ==
      /\ \A n \in CertIds : puc'[n].valid =>
            puc'[n].ownTid \in Tokens /\ puc'[n].passed /\ ownToPUC'[puc'[n].ownTid] = n
      /\ \A t \in Tokens, n \in CertIds : ~own[t].active =>
            (puc'[n].ownTid = t /\ puc'[n].valid => puc[n].ownTid = t /\ puc[n].valid)
<1>3. Kept
  <2>1. ASSUME NEW c \in Centres, NEW t \in Tokens, NEW expiry \in Dates,
               NEW within \in BOOLEAN, NEW passed \in BOOLEAN,
               IssuePUC(c, t, expiry, within, passed)
        PROVE  Kept
    BY <2>1, IssuePUCClean
  <2>2. ASSUME NEW c \in Centres, NEW k \in CertIds, MarkPUCExpired(c, k) PROVE Kept
    <3>1. puc \in [CertIds -> PUCRecord]
      BY DEF FullInv, IInv, TypeOK, PUCTypeOK
    <3>2. \A n \in CertIds : /\ puc'[n].ownTid = puc[n].ownTid /\ puc'[n].passed = puc[n].passed
                             /\ puc'[n].valid => puc[n].valid
      BY <2>2, <3>1 DEF MarkPUCExpired, PUCRecord
    <3>3. ownToPUC' = ownToPUC
      BY <2>2 DEF MarkPUCExpired
    <3> QED
      BY <3>2, <3>3 DEF FullInv, ComplianceInv, RegistersSound, OneCurrentDocument
  <2> QED
    BY <2>1, <2>2 DEF PUCStep
<1>4. RegistersSound' /\ OneCurrentDocument'
  BY <1>1, <1>3 DEF RegistersSound, OneCurrentDocument, FullInv, ComplianceInv, challanVars,
     insuranceVars
<1>5. NothingAdded
  BY <1>1, <1>3 DEF NothingAdded, Unsettled, ownershipVars, challanVars, insuranceVars
<1> QED
  BY <1>2, <1>4, <1>5, StaysClean DEF ComplianceInv

(* scrapVehicle finds nothing pending on the title -- the count it reads is *)
(* exact -- and takes the two documents its pointers name out of force,     *)
(* which are the only ones in force.                                        *)
LEMMA ScrapClean == FullInv /\ ScrapStep => ComplianceInv'
<1> SUFFICES ASSUME FullInv, NEW s \in ScrapCentres, NEW d \in Vehicles, ScrapVehicle(s, d)
             PROVE  ComplianceInv'
  BY DEF ScrapStep
<1> DEFINE t == dvpToOwn[d]
<1>0. /\ IInv /\ policy \in [PolicyIds -> PolicyRecord] /\ puc \in [CertIds -> PUCRecord]
      /\ passport \in [Vehicles -> [status : PassportStatus, mfg : Mfgs \cup {Nobody}]]
      /\ authorizedScrap \in [Vehicles -> ScrapCentres \cup {Nobody}]
      /\ pendingCount \in [Tokens -> Nat]
  BY DEF FullInv, IInv, TypeOK, InsuranceTypeOK, PUCTypeOK, DvpTypeOK, ChallanTypeOK
<1>1. t # 0 /\ t \in Tokens
  BY <1>0, TitleOf DEF ScrapVehicle, IsRegistered
<1>2. ~hasXfer[t] /\ ~xfer[t].exists
  BY <1>0, <1>1 DEF ScrapVehicle, ScrapCompliant, IInv, TitleInv, TransferCurrent
<1>3. UNCHANGED <<loanVars, dvpToOwn, xfer>>
  BY <1>2 DEF ScrapVehicle, DeactivateVehicle
<1>4. pendingCount[t] = 0 /\ \A c \in ChallanIds : ~Unsettled(c, t)
  <2>1. pendingCount[t] = 0
    BY <1>0, <1>1 DEF ScrapVehicle, ScrapCompliant, HasPendingChallans
  <2>2. UnsettledOf(t) = {}
    BY <1>1, <2>1, UnsettledFinite, FS_EmptySet DEF FullInv, ComplianceInv, CountsExact
  <2> QED
    BY <2>1, <2>2 DEF UnsettledOf
<1>5. UNCHANGED challanVars
  BY <1>4 DEF ScrapVehicle, CancelAllPendingChallans, challanVars
<1>6. /\ ownToPolicy' = ownToPolicy
      /\ \A p \in PolicyIds : policy'[p].ownTid = policy[p].ownTid
      /\ \A p \in PolicyIds : policy'[p].active => policy[p].active /\ policy[p].ownTid # t
  BY <1>0 DEF ScrapVehicle, TerminatePolicy, FullInv, ComplianceInv, OneCurrentDocument, PolicyRecord
<1>7. /\ ownToPUC' = ownToPUC
      /\ \A n \in CertIds : puc'[n].ownTid = puc[n].ownTid /\ puc'[n].passed = puc[n].passed
      /\ \A n \in CertIds : puc'[n].valid => puc[n].valid /\ puc[n].ownTid # t
  BY <1>0 DEF ScrapVehicle, TerminatePUC, FullInv, ComplianceInv, OneCurrentDocument, PUCRecord
<1>8. RegistersSound' /\ OneCurrentDocument'
  BY <1>5, <1>6, <1>7 DEF RegistersSound, OneCurrentDocument, challanVars, FullInv, ComplianceInv
<1>9. CountsExact'
  BY <1>5 DEF CountsExact, UnsettledOf, Unsettled, challanVars, FullInv, ComplianceInv
<1>10. ScrappedIsClean'
  <2>1. \A e \in Vehicles \ {d} : passport'[e] = passport[e] /\ authorizedScrap'[e] = authorizedScrap[e]
    BY <1>0 DEF ScrapVehicle, MarkScrapped
  <2>2. authorizedScrap'[d] = Nobody /\ IsLoanCleared(d)
    BY <1>0 DEF ScrapVehicle, ScrapCompliant, MarkScrapped
  <2>3. \A e \in Vehicles : IsLoanCleared(e)' <=> IsLoanCleared(e)
    BY <1>3 DEF IsLoanCleared, loanVars
  <2>4. ASSUME NEW e \in Vehicles, passport'[e].status = "SCRAPPED"
        PROVE  /\ dvpToOwn[e] # 0 /\ IsLoanCleared(e)
               /\ \A c \in ChallanIds : ~Unsettled(c, dvpToOwn[e])
               /\ \A p \in PolicyIds : policy'[p].ownTid = dvpToOwn[e] => ~policy'[p].active
               /\ \A n \in CertIds : puc'[n].ownTid = dvpToOwn[e] => ~puc'[n].valid
               /\ ~xfer[dvpToOwn[e]].exists /\ authorizedScrap'[e] = Nobody
    <3>1. CASE e = d
      BY <1>1, <1>2, <1>4, <1>6, <1>7, <2>2, <3>1
    <3>2. CASE e # d
      BY <1>6, <1>7, <2>1, <2>4, <3>2 DEF FullInv, ComplianceInv, ScrappedIsClean
    <3> QED
      BY <3>1, <3>2
  <2> QED
    BY <1>3, <1>5, <2>3, <2>4 DEF ScrappedIsClean, Unsettled, challanVars
<1> QED
  BY <1>8, <1>9, <1>10 DEF ComplianceInv

(* Administrators, trade certificates and time.                             *)
LEMMA OtherStepClean ==
    FullInv /\ (AdminStep \/ TradeCertStep \/ TimeStep \/ UNCHANGED vars) => ComplianceInv'
<1> SUFFICES ASSUME FullInv, AdminStep \/ TradeCertStep \/ TimeStep \/ UNCHANGED vars
             PROVE  ComplianceInv'
  OBVIOUS
<1>1. UNCHANGED <<dvpToOwn, own, xfer, passport, authorizedScrap, loan, dvpToLoan, challanCtr, challan,
                  pendingCount, policy, ownToPolicy, puc, ownToPUC>>
  <2> USE DEF ownershipVars, dvpVars, loanVars, challanVars, insuranceVars, pucVars, complianceVars
  <2>1. CASE AdminStep
    BY <2>1 DEF AdminStep, AdminRTO, AdminMfg, AdminScrapCentre, RegBank, ToggleBankStatus,
       AdminPolice, AdminInsurer, AdminCentre
  <2>2. CASE TradeCertStep \/ TimeStep \/ UNCHANGED vars
    BY <2>2 DEF TradeCertStep, IssueTradeCert, RevokeTradeCert, TimeStep, vars
  <2> QED
    BY <2>1, <2>2
<1>2. RegistersSound' /\ OneCurrentDocument' /\ CountsExact'
  BY <1>1 DEF FullInv, ComplianceInv, RegistersSound, OneCurrentDocument, CountsExact, UnsettledOf,
     Unsettled
<1>3. ScrappedIsClean'
  BY <1>1, StaysClean DEF NoneScrapped, NothingLent, IsLoanCleared, NothingAdded, Unsettled
<1> QED
  BY <1>2, <1>3 DEF ComplianceInv

(* Both halves of the invariant together are inductive.                     *)
LEMMA FullInductive == Spec => []FullInv
<1>1. Init => ComplianceInv
  BY InitComplianceInv
<1>2. IInv /\ ComplianceInv /\ [Next]_vars => ComplianceInv'
  BY DvpStepClean, TransferStepClean, LoanStepClean, ChallanStepClean, InsuranceStepClean,
     PUCStepClean, RegisterClean, ApproveClean, ScrapClean, OtherStepClean DEF Next, FullInv
<1>3. FullInv <=> IInv /\ ComplianceInv
  BY DEF FullInv
<1> QED
  BY <1>1, <1>2, <1>3, Inductive, PTL DEF Spec

(* A scrapped vehicle keeps no lien, fine, policy, certificate, transfer or *)
(* scrap authorisation, and gains none, whatever is called afterwards on    *)
(* the six contracts.                                                       *)
THEOREM ScrappedIsCleanAlways == Spec => []ScrappedIsClean
<1>1. FullInv => ScrappedIsClean
  BY DEF FullInv, ComplianceInv
<1> QED
  BY <1>1, FullInductive, PTL

(* A title has one policy and one emission certificate in force at most,    *)
(* and it is the one that ownToPolicy and ownToPUC name.                    *)
THEOREM OneCurrentDocumentAlways == Spec => []OneCurrentDocument
<1>1. FullInv => OneCurrentDocument
  BY DEF FullInv, ComplianceInv
<1> QED
  BY <1>1, FullInductive, PTL

-----------------------------------------------------------------------------
(* WHAT FINES ADD UP TO                                                     *)

(* What the fines of S come to.                                             *)
Owed(f, S) == MapThenSumSet(LAMBDA c : f[c].amount, S)

(* T adds up the amounts a over the subsets of 1 .. n.                      *)
AddsUp(T, a, n) ==
    /\ T \in [SUBSET (1 .. n) -> Nat]
    /\ T[{}] = 0
    /\ \A s \in SUBSET (1 .. n) : \A x \in s : T[s] = T[s \ {x}] + a[x]

(* A set of numbers that is not empty has a least one.                      *)
LEMMA LeastNat ==
    ASSUME NEW S \in SUBSET Nat, S # {}
    PROVE  \E m \in S : \A k \in S : m <= k
<1>1. PICK m \in S : \A k \in S : ~ (<<k, m>> \in OpToRel(<, Nat))
  BY NatLessThanWellFounded, WFMin
<1>2. \A k \in S : ~ (k < m)
  BY <1>1 DEF OpToRel
<1> QED
  BY <1>2

(* Any amounts can be added up: the least n whose subsets have no total     *)
(* would get one from n - 1, the set with n weighing a[n] more.             *)
LEMMA TotalExists ==
    ASSUME NEW N \in Nat, NEW a \in [1 .. N -> Nat]
    PROVE  \E T : AddsUp(T, a, N)
<1> DEFINE Bad == {n \in 0 .. N : ~ \E T : AddsUp(T, a, n)}
<1>1. SUFFICES ASSUME Bad # {} PROVE FALSE
  <2>1. N \notin Bad
    BY <1>1
  <2> QED
    BY <2>1
<1>2. PICK n \in Bad : \A k \in Bad : n <= k
  <2>1. Bad \in SUBSET Nat
    OBVIOUS
  <2> HIDE DEF Bad
  <2> QED
    BY <1>1, <2>1, LeastNat
<1>3. n # 0
  <2> DEFINE Z == [s \in SUBSET (1 .. 0) |-> 0]
  <2>1. 1 .. 0 = {}
    OBVIOUS
  <2>2. AddsUp(Z, a, 0)
    BY <2>1 DEF AddsUp
  <2> QED
    BY <2>2, <1>2
<1>4. PICK T : AddsUp(T, a, n - 1)
  BY <1>2, <1>3
<1> DEFINE U == [s \in SUBSET (1 .. n) |-> T[s \ {n}] + (IF n \in s THEN a[n] ELSE 0)]
<1>5. AddsUp(U, a, n)
  <2>0. n \in 1 .. N /\ a[n] \in Nat /\ (1 .. n) \ {n} = 1 .. (n - 1) /\ n \notin 1 .. (n - 1)
    BY <1>2, <1>3
  <2>1. \A s \in SUBSET (1 .. n) : s \ {n} \in SUBSET (1 .. (n - 1)) /\ T[s \ {n}] \in Nat
    BY <2>0, <1>4 DEF AddsUp
  <2>2. U \in [SUBSET (1 .. n) -> Nat]
    <3>1. ASSUME NEW s \in SUBSET (1 .. n)
          PROVE  T[s \ {n}] + (IF n \in s THEN a[n] ELSE 0) \in Nat
      <4>1. T[s \ {n}] \in Nat /\ a[n] \in Nat
        BY <2>0, <2>1
      <4>2. CASE n \in s
        BY <4>1, <4>2
      <4>3. CASE n \notin s
        BY <4>1, <4>3
      <4> QED
        BY <4>2, <4>3
    <3> QED
      BY <3>1
  <2>3. U[{}] = 0
    BY <1>4 DEF AddsUp
  <2>4. ASSUME NEW s \in SUBSET (1 .. n), NEW x \in s
        PROVE  U[s] = U[s \ {x}] + a[x]
    <3>1. s \ {x} \in SUBSET (1 .. n) /\ x \in 1 .. n
      OBVIOUS
    <3>2. CASE x = n
      <4>1. (s \ {x}) \ {n} = s \ {n} /\ n \notin s \ {x} /\ n \in s
        BY <3>2
      <4>2. U[s] = T[s \ {n}] + a[n] /\ U[s \ {x}] = T[s \ {n}] + 0
        BY <3>1, <4>1
      <4>3. T[s \ {n}] \in Nat
        BY <2>1
      <4> HIDE DEF U
      <4> QED
        BY <2>0, <3>2, <4>2, <4>3
    <3>3. CASE x # n
      <4>1. (s \ {x}) \ {n} = (s \ {n}) \ {x} /\ (n \in s \ {x} <=> n \in s) /\ x \in s \ {n}
        BY <3>3
      <4>2. T[s \ {n}] = T[(s \ {n}) \ {x}] + a[x]
        BY <1>4, <2>1, <4>1 DEF AddsUp
      <4> DEFINE e == IF n \in s THEN a[n] ELSE 0
                 b == T[(s \ {n}) \ {x}]
      <4>3. U[s] = T[s \ {n}] + e /\ U[s \ {x}] = b + e
        BY <3>1, <4>1
      <4>4. x \in 1 .. N /\ b \in Nat
        <5>1. b = T[(s \ {x}) \ {n}]
          BY <4>1
        <5>2. T[(s \ {x}) \ {n}] \in Nat
          BY <2>1, <3>1
        <5>3. x \in 1 .. N
          BY <2>0, <3>1
        <5> QED
          BY <5>1, <5>2, <5>3
      <4>5. a[x] \in Nat /\ e \in Nat
        BY <2>0, <4>4
      <4> HIDE DEF U, e, b
      <4>6. U[s] = (b + a[x]) + e
        BY <4>2, <4>3 DEF b
      <4> QED
        BY <4>3, <4>4, <4>5, <4>6
    <3> QED
      BY <3>2, <3>3
  <2> HIDE DEF U
  <2> QED
    BY <2>2, <2>3, <2>4 DEF AddsUp
<1> QED
  BY <1>2, <1>5

(* The sum the library computes, taking the members in an order of its own, *)
(* is that total: a smallest set on which they differ would differ from it  *)
(* without the member taken first.                                          *)
LEMMA SumIsTotal ==
    ASSUME NEW N \in Nat, NEW a \in [1 .. N -> Nat], NEW T, AddsUp(T, a, N), NEW f,
           NEW S \in SUBSET (1 .. N), \A x \in S : f[x].amount = a[x]
    PROVE  Owed(f, S) = T[S]
<1> DEFINE Step(g, s) == IF s = {} THEN 0
                         ELSE LET x == CHOOSE x \in s : TRUE IN f[x].amount + g[s \ {x}]
           Sums(g) == g = [s \in SUBSET S |-> Step(g, s)]
           iter == CHOOSE g : Sums(g)
<1>0. ASSUME NEW s \in SUBSET S, NEW y \in s PROVE T[s] = T[s \ {y}] + a[y]
  BY DEF AddsUp
<1>1. Owed(f, S) = iter[S]
  BY DEF Owed, MapThenSumSet, MapThenFoldSet
<1>2. Sums([s \in SUBSET S |-> T[s]])
  <2> DEFINE g == [s \in SUBSET S |-> T[s]]
  <2>1. ASSUME NEW s \in SUBSET S PROVE T[s] = Step(g, s)
    <3>1. CASE s = {}
      BY <3>1 DEF AddsUp
    <3>2. CASE s # {}
      <4> DEFINE x == CHOOSE x \in s : TRUE
      <4>1. x \in s /\ x \in 1 .. N /\ s \ {x} \in SUBSET S
        BY <3>2
      <4>2. f[x].amount = a[x] /\ g[s \ {x}] = T[s \ {x}]
        BY <4>1
      <4>4. T[s] = T[s \ {x}] + a[x]
        <5> HIDE DEF x
        <5> QED
          BY <1>0, <4>1
      <4>5. Step(g, s) = f[x].amount + g[s \ {x}]
        BY <3>2
      <4>6. a[x] \in Nat /\ T[s \ {x}] \in Nat
        BY <4>1 DEF AddsUp
      <4> HIDE DEF x, Step, g
      <4> QED
        BY <4>2, <4>4, <4>5, <4>6
    <3> QED
      BY <3>1, <3>2
  <2> QED
    BY <2>1
<1>3. iter = [s \in SUBSET S |-> Step(iter, s)]
  BY <1>2
<1> HIDE DEF iter
<1>4. \A n \in Nat : \A s \in SUBSET S : Cardinality(s) = n => iter[s] = T[s]
  <2> DEFINE Bad == {n \in Nat : \E s \in SUBSET S : Cardinality(s) = n /\ iter[s] # T[s]}
  <2>1. SUFFICES ASSUME Bad # {} PROVE FALSE
    OBVIOUS
  <2>2. PICK n \in Bad : \A k \in Bad : n <= k
    <3>1. Bad \in SUBSET Nat
      OBVIOUS
    <3> HIDE DEF Bad
    <3> QED
      BY <2>1, <3>1, LeastNat
  <2>3. PICK s \in SUBSET S : Cardinality(s) = n /\ iter[s] # T[s]
    BY <2>2
  <2>4. iter[s] = Step(iter, s)
    BY <1>3
  <2>5. s # {}
    BY <2>3, <2>4 DEF AddsUp
  <2> DEFINE x == CHOOSE x \in s : TRUE
  <2>6. x \in s
    BY <2>5
  <2>7. iter[s] = f[x].amount + iter[s \ {x}]
    BY <2>4, <2>5
  <2> HIDE DEF x, Step, iter
  <2>8. IsFiniteSet(s) /\ s \ {x} \in SUBSET S
    BY FS_Interval, FS_Subset, 0 \in Int, N \in Int, 1 \in Int
  <2>9. Cardinality(s \ {x}) \in Nat /\ Cardinality(s \ {x}) < n
    BY <2>3, <2>6, <2>8, FS_RemoveElement, FS_CardinalityType, FS_Subset
  <2>10. iter[s \ {x}] = T[s \ {x}]
    BY <2>2, <2>8, <2>9
  <2>11. T[s] = T[s \ {x}] + a[x]
    BY <1>0, <2>6
  <2>12. f[x].amount = a[x] /\ a[x] \in Nat /\ T[s \ {x}] \in Nat
    BY <2>6, <2>8 DEF AddsUp
  <2> QED
    BY <2>3, <2>7, <2>10, <2>11, <2>12
<1>5. IsFiniteSet(S)
  BY FS_Interval, FS_Subset, N \in Int, 1 \in Int
<1> QED
  BY <1>1, <1>4, <1>5, FS_CardinalityType

(* Fines of the same amounts come to the same, one fine more adds what it   *)
(* is for, and none come to nothing.                                        *)
LEMMA OwedSame ==
    ASSUME NEW N \in Nat, NEW f, NEW g, NEW S \in SUBSET (1 .. N),
           \A c \in 1 .. N : f[c].amount \in Nat, \A c \in S : g[c].amount = f[c].amount
    PROVE  Owed(g, S) = Owed(f, S)
<1> DEFINE a == [c \in 1 .. N |-> f[c].amount]
<1>1. a \in [1 .. N -> Nat] /\ \A c \in S : f[c].amount = a[c] /\ g[c].amount = a[c]
  OBVIOUS
<1> HIDE DEF a
<1>2. PICK T : AddsUp(T, a, N)
  BY <1>1, TotalExists
<1>3. Owed(f, S) = T[S]
  BY <1>1, <1>2, SumIsTotal
<1>4. Owed(g, S) = T[S]
  BY <1>1, <1>2, SumIsTotal
<1> QED
  BY <1>3, <1>4

LEMMA OwedOneMore ==
    ASSUME NEW N \in Nat, NEW f, NEW S \in SUBSET (1 .. N), NEW x \in S,
           \A c \in 1 .. N : f[c].amount \in Nat
    PROVE  /\ Owed(f, S) = Owed(f, S \ {x}) + f[x].amount
           /\ Owed(f, S \ {x}) \in Nat
<1> DEFINE a == [c \in 1 .. N |-> f[c].amount]
<1>1. /\ a \in [1 .. N -> Nat] /\ S \ {x} \in SUBSET (1 .. N) /\ a[x] = f[x].amount
      /\ \A c \in S : f[c].amount = a[c]
  OBVIOUS
<1> HIDE DEF a
<1>2. PICK T : AddsUp(T, a, N)
  BY <1>1, TotalExists
<1>3. Owed(f, S) = T[S]
  BY <1>1, <1>2, SumIsTotal
<1>4. \A c \in S \ {x} : f[c].amount = a[c]
  BY <1>1
<1>5. Owed(f, S \ {x}) = T[S \ {x}]
  BY <1>1, <1>2, <1>4, SumIsTotal
<1>6. T[S] = T[S \ {x}] + a[x]
  BY <1>2 DEF AddsUp
<1>7. T[S \ {x}] \in Nat
  BY <1>1, <1>2 DEF AddsUp
<1> QED
  BY <1>1, <1>3, <1>5, <1>6, <1>7

LEMMA OwedNothing ==
    ASSUME NEW f PROVE Owed(f, {}) = 0
<1> DEFINE a == [c \in 1 .. 0 |-> 0]
<1>1. a \in [1 .. 0 -> Nat] /\ 0 \in Nat /\ {} \in SUBSET (1 .. 0)
  OBVIOUS
<1>2. PICK T : AddsUp(T, a, 0)
  BY <1>1, TotalExists
<1>3. \A c \in {} : f[c].amount = a[c]
  OBVIOUS
<1> HIDE DEF a
<1>4. Owed(f, {}) = T[{}]
  BY <1>1, <1>2, <1>3, SumIsTotal
<1> QED
  BY <1>2, <1>4 DEF AddsUp

(* The second half of CountersExact.                                        *)
AmountsExact == \A t \in Tokens : pendingAmount[t] = Owed(challan, UnsettledOf(t))

LEMMA Fines ==
    ASSUME TypeOK
    PROVE  /\ MaxChallans \in Nat /\ challanCtr \in 0 .. MaxChallans
           /\ challan \in [ChallanIds -> ChallanRecord] /\ pendingAmount \in [Tokens -> Nat]
           /\ ChallanIds = 1 .. MaxChallans
           /\ \A c \in 1 .. MaxChallans : challan[c].amount \in Nat
           /\ \A t : UnsettledOf(t) \in SUBSET (1 .. MaxChallans)
<1>1. challan \in [ChallanIds -> ChallanRecord] /\ ChallanIds = 1 .. MaxChallans
  BY DEF TypeOK, ChallanTypeOK, ChallanIds
<1>2. \A r \in ChallanRecord : r.amount \in Nat
  <2>1. \A r \in ChallanRecord : r.amount \in Amounts \cup {0}
    BY DEF ChallanRecord
  <2>2. Amounts \cup {0} \subseteq Nat
    BY Constants
  <2> QED
    BY <2>1, <2>2
<1> QED
  BY <1>1, <1>2, Constants DEF TypeOK, ChallanTypeOK, UnsettledOf

LEMMA InitAmounts == Init => AmountsExact
<1> SUFFICES ASSUME Init PROVE AmountsExact
  OBVIOUS
<1>1. ASSUME NEW t \in Tokens PROVE UnsettledOf(t) = {} /\ pendingAmount[t] = 0
  BY <1>1 DEF Init, ChallanInit, UnsettledOf, Unsettled, NoChallan, Tokens
<1> QED
  BY <1>1, OwedNothing DEF AmountsExact

(* A fine adds what it is for to the title it is issued to.                 *)
LEMMA IssueChallanAmounts ==
    ASSUME FullInv, AmountsExact, NEW p \in PoliceStations, NEW t \in Tokens,
           NEW amount \in Amounts, IssueChallan(p, t, amount)
    PROVE  AmountsExact'
<1> DEFINE n == challanCtr'
<1>0. TypeOK
  BY DEF FullInv, IInv
<1>1. n \in ChallanIds /\ n = challanCtr + 1
  BY <1>0, Fines DEF IssueChallan
<1>2. /\ challan'[n] = [ownTid |-> t, police |-> p, amount |-> amount,
                        isPaid |-> FALSE, isCancelled |-> FALSE]
      /\ \A c \in ChallanIds \ {n} : challan'[c] = challan[c]
  BY <1>0, <1>1, Fines DEF IssueChallan
<1>3. challan[n].ownTid = 0 /\ amount \in Nat
  BY <1>0, <1>1, Fines, Constants DEF FullInv, ComplianceInv, RegistersSound
<1>4. ASSUME NEW c \in 1 .. MaxChallans PROVE challan'[c].amount \in Nat
  <2>1. CASE c = n
    BY <1>2, <1>3, <2>1
  <2>2. CASE c # n
    BY <1>0, <1>2, <2>2, Fines
  <2> QED
    BY <2>1, <2>2
<1>5. ASSUME NEW s \in Tokens
      PROVE  /\ n \notin UnsettledOf(s)
             /\ UnsettledOf(s)' = IF s = t THEN UnsettledOf(s) \cup {n} ELSE UnsettledOf(s)
  <2>1. ~Unsettled(n, s)
    BY <1>3 DEF Unsettled, Tokens
  <2>2. ASSUME NEW c \in ChallanIds
        PROVE  Unsettled(c, s)' <=> Unsettled(c, s) \/ (c = n /\ s = t)
    BY <1>1, <1>2, <2>1 DEF Unsettled
  <2> HIDE DEF n
  <2> QED
    BY <1>1, <2>1, <2>2 DEF UnsettledOf
<1>6. ASSUME NEW s \in Tokens
      PROVE  Owed(challan', UnsettledOf(s)) = pendingAmount[s]
  <2>1. \A c \in UnsettledOf(s) : challan'[c].amount = challan[c].amount
    BY <1>2, <1>5 DEF UnsettledOf
  <2>2. Owed(challan', UnsettledOf(s)) = Owed(challan, UnsettledOf(s))
    <3>1. /\ MaxChallans \in Nat /\ UnsettledOf(s) \in SUBSET (1 .. MaxChallans)
          /\ \A c \in 1 .. MaxChallans : challan[c].amount \in Nat
      BY <1>0, Fines
    <3> QED
      BY <2>1, <3>1, OwedSame
  <2> QED
    BY <2>2 DEF AmountsExact
<1>7. ASSUME NEW s \in Tokens PROVE pendingAmount'[s] = Owed(challan', UnsettledOf(s)')
  <2>1. CASE s # t
    BY <1>0, <1>5, <1>6, <2>1, Fines DEF IssueChallan
  <2>2. CASE s = t
    <3> DEFINE S == UnsettledOf(s) \cup {n}
    <3>1. S \in SUBSET (1 .. MaxChallans) /\ n \in S /\ S \ {n} = UnsettledOf(s)
      BY <1>0, <1>1, <1>5, Fines
    <3>2. UnsettledOf(s)' = S /\ challan'[n].amount = amount
      BY <1>2, <1>5, <2>2
    <3> HIDE DEF S, n
    <3>3. Owed(challan', S) = Owed(challan', S \ {n}) + challan'[n].amount
      <4>1. MaxChallans \in Nat
        BY Constants
      <4> QED
        BY <1>4, <3>1, <4>1, OwedOneMore
    <3>4. pendingAmount'[s] = pendingAmount[s] + amount
      BY <1>0, <2>2, Fines DEF IssueChallan
    <3> QED
      BY <1>6, <3>1, <3>2, <3>3, <3>4
  <2> QED
    BY <2>1, <2>2
<1> QED
  BY <1>7 DEF AmountsExact

(* A fine that is paid or withdrawn takes what it was for off its title;    *)
(* the total was no smaller, so the clamp of the decrement does not apply.  *)
LEMMA SettleAmounts ==
    ASSUME FullInv, AmountsExact, NEW t \in Tokens, NEW c \in ChallanIds, Unsettled(c, t),
           SettleCounters(c, t),
           \/ challan' = [challan EXCEPT ![c].isPaid = TRUE]
           \/ challan' = [challan EXCEPT ![c].isCancelled = TRUE]
    PROVE  AmountsExact'
<1>0. TypeOK
  BY DEF FullInv, IInv
<1>1. /\ \A e \in ChallanIds \ {c} : challan'[e] = challan[e]
      /\ challan'[c].ownTid = t /\ (challan'[c].isPaid \/ challan'[c].isCancelled)
      /\ challan'[c].amount = challan[c].amount
  <2>1. CASE challan' = [challan EXCEPT ![c].isPaid = TRUE]
    BY <1>0, <2>1, Fines DEF Unsettled, ChallanRecord
  <2>2. CASE challan' = [challan EXCEPT ![c].isCancelled = TRUE]
    BY <1>0, <2>2, Fines DEF Unsettled, ChallanRecord
  <2> QED
    BY <2>1, <2>2
<1>2. ASSUME NEW s \in Tokens
      PROVE  /\ UnsettledOf(s)' = UnsettledOf(s) \ {c}
             /\ c \in UnsettledOf(s) <=> s = t
  <2>1. \A e \in ChallanIds : Unsettled(e, s)' <=> Unsettled(e, s) /\ e # c
    BY <1>1 DEF Unsettled
  <2>2. Unsettled(c, s) <=> s = t
    BY DEF Unsettled
  <2> QED
    BY <2>1, <2>2 DEF UnsettledOf
<1>3. ASSUME NEW s \in Tokens
      PROVE  Owed(challan', UnsettledOf(s)') = Owed(challan, UnsettledOf(s)')
  <2>1. UnsettledOf(s)' \in SUBSET (1 .. MaxChallans)
    BY <1>0, <1>2, Fines
  <2>2. \A e \in UnsettledOf(s)' : challan'[e].amount = challan[e].amount
    BY <1>0, <1>1, <2>1, Fines
  <2> QED
    BY <1>0, <2>1, <2>2, Fines, OwedSame
<1>4. ASSUME NEW s \in Tokens PROVE pendingAmount'[s] = Owed(challan, UnsettledOf(s)')
  <2>1. CASE s # t
    <3>1. UnsettledOf(s)' = UnsettledOf(s)
      BY <1>2, <2>1
    <3>2. pendingAmount'[s] = pendingAmount[s]
      BY <1>0, <2>1, Fines DEF SettleCounters
    <3> QED
      BY <3>1, <3>2 DEF AmountsExact
  <2>2. CASE s = t
    <3>1. UnsettledOf(s) \in SUBSET (1 .. MaxChallans) /\ c \in UnsettledOf(s)
      BY <1>0, <1>2, <2>2, Fines
    <3>2. /\ Owed(challan, UnsettledOf(s)) = Owed(challan, UnsettledOf(s) \ {c}) + challan[c].amount
          /\ Owed(challan, UnsettledOf(s) \ {c}) \in Nat
      BY <1>0, <3>1, Fines, OwedOneMore
    <3>3. pendingAmount'[s] = Decremented(pendingAmount[s], challan[c].amount)
      BY <1>0, <2>2, Fines DEF SettleCounters
    <3>4. pendingAmount[s] = Owed(challan, UnsettledOf(s)) /\ challan[c].amount \in Nat
      BY <1>0, Fines DEF AmountsExact
    <3>5. Decremented(pendingAmount[s], challan[c].amount) = Owed(challan, UnsettledOf(s) \ {c})
      BY <3>2, <3>4 DEF Decremented
    <3> QED
      BY <1>2, <3>3, <3>5
  <2> QED
    BY <2>1, <2>2
<1> QED
  BY <1>3, <1>4 DEF AmountsExact

(* Scrapping asks for a title without pending fines, so the cancellation of *)
(* all of them that it goes on to call finds none.                          *)
LEMMA ScrapFindsNoFine == FullInv /\ ScrapStep => UNCHANGED challanVars
<1> SUFFICES ASSUME FullInv, NEW s \in ScrapCentres, NEW d \in Vehicles, ScrapVehicle(s, d)
             PROVE  UNCHANGED challanVars
  BY DEF ScrapStep
<1>1. pendingCount \in [Tokens -> Nat] /\ dvpToOwn[d] \in Tokens
  BY TitleOf DEF FullInv, IInv, TypeOK, ChallanTypeOK, ScrapVehicle, IsRegistered
<1>2. pendingCount[dvpToOwn[d]] = 0
  BY <1>1 DEF ScrapVehicle, ScrapCompliant, HasPendingChallans
<1> QED
  BY <1>2 DEF ScrapVehicle, CancelAllPendingChallans, challanVars

(* Nothing else touches the fines: scrapping finds none to cancel.          *)
LEMMA NextAmounts == FullInv /\ AmountsExact /\ [Next]_vars => AmountsExact'
<1> SUFFICES ASSUME FullInv, AmountsExact, [Next]_vars PROVE AmountsExact'
  OBVIOUS
<1>1. CASE ChallanStep
  <2>1. ASSUME NEW t \in Tokens, NEW p \in PoliceStations, NEW amount \in Amounts,
               IssueChallan(p, t, amount)
        PROVE  AmountsExact'
    BY <2>1, IssueChallanAmounts
  <2>2. ASSUME NEW t \in Tokens, NEW c \in ChallanIds,
               \/ \E p \in PoliceStations : PayChallan(p, t, c) \/ CancelChallan(p, t, c)
               \/ AdminCancelChallan(t, c)
        PROVE  AmountsExact'
    BY <2>2, SettleAmounts DEF PayChallan, CancelChallan, AdminCancelChallan
  <2> QED
    BY <1>1, <2>1, <2>2 DEF ChallanStep
<1>2. CASE ~ChallanStep
  <2>1. UNCHANGED <<challan, pendingAmount>>
    <3>1. CASE ScrapStep
      BY <3>1, ScrapFindsNoFine DEF challanVars
    <3>2. CASE ~ScrapStep
      <4> USE DEF ownershipVars, dvpVars, loanVars, challanVars, insuranceVars, pucVars,
                  complianceVars
      <4>1. CASE AdminStep
        BY <4>1 DEF AdminStep, AdminPolice
      <4>2. CASE DvpStep \/ TransferStep \/ TradeCertStep \/ LoanStep \/ TimeStep \/ UNCHANGED vars
        BY <4>2 DEF DvpStep, TransferStep, TradeCertStep, LoanStep, TimeStep, vars
      <4>3. CASE InsuranceStep \/ PUCStep
        BY <4>3 DEF InsuranceStep, PUCStep
      <4>4. CASE RegisterStep \/ ApproveStep
        BY <4>4 DEF RegisterStep, ApproveStep, Register, ApproveTransfer
      <4> QED
        BY <1>2, <3>2, <4>1, <4>2, <4>3, <4>4 DEF Next
    <3> QED
      BY <3>1, <3>2
  <2> QED
    BY <2>1 DEF AmountsExact, UnsettledOf, Unsettled
<1> QED
  BY <1>1, <1>2

(* pendingChallanCount, which approveTransfer and scrapVehicle read in      *)
(* place of the list, and pendingAmount, which nothing recomputes, are the  *)
(* number and the total of the title's unsettled fines, and the clamped     *)
(* decrements of payChallan and of the cancellations never hide a           *)
(* difference.                                                              *)
THEOREM CountersExactAlways == Spec => []CountersExact
<1>1. Spec => []AmountsExact
  BY InitAmounts, NextAmounts, FullInductive, PTL DEF Spec
<1>2. FullInv /\ AmountsExact => CountersExact
  BY DEF FullInv, ComplianceInv, AmountsExact, CountersExact, Owed
<1> QED
  BY <1>1, <1>2, FullInductive, PTL

-----------------------------------------------------------------------------
(* AS DEPLOYED, NO LOAN IS EVER ATTACHED TO A TRANSFER                      *)

NothingAttached == \A t \in Tokens : ~xfer[t].hasPendingLoan

(* Only attachPendingLoan sets the flag, and LoanContract may not call it.  *)
LEMMA NothingAttachedNext ==
    ASSUME SystemGrants = DeployGrants, TypeOK, NothingAttached, [Next]_vars
    PROVE  NothingAttached'
<1>0. xfer \in [Tokens -> XferRecord]
  BY DEF TypeOK, OwnershipTypeOK
<1>1. SUFFICES ASSUME xfer' # xfer PROVE NothingAttached'
  BY DEF NothingAttached
<1>2. ~HasSystemRole("ownership", "loan")
  BY DEF HasSystemRole, DeployGrants
<1>3. ASSUME NEW t \in Tokens, DeleteXfer(t) PROVE NothingAttached'
  BY <1>0, <1>3 DEF DeleteXfer, NoXfer, NothingAttached
<1>4. CASE TransferStep
  <2>1. ASSUME NEW t \in Tokens, NEW u \in Users, NEW b \in Users, InitTransfer(u, t, b)
        PROVE  NothingAttached'
    BY <1>0, <2>1 DEF InitTransfer, NothingAttached
  <2>2. ASSUME NEW t \in Tokens, NEW b \in Users, AcceptTransfer(b, t) PROVE NothingAttached'
    BY <1>0, <2>2 DEF AcceptTransfer, NothingAttached, XferRecord
  <2>3. ASSUME NEW t \in Tokens, NEW c, CancelTransfer(c, t) PROVE NothingAttached'
    BY <1>3, <2>3 DEF CancelTransfer
  <2> QED
    BY <1>4, <2>1, <2>2, <2>3 DEF TransferStep
<1>5. CASE LoanStep
  BY <1>1, <1>2, <1>5 DEF LoanStep, RegisterNewCarLoan, RegisterUsedCarLoan, RegisterTitleLoan,
     CancelPendingLoan, RefinanceLoan, IssueNOC, AttachPendingLoan, DetachPendingLoan, ownershipVars
<1>6. CASE ApproveStep
  BY <1>3, <1>6 DEF ApproveStep, ApproveTransfer, MoveTitle
<1>7. CASE ScrapStep
  <2>1. PICK s \in ScrapCentres, d \in Vehicles : ScrapVehicle(s, d)
    BY <1>7 DEF ScrapStep
  <2>2. dvpToOwn[d] \in Tokens
    BY <2>1, Constants DEF ScrapVehicle, TypeOK, OwnershipTypeOK, Tokens
  <2> QED
    BY <1>1, <1>3, <2>1, <2>2 DEF ScrapVehicle, DeactivateVehicle
<1>8. CASE ~(TransferStep \/ LoanStep \/ ApproveStep \/ ScrapStep)
  <2> USE DEF ownershipVars
  <2>1. CASE AdminStep
    BY <1>1, <2>1 DEF AdminStep, AdminRTO
  <2>2. CASE DvpStep \/ TimeStep \/ UNCHANGED vars
    BY <1>1, <2>2 DEF DvpStep, TimeStep, vars
  <2>3. CASE TradeCertStep
    BY <1>1, <2>3 DEF TradeCertStep, IssueTradeCert, RevokeTradeCert
  <2>4. CASE ChallanStep \/ InsuranceStep \/ PUCStep
    BY <1>1, <2>4 DEF ChallanStep, InsuranceStep, PUCStep
  <2>5. CASE RegisterStep
    BY <1>1, <2>5 DEF RegisterStep, Register, MintTitle
  <2> QED
    BY <1>8, <2>1, <2>2, <2>3, <2>4, <2>5 DEF Next
<1> QED
  BY <1>4, <1>5, <1>6, <1>7, <1>8

(* With the roles that Deploy.s.sol grants, whatever is called in whatever  *)
(* order, no transfer ever carries a loan: what the run `deployed` shows    *)
(* for one vehicle and one bank.                                            *)
THEOREM NothingAttachedAsDeployed ==
    ASSUME SystemGrants = DeployGrants
    PROVE  Spec => []NothingAttached
<1>1. Init => NothingAttached
  BY DEF Init, OwnershipInit, NoXfer, NothingAttached
<1>2. TypeOK /\ NothingAttached /\ [Next]_vars => NothingAttached'
  BY NothingAttachedNext
<1> QED
  BY <1>1, <1>2, TypeCorrect, PTL DEF Spec

-----------------------------------------------------------------------------
(* THE CONTRACTS IMPLEMENT THE LEDGER OF TITLES                             *)

(* What the ledger sees of a vehicle does not change while its title and    *)
(* its request do not.                                                      *)
SameTitle(e) ==
    /\ TitleState(e)' = TitleState(e) /\ CurrentOwner(e)' = CurrentOwner(e)
    /\ StandingOffer(e)' = StandingOffer(e)

(* A step in which no vehicle's title or offer changes is a stutter of the  *)
(* ledger.                                                                  *)
LEMMA LedgerStutter ==
    ASSUME \A e \in Vehicles : SameTitle(e)
    PROVE  UNCHANGED Ledger!ledgerVars
BY DEF SameTitle, Ledger!ledgerVars

(* A vehicle whose pointer, title and request a step leaves alone.          *)
LEMMA SameTitleBy ==
    ASSUME NEW e \in Vehicles, dvpToOwn'[e] = dvpToOwn[e],
           IsRegistered(e) =>
             LET t == dvpToOwn[e] IN
             /\ own'[t].active = own[t].active /\ own'[t].owner = own[t].owner
             /\ hasXfer'[t] = hasXfer[t]
             /\ xfer'[t].buyer = xfer[t].buyer /\ xfer'[t].buyerOK = xfer[t].buyerOK
    PROVE  SameTitle(e)
BY DEF SameTitle, TitleState, CurrentOwner, StandingOffer, HasActiveXfer, IsRegistered

(* Steps that write no title and leave who buys, and who agreed, as it was. *)
LEMMA LedgerFrame ==
    ASSUME IInv, UNCHANGED <<own, dvpToOwn, hasXfer>>,
           \A t \in Tokens : xfer'[t].buyer = xfer[t].buyer /\ xfer'[t].buyerOK = xfer[t].buyerOK
    PROVE  UNCHANGED Ledger!ledgerVars
<1>1. \A e \in Vehicles : SameTitle(e)
  BY TitleOf, SameTitleBy
<1> QED
  BY <1>1, LedgerStutter

(* A step that writes the request of one title only changes the offer of    *)
(* its vehicle only.                                                        *)
LEMMA RequestOfOne ==
    ASSUME IInv, UNCHANGED <<own, dvpToOwn>>, NEW t \in Tokens, own[t].active,
           NEW d \in Vehicles, d = own[t].dvp,
           \A s \in Tokens \ {t} : xfer'[s] = xfer[s] /\ hasXfer'[s] = hasXfer[s]
    PROVE  /\ TitleState(d) = "held" /\ CurrentOwner(d) = own[t].owner
           /\ StandingOffer(d) = IF hasXfer[t]
                                 THEN [buyer |-> xfer[t].buyer, agreed |-> xfer[t].buyerOK]
                                 ELSE [buyer |-> Nobody, agreed |-> FALSE]
           /\ StandingOffer(d)' = IF hasXfer'[t]
                                  THEN [buyer |-> xfer'[t].buyer, agreed |-> xfer'[t].buyerOK]
                                  ELSE [buyer |-> Nobody, agreed |-> FALSE]
           /\ TitleState(d)' = TitleState(d) /\ CurrentOwner(d)' = CurrentOwner(d)
           /\ \A e \in Vehicles \ {d} : SameTitle(e)
<1>1. dvpToOwn[d] = t /\ t # 0
  BY ActiveTitle DEF Tokens
<1>2. ASSUME NEW e \in Vehicles \ {d} PROVE SameTitle(e)
  <2>1. IsRegistered(e) => dvpToOwn[e] \in Tokens \ {t}
    BY <1>2, TitleOf
  <2> QED
    BY <2>1, SameTitleBy
<1>3. /\ TitleState(d) = "held" /\ CurrentOwner(d) = own[t].owner
      /\ TitleState(d)' = TitleState(d) /\ CurrentOwner(d)' = CurrentOwner(d)
  BY <1>1 DEF TitleState, CurrentOwner, IsRegistered
<1>4. StandingOffer(d) = IF hasXfer[t]
                         THEN [buyer |-> xfer[t].buyer, agreed |-> xfer[t].buyerOK]
                         ELSE [buyer |-> Nobody, agreed |-> FALSE]
  BY <1>1 DEF StandingOffer, HasActiveXfer, IsRegistered
<1>5. StandingOffer(d)' = IF hasXfer'[t]
                          THEN [buyer |-> xfer'[t].buyer, agreed |-> xfer'[t].buyerOK]
                          ELSE [buyer |-> Nobody, agreed |-> FALSE]
  BY <1>1 DEF StandingOffer, HasActiveXfer, IsRegistered
<1> QED
  BY <1>2, <1>3, <1>4, <1>5

(* A step that concerns one vehicle updates the ledger at that vehicle.     *)
LEMMA LedgerUpdate ==
    ASSUME NEW d \in Vehicles, \A e \in Vehicles \ {d} : SameTitle(e)
    PROVE  /\ [e \in Vehicles |-> TitleState(e)]' =
                 [[e \in Vehicles |-> TitleState(e)] EXCEPT ![d] = TitleState(d)']
           /\ [e \in Vehicles |-> CurrentOwner(e)]' =
                 [[e \in Vehicles |-> CurrentOwner(e)] EXCEPT ![d] = CurrentOwner(d)']
           /\ [e \in Vehicles |-> StandingOffer(e)]' =
                 [[e \in Vehicles |-> StandingOffer(e)] EXCEPT ![d] = StandingOffer(d)']
           /\ TitleState(d)' = TitleState(d) => UNCHANGED [e \in Vehicles |-> TitleState(e)]
           /\ CurrentOwner(d)' = CurrentOwner(d) => UNCHANGED [e \in Vehicles |-> CurrentOwner(e)]
           /\ StandingOffer(d)' = StandingOffer(d) => UNCHANGED [e \in Vehicles |-> StandingOffer(e)]
<1> /\ \A e \in Vehicles \ {d} : TitleState(e)' = TitleState(e)
    /\ \A e \in Vehicles \ {d} : CurrentOwner(e)' = CurrentOwner(e)
    /\ \A e \in Vehicles \ {d} : StandingOffer(e)' = StandingOffer(e)
  BY DEF SameTitle
<1>1. /\ [e \in Vehicles |-> TitleState(e)]' =
            [[e \in Vehicles |-> TitleState(e)] EXCEPT ![d] = TitleState(d)']
      /\ TitleState(d)' = TitleState(d) => UNCHANGED [e \in Vehicles |-> TitleState(e)]
  OBVIOUS
<1>2. /\ [e \in Vehicles |-> CurrentOwner(e)]' =
            [[e \in Vehicles |-> CurrentOwner(e)] EXCEPT ![d] = CurrentOwner(d)']
      /\ CurrentOwner(d)' = CurrentOwner(d) => UNCHANGED [e \in Vehicles |-> CurrentOwner(e)]
  OBVIOUS
<1>3. /\ [e \in Vehicles |-> StandingOffer(e)]' =
            [[e \in Vehicles |-> StandingOffer(e)] EXCEPT ![d] = StandingOffer(d)']
      /\ StandingOffer(d)' = StandingOffer(d) => UNCHANGED [e \in Vehicles |-> StandingOffer(e)]
  OBVIOUS
<1> QED
  BY <1>1, <1>2, <1>3

(* Making, agreeing to and withdrawing an offer.                            *)
LEMMA TransferRefines == IInv /\ TransferStep => [Ledger!LedgerNext]_(Ledger!ledgerVars)
<1> SUFFICES ASSUME IInv, TransferStep PROVE [Ledger!LedgerNext]_(Ledger!ledgerVars)
  OBVIOUS
<1>0. xfer \in [Tokens -> XferRecord] /\ hasXfer \in [Tokens -> BOOLEAN]
  BY DEF IInv, TypeOK, OwnershipTypeOK
<1> USE DEF Ledger!NoOffer
<1>1. ASSUME NEW t \in Tokens, NEW u \in Users, NEW b \in Users, InitTransfer(u, t, b)
      PROVE  Ledger!LedgerNext
  <2>1. own[t].active /\ own[t].owner = u /\ b # u /\ ~hasXfer[t]
    BY <1>1, ActiveTitle DEF InitTransfer, MayOffer
  <2>2. /\ UNCHANGED <<own, dvpToOwn>> /\ hasXfer'[t] = TRUE
        /\ xfer'[t].buyer = b /\ xfer'[t].buyerOK = FALSE
        /\ \A s \in Tokens \ {t} : xfer'[s] = xfer[s] /\ hasXfer'[s] = hasXfer[s]
    BY <1>0, <1>1 DEF InitTransfer
  <2>d. PICK d \in Vehicles : d = own[t].dvp
    BY <2>1, ActiveTitle
  <2>3. /\ TitleState(d) = "held" /\ CurrentOwner(d) = u
        /\ StandingOffer(d) = [buyer |-> Nobody, agreed |-> FALSE]
        /\ StandingOffer(d)' = [buyer |-> b, agreed |-> FALSE]
        /\ TitleState(d)' = TitleState(d) /\ CurrentOwner(d)' = CurrentOwner(d)
        /\ \A e \in Vehicles \ {d} : SameTitle(e)
    BY <2>d, <2>1, <2>2, RequestOfOne
  <2>4. Ledger!MakeOffer(d, b)
    BY <2>1, <2>3, LedgerUpdate DEF Ledger!MakeOffer
  <2> QED
    BY <2>3, <2>4 DEF Ledger!LedgerNext
<1>2. ASSUME NEW t \in Tokens, NEW b \in Users, AcceptTransfer(b, t)
      PROVE  Ledger!LedgerNext
  <2>1. own[t].active /\ hasXfer[t] /\ xfer[t].buyer \in Users
    BY <1>2 DEF AcceptTransfer, IInv, TitleInv, FlagsSound, TransferCurrent
  <2>2. /\ UNCHANGED <<own, dvpToOwn, hasXfer>>
        /\ xfer'[t].buyer = xfer[t].buyer /\ xfer'[t].buyerOK = TRUE
        /\ \A s \in Tokens \ {t} : xfer'[s] = xfer[s] /\ hasXfer'[s] = hasXfer[s]
    BY <1>0, <1>2 DEF AcceptTransfer, XferRecord
  <2>d. PICK d \in Vehicles : d = own[t].dvp
    BY <2>1, ActiveTitle
  <2>3. /\ StandingOffer(d) = [buyer |-> xfer[t].buyer, agreed |-> xfer[t].buyerOK]
        /\ StandingOffer(d)' = [buyer |-> xfer[t].buyer, agreed |-> TRUE]
        /\ TitleState(d)' = TitleState(d) /\ CurrentOwner(d)' = CurrentOwner(d)
        /\ \A e \in Vehicles \ {d} : SameTitle(e)
    BY <2>d, <2>1, <2>2, RequestOfOne
  <2>4. StandingOffer(d) # [buyer |-> Nobody, agreed |-> FALSE]
    BY <2>1, <2>3, Constants
  <2>5. Ledger!Agree(d)
    <3> DEFINE offers == [e \in Vehicles |-> StandingOffer(e)]
    <3>1. offers[d].buyer = xfer[t].buyer /\ StandingOffer(d)' = [buyer |-> xfer[t].buyer, agreed |-> TRUE]
      BY <2>3
    <3>2. offers' = [offers EXCEPT ![d] = StandingOffer(d)']
      BY <2>3, LedgerUpdate
    <3>3. offers' = [offers EXCEPT ![d] = [buyer |-> offers[d].buyer, agreed |-> TRUE]]
      <4> HIDE DEF offers
      <4> QED
        BY <3>1, <3>2
    <3>4. UNCHANGED [e \in Vehicles |-> TitleState(e)] /\ UNCHANGED [e \in Vehicles |-> CurrentOwner(e)]
      BY <2>3, LedgerUpdate
    <3> QED
      BY <2>4, <3>3, <3>4 DEF Ledger!Agree
  <2> QED
    BY <2>3, <2>5 DEF Ledger!LedgerNext
<1>3. ASSUME NEW t \in Tokens, NEW c, CancelTransfer(c, t)
      PROVE  Ledger!LedgerNext
  <2>1. own[t].active
    BY <1>3 DEF CancelTransfer, IInv, TitleInv, TransferCurrent
  <2>2. /\ UNCHANGED <<own, dvpToOwn>> /\ hasXfer'[t] = FALSE
        /\ \A s \in Tokens \ {t} : xfer'[s] = xfer[s] /\ hasXfer'[s] = hasXfer[s]
    BY <1>0, <1>3 DEF CancelTransfer, DeleteXfer
  <2>d. PICK d \in Vehicles : d = own[t].dvp
    BY <2>1, ActiveTitle
  <2>3. /\ StandingOffer(d)' = [buyer |-> Nobody, agreed |-> FALSE]
        /\ TitleState(d)' = TitleState(d) /\ CurrentOwner(d)' = CurrentOwner(d)
        /\ \A e \in Vehicles \ {d} : SameTitle(e)
    BY <2>d, <2>1, <2>2, RequestOfOne
  <2>4. Ledger!Withdraw(d)
    BY <2>3, LedgerUpdate DEF Ledger!Withdraw
  <2> QED
    BY <2>3, <2>4 DEF Ledger!LedgerNext
<1> QED
  BY <1>1, <1>2, <1>3 DEF TransferStep

(* Registration grants the title: the token minted has no request, because  *)
(* none is made on a title above the counter.                               *)
LEMMA RegisterRefines == IInv /\ RegisterStep => Ledger!LedgerNext
<1> SUFFICES ASSUME IInv, NEW r \in RTOs, NEW d \in Vehicles, NEW u \in Users,
                    NEW dl \in Dealers, Register(r, d, u, dl)
             PROVE  Ledger!LedgerNext
  BY DEF RegisterStep
<1> DEFINE n == tokenCtr + 1
<1>0. /\ own \in [Tokens -> OwnRecord] /\ dvpToOwn \in [Vehicles -> 0 .. MaxTokens]
      /\ ~IsRegistered(d) /\ UNCHANGED <<xfer, hasXfer>>
  BY DEF IInv, TypeOK, OwnershipTypeOK, Register, MayRegister, MintTitle
<1>1. n \in Tokens /\ n # 0 /\ n > tokenCtr
  BY TitlesMinted DEF Register, MintTitle, Tokens
<1>2. ~hasXfer[n]
  <2>1. own[n] = NoOwn
    BY <1>1 DEF IInv, TitleInv, PointersSound
  <2> QED
    BY <1>1, <2>1 DEF IInv, TitleInv, TransferCurrent, NoOwn
<1>3. /\ dvpToOwn'[d] = n /\ own'[n].active /\ own'[n].owner = u
      /\ \A e \in Vehicles \ {d} : dvpToOwn'[e] = dvpToOwn[e]
      /\ \A t \in Tokens \ {n} : own'[t] = own[t]
  BY <1>0, <1>1 DEF Register, MintTitle
<1>4. ASSUME NEW e \in Vehicles \ {d} PROVE SameTitle(e)
  <2>1. IsRegistered(e) => dvpToOwn[e] \in Tokens \ {n}
    BY <1>1, <1>4, TitleOf, TitlesMinted
  <2> QED
    BY <1>0, <1>3, <2>1, SameTitleBy
<1>5. /\ TitleState(d) = "untitled" /\ TitleState(d)' = "held" /\ CurrentOwner(d)' = u
      /\ StandingOffer(d)' = StandingOffer(d)
  BY <1>0, <1>1, <1>2, <1>3 DEF TitleState, CurrentOwner, StandingOffer, HasActiveXfer, IsRegistered
<1>6. Ledger!Grant(d, u)
  BY <1>4, <1>5, LedgerUpdate DEF Ledger!Grant
<1> QED
  BY <1>6 DEF Ledger!LedgerNext

(* An approval conveys the title to the buyer who agreed.                   *)
LEMMA ApproveRefines == IInv /\ ApproveStep => Ledger!LedgerNext
<1> SUFFICES ASSUME IInv, NEW r \in RTOs, NEW t \in Tokens, ApproveTransfer(r, t)
             PROVE  Ledger!LedgerNext
  BY DEF ApproveStep
<1>0. /\ own \in [Tokens -> OwnRecord] /\ xfer \in [Tokens -> XferRecord]
      /\ hasXfer \in [Tokens -> BOOLEAN] /\ UNCHANGED dvpToOwn
  BY DEF IInv, TypeOK, OwnershipTypeOK, ApproveTransfer, MoveTitle
<1>1. xfer[t].exists /\ own[t].active /\ hasXfer[t] /\ xfer[t].buyerOK
  BY DEF ApproveTransfer, MayApprove, IInv, TitleInv, FlagsSound, TransferCurrent
<1>2. PICK d \in Vehicles : d = own[t].dvp /\ dvpToOwn[d] = t /\ t # 0
  BY <1>1, ActiveTitle DEF Tokens
<1>3. /\ own'[t].active /\ own'[t].owner = xfer[t].buyer /\ hasXfer'[t] = FALSE
      /\ \A s \in Tokens \ {t} : own'[s] = own[s] /\ xfer'[s] = xfer[s] /\ hasXfer'[s] = hasXfer[s]
  BY <1>0, <1>1 DEF ApproveTransfer, MoveTitle, DeleteXfer, OwnRecord
<1>4. ASSUME NEW e \in Vehicles \ {d} PROVE SameTitle(e)
  <2>1. IsRegistered(e) => dvpToOwn[e] \in Tokens \ {t}
    BY <1>2, <1>4, TitleOf
  <2> QED
    BY <1>0, <1>3, <2>1, SameTitleBy
<1>5. /\ TitleState(d) = "held" /\ TitleState(d)' = TitleState(d)
      /\ StandingOffer(d) = [buyer |-> xfer[t].buyer, agreed |-> xfer[t].buyerOK]
      /\ StandingOffer(d)' = [buyer |-> Nobody, agreed |-> FALSE]
      /\ CurrentOwner(d)' = xfer[t].buyer
  BY <1>0, <1>1, <1>2, <1>3 DEF TitleState, CurrentOwner, StandingOffer, HasActiveXfer, IsRegistered
<1>6. Ledger!Convey(d)
  <2> DEFINE offers  == [e \in Vehicles |-> StandingOffer(e)]
             holders == [e \in Vehicles |-> CurrentOwner(e)]
  <2>1. offers[d].agreed /\ offers[d].buyer = xfer[t].buyer
    BY <1>1, <1>5
  <2>2. /\ holders' = [holders EXCEPT ![d] = CurrentOwner(d)']
        /\ offers' = [offers EXCEPT ![d] = StandingOffer(d)']
        /\ UNCHANGED [e \in Vehicles |-> TitleState(e)]
    BY <1>4, <1>5, LedgerUpdate
  <2>3. holders' = [holders EXCEPT ![d] = offers[d].buyer]
        /\ offers' = [offers EXCEPT ![d] = Ledger!NoOffer]
    <3> HIDE DEF offers, holders
    <3> QED
      BY <1>5, <2>1, <2>2 DEF Ledger!NoOffer
  <2> QED
    BY <1>5, <2>1, <2>2, <2>3 DEF Ledger!Convey
<1> QED
  BY <1>6 DEF Ledger!LedgerNext

(* scrapVehicle ends the title, at a moment when no offer stands.           *)
LEMMA ScrapRefines == IInv /\ ScrapStep => Ledger!LedgerNext
<1> SUFFICES ASSUME IInv, NEW s \in ScrapCentres, NEW d \in Vehicles, ScrapVehicle(s, d)
             PROVE  Ledger!LedgerNext
  BY DEF ScrapStep
<1>1. PICK t \in Tokens : t = dvpToOwn[d] /\ t # 0 /\ t \in 1 .. tokenCtr /\ own[t].dvp = d
  BY TitleOf DEF ScrapVehicle, IsRegistered
<1>2. ~hasXfer[t] /\ own[t].active
  BY <1>1 DEF ScrapVehicle, ScrapCompliant, MayScrap, IInv, TitleInv, TitleConsistent
<1>3. /\ UNCHANGED <<dvpToOwn, xfer, hasXfer>>
      /\ ~own'[t].active /\ own'[t].owner = own[t].owner
      /\ \A x \in Tokens \ {t} : own'[x] = own[x]
  BY <1>1, <1>2 DEF ScrapVehicle, DeactivateVehicle, IInv, TypeOK, OwnershipTypeOK, OwnRecord
<1>4. ASSUME NEW e \in Vehicles \ {d} PROVE SameTitle(e)
  <2>1. IsRegistered(e) => dvpToOwn[e] \in Tokens \ {t}
    BY <1>1, <1>4, TitleOf
  <2> QED
    BY <1>3, <2>1, SameTitleBy
<1>5. /\ TitleState(d) = "held" /\ TitleState(d)' = "scrapped"
      /\ CurrentOwner(d)' = CurrentOwner(d)
      /\ StandingOffer(d) = [buyer |-> Nobody, agreed |-> FALSE] /\ StandingOffer(d)' = StandingOffer(d)
  BY <1>1, <1>2, <1>3 DEF TitleState, CurrentOwner, StandingOffer, HasActiveXfer, IsRegistered
<1>6. Ledger!Scrap(d)
  BY <1>4, <1>5, LedgerUpdate DEF Ledger!Scrap, Ledger!NoOffer
<1> QED
  BY <1>6 DEF Ledger!LedgerNext

(* Every other transaction is invisible to the ledger, a pending loan that  *)
(* is attached to a request or taken from it included.                      *)
LEMMA OthersStutter ==
    IInv /\ (\/ AdminStep \/ DvpStep \/ TradeCertStep \/ LoanStep \/ ChallanStep \/ InsuranceStep
             \/ PUCStep \/ TimeStep \/ UNCHANGED vars) => UNCHANGED Ledger!ledgerVars
<1> SUFFICES ASSUME IInv, \/ AdminStep \/ DvpStep \/ TradeCertStep \/ LoanStep \/ ChallanStep
                          \/ InsuranceStep \/ PUCStep \/ TimeStep \/ UNCHANGED vars
             PROVE  /\ UNCHANGED <<own, dvpToOwn, hasXfer>>
                    /\ \A t \in Tokens : xfer'[t].buyer = xfer[t].buyer
                                         /\ xfer'[t].buyerOK = xfer[t].buyerOK
  BY LedgerFrame
<1> USE DEF ownershipVars
<1>1. CASE AdminStep \/ TradeCertStep
  BY <1>1 DEF AdminStep, AdminRTO, TradeCertStep, IssueTradeCert, RevokeTradeCert
<1>2. CASE DvpStep \/ ChallanStep \/ InsuranceStep \/ PUCStep \/ TimeStep \/ UNCHANGED vars
  BY <1>2 DEF DvpStep, ChallanStep, InsuranceStep, PUCStep, TimeStep, vars
<1>3. CASE LoanStep
  <2>1. xfer \in [Tokens -> XferRecord]
    BY DEF IInv, TypeOK, OwnershipTypeOK
  <2>2. PICK w \in BankWallets, d \in Vehicles :
          \/ \E u \in Users : \/ RegisterNewCarLoan(w, d, u) \/ RegisterUsedCarLoan(w, d, u)
                              \/ RegisterTitleLoan(w, d, u)
          \/ CancelPendingLoan(w, d) \/ RefinanceLoan(w, d) \/ IssueNOC(w, d)
    BY <1>3 DEF LoanStep
  <2>3. CASE \/ CancelPendingLoan(w, d) \/ RefinanceLoan(w, d) \/ IssueNOC(w, d)
             \/ \E u \in Users : RegisterNewCarLoan(w, d, u) \/ RegisterTitleLoan(w, d, u)
    BY <2>1, <2>3 DEF CancelPendingLoan, DetachPendingLoan, RefinanceLoan, IssueNOC,
       RegisterNewCarLoan, RegisterTitleLoan, XferRecord
  <2>4. CASE \E u \in Users : RegisterUsedCarLoan(w, d, u)
    BY <2>1, <2>4 DEF RegisterUsedCarLoan, AttachPendingLoan, XferRecord
  <2> QED
    BY <2>2, <2>3, <2>4
<1> QED
  BY <1>1, <1>2, <1>3

(* The six contracts keep the ledger's promise about title: a vehicle is    *)
(* granted once, conveyed only to a person who agreed to its holder's       *)
(* standing offer, and scrapped only when no offer stands.                  *)
THEOREM LedgerImplemented == Spec => ImplementsLedger
<1>1. Init => Ledger!LedgerInit
  BY Constants DEF Init, OwnershipInit, Ledger!LedgerInit, Ledger!NoOffer, TitleState, CurrentOwner,
     StandingOffer, HasActiveXfer, IsRegistered
<1>2. IInv /\ [Next]_vars => [Ledger!LedgerNext]_(Ledger!ledgerVars)
  BY TransferRefines, RegisterRefines, ApproveRefines, ScrapRefines, OthersStutter DEF Next
<1> QED
  BY <1>1, <1>2, Inductive, PTL DEF Spec, ImplementsLedger, Ledger!LedgerSpec
=============================================================================
