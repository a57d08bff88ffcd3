---------------------------- MODULE MCMirrors_proofs ----------------------------
(***************************************************************************)
(* Proofs about MCMirrors, for any values of the constants: what is proved  *)
(* of each kind of record and of each part of the front end by itself holds *)
(* of the specification that TLC runs, where they are put side by side.     *)
(***************************************************************************)
EXTENDS MCMirrors, ChallanMirror_proofs, Mirrors_proofs, Frontend_proofs

RecordsHold ==
    /\ FinesMatchChain /\ LoansMatchChain /\ DocumentsMatchChain /\ ClaimsNotAhead
    /\ TitleNotAhead /\ CertNotAhead

WebHolds == OwnChangesAppear /\ SessionsRestOnSignatures

(* The part in focus has its invariant; what the others promise needs no     *)
(* more than that their own variables do not move.                          *)
FocusInv ==
    /\ focus = "fines" => FineInv
    /\ focus = "loans" => LoanInv
    /\ focus = "documents" => DocInv /\ ClaimsInv
    /\ focus = "title" => TitleInv
    /\ focus = "certificate" => CertInv
    /\ focus = "portal" => PortalInv /\ ReadSoFar
    /\ focus = "signIn" => SignInInv

Focuses == {"fines", "loans", "documents", "title", "certificate", "portal", "signIn"}

MirrorsInv == focus \in Focuses /\ FocusInv /\ RecordsHold /\ WebHolds

LEMMA FocusHolds ==
    /\ FineInv => FinesMatchChain
    /\ LoanInv => LoansMatchChain
    /\ DocInv => DocumentsMatchChain
    /\ ClaimsInv => ClaimsNotAhead
    /\ TitleInv => TitleNotAhead
    /\ CertInv => CertNotAhead
    /\ PortalInv => OwnChangesAppear
    /\ SignInInv => SessionsRestOnSignatures
BY DEF FineInv, LoanInv, DocInv, ClaimsInv, TitleInv, CertInv, PortalInv, SignInInv

LEMMA MirrorsInitially == Init => MirrorsInv
<1> SUFFICES ASSUME Init PROVE MirrorsInv
  OBVIOUS
<1>1. focus \in Focuses
  BY DEF Init, Focuses
<1>2. FineInv /\ LoanInv /\ DocInv /\ TitleInv /\ CertInv /\ PortalInv /\ SignInInv
  BY FineInitInv, LoanInitially, DocInitially, TitleInitial, CertInductive, PortalInitially,
     SignInInitially DEF Init
<1>3. ClaimsInv /\ ReadSoFar
  BY ClaimsInitially, ReadInitially DEF Init
<1> QED
  BY <1>1, <1>2, <1>3, FocusHolds DEF MirrorsInv, FocusInv, RecordsHold, WebHolds

(* What a part promises is told by its own variables.                       *)
LEMMA OwnVariables ==
    /\ FinesMatchChain /\ UNCHANGED fineRest => FinesMatchChain'
    /\ LoansMatchChain /\ UNCHANGED lenderRest => LoansMatchChain'
    /\ DocumentsMatchChain /\ UNCHANGED docRest => DocumentsMatchChain'
    /\ ClaimsNotAhead /\ UNCHANGED docRest => ClaimsNotAhead'
    /\ TitleNotAhead /\ UNCHANGED titleRest => TitleNotAhead'
    /\ CertNotAhead /\ UNCHANGED certRest => CertNotAhead'
    /\ OwnChangesAppear /\ UNCHANGED portalVars => OwnChangesAppear'
    /\ SessionsRestOnSignatures /\ UNCHANGED signInVars => SessionsRestOnSignatures'
<1>1. FinesMatchChain /\ UNCHANGED fineRest => FinesMatchChain'
  BY DEF FinesMatchChain, fineRest
<1>2. LoansMatchChain /\ UNCHANGED lenderRest => LoansMatchChain'
  BY DEF LoansMatchChain, lenderRest
<1>3. DocumentsMatchChain /\ UNCHANGED docRest => DocumentsMatchChain'
  BY DEF DocumentsMatchChain, docRest
<1>4. ClaimsNotAhead /\ UNCHANGED docRest => ClaimsNotAhead'
  BY DEF ClaimsNotAhead, docRest
<1>5. TitleNotAhead /\ UNCHANGED titleRest => TitleNotAhead'
  BY DEF TitleNotAhead, titleRest
<1>6. CertNotAhead /\ UNCHANGED certRest => CertNotAhead'
  BY DEF CertNotAhead, certRest
<1>7. OwnChangesAppear /\ UNCHANGED portalVars => OwnChangesAppear'
  BY DEF OwnChangesAppear, portalVars, IsShown
<1>8. SessionsRestOnSignatures /\ UNCHANGED signInVars => SessionsRestOnSignatures'
  BY DEF SessionsRestOnSignatures, signInVars, serverVars, browserVars, Opened
<1> QED
  BY <1>1, <1>2, <1>3, <1>4, <1>5, <1>6, <1>7, <1>8

LEMMA MirrorsInductive == MirrorsInv /\ [Next]_vars => MirrorsInv'
<1> SUFFICES ASSUME MirrorsInv, [Next]_vars PROVE MirrorsInv'
  OBVIOUS
<1>0. focus' = focus /\ focus \in Focuses
  BY DEF Next, vars, MirrorsInv
<1>1. CASE focus = "fines"
  <2>1. /\ [FineNext]_fineVars
        /\ UNCHANGED <<lenderRest, docRest, titleRest, certRest, portalVars, signInVars>>
    BY <1>1 DEF Next, vars, recordVars, webVars, fineRest, fineVars, relayVars
  <2>2. FineInv'
    BY <1>1, <2>1, FineNextInv DEF MirrorsInv, FocusInv
  <2> QED
    BY <1>0, <1>1, <2>1, <2>2, FocusHolds, OwnVariables
       DEF MirrorsInv, FocusInv, RecordsHold, WebHolds, FineInv
<1>2. CASE focus = "loans"
  <2>1. /\ [LenderNext]_lenderVars
        /\ UNCHANGED <<fineRest, docRest, titleRest, certRest, portalVars, signInVars>>
    BY <1>2 DEF Next, vars, recordVars, webVars, lenderVars, relayVars
  <2>2. LoanInv'
    BY <1>2, <2>1, LoanInductive DEF MirrorsInv, FocusInv
  <2> QED
    BY <1>0, <1>2, <2>1, <2>2, OwnVariables
       DEF MirrorsInv, FocusInv, RecordsHold, WebHolds, LoanInv
<1>3. CASE focus = "documents"
  <2>1. /\ [DocNext]_docVars
        /\ UNCHANGED <<fineRest, lenderRest, titleRest, certRest, portalVars, signInVars>>
    BY <1>3 DEF Next, vars, recordVars, webVars, docVars, relayVars
  <2>2. DocInv' /\ ClaimsInv'
    BY <1>3, <2>1, DocInductive, ClaimsInductive DEF MirrorsInv, FocusInv
  <2> QED
    BY <1>0, <1>3, <2>1, <2>2, OwnVariables
       DEF MirrorsInv, FocusInv, RecordsHold, WebHolds, DocInv, ClaimsInv
<1>4. CASE focus = "title"
  <2>1. /\ [TitleNext]_titleVars
        /\ UNCHANGED <<fineRest, lenderRest, docRest, certRest, portalVars, signInVars>>
    BY <1>4 DEF Next, vars, recordVars, webVars, titleVars, relayVars
  <2>2. TitleInv'
    BY <1>4, <2>1, TitleInductive DEF MirrorsInv, FocusInv
  <2> QED
    BY <1>0, <1>4, <2>1, <2>2, OwnVariables
       DEF MirrorsInv, FocusInv, RecordsHold, WebHolds, TitleInv
<1>5. CASE focus = "certificate"
  <2>1. /\ [CertNext]_certVars
        /\ UNCHANGED <<fineRest, lenderRest, docRest, titleRest, portalVars, signInVars>>
    BY <1>5 DEF Next, vars, recordVars, webVars, certVars, certRest, relayVars
  <2>2. CertInv'
    BY <1>5, <2>1, CertInductive DEF MirrorsInv, FocusInv
  <2> QED
    BY <1>0, <1>5, <2>1, <2>2, OwnVariables
       DEF MirrorsInv, FocusInv, RecordsHold, WebHolds, CertInv
<1>6. CASE focus = "portal"
  <2>1. /\ [PortalNext]_portalVars
        /\ UNCHANGED <<fineRest, lenderRest, docRest, titleRest, certRest, signInVars>>
    BY <1>6 DEF Next, vars, recordVars, webVars
  <2>2. PortalInv' /\ ReadSoFar'
    BY <1>6, <2>1, PortalStep, ReadStep DEF MirrorsInv, FocusInv
  <2> QED
    BY <1>0, <1>6, <2>1, <2>2, OwnVariables
       DEF MirrorsInv, FocusInv, RecordsHold, WebHolds, PortalInv
<1>7. CASE focus = "signIn"
  <2>1. /\ [SignInNext]_signInVars
        /\ UNCHANGED <<fineRest, lenderRest, docRest, titleRest, certRest, portalVars>>
    BY <1>7 DEF Next, vars, recordVars, webVars
  <2>2. SignInInv'
    BY <1>7, <2>1, SignInInductive DEF MirrorsInv, FocusInv
  <2> QED
    BY <1>0, <1>7, <2>1, <2>2, OwnVariables
       DEF MirrorsInv, FocusInv, RecordsHold, WebHolds, SignInInv
<1> QED
  BY <1>0, <1>1, <1>2, <1>3, <1>4, <1>5, <1>6, <1>7 DEF Focuses

LEMMA MirrorsTyped == MirrorsInv => TypeOK
BY DocTyped, PortalHasType
   DEF MirrorsInv, Focuses, FocusInv, TypeOK, FineInv, LoanInv, TitleInv, CertInv, SignInInv

LEMMA MirrorsAlways == Spec => []MirrorsInv
BY MirrorsInitially, MirrorsInductive, PTL DEF Spec

(* Whatever kind of record or part of the front end is run, its variables    *)
(* keep their types: the counts of claims, which roll-backs take below zero, *)
(* and the times the cache has data of, do not leave their bounds either.   *)
THEOREM MirrorsTypeOKAlways == Spec => []TypeOK
BY MirrorsAlways, MirrorsTyped, PTL

(* Every invariant of the run of the mirrors, of the specification it runs. *)
THEOREM MirrorsHoldAlways == Spec => [](RecordsHold /\ WebHolds)
<1>1. MirrorsInv => RecordsHold /\ WebHolds
  BY DEF MirrorsInv
<1> QED
  BY <1>1, MirrorsAlways, PTL

(* The reference of a collected payment stays whatever the other records and *)
(* the front end do beside the fines.                                       *)
THEOREM MirrorsKeepPayments == Spec => PaymentKept
<1>1. ASSUME MirrorsInv, [Next]_vars
      PROVE  [\A r \in FineRows : fine[r].ref # 0 => fine'[r].ref # 0]_fineVars
  <2>1. CASE focus = "fines"
    <3>1. [FineNext]_fineVars
      BY <1>1, <2>1 DEF Next, vars, recordVars, fineRest, fineVars, relayVars
    <3> QED
      BY <1>1, <2>1, <3>1, FineNextInv DEF RefsKept, MirrorsInv, FocusInv
  <2>2. CASE focus # "fines"
    <3>1. UNCHANGED fine
      BY <1>1, <2>2 DEF Next, vars, recordVars, fineRest
    <3> QED
      BY <3>1
  <2> QED
    BY <2>1, <2>2
<1> QED
  BY <1>1, MirrorsAlways, PTL DEF Spec, PaymentKept
=============================================================================
