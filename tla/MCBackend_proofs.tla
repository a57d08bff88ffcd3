---------------------------- MODULE MCBackend_proofs ----------------------------
(***************************************************************************)
(* Proofs about MCBackend, for any values of the constants: what is proved  *)
(* of each part of the backend by itself holds of the specification that    *)
(* TLC runs, where they are put side by side.                               *)
(***************************************************************************)
EXTENDS MCBackend, ChallanMirror_proofs, Mirrors_proofs, Backend_proofs

PartsHold ==
    /\ CaughtUp /\ OneRefresh /\ ResetEndsSessions /\ NoGhostTabs /\ OnChainIdRight
    /\ DatabaseOutlivesWork

(* The part in focus has its invariant; what the others promise needs no     *)
(* more than that their own variables do not move.                          *)
PartInv ==
    /\ focus = "fines" => FineInv
    /\ focus = "loans" => LoanInv
    /\ focus = "indexer" => IndexInv /\ IndexFits
    /\ focus = "session" => SessionInv
    /\ focus = "notification" => SseInv
    /\ focus = "registry" => RegistryInv
    /\ focus = "life" => LifeInv

Parts == {"fines", "loans", "indexer", "session", "notification", "registry", "life"}

BackendInv == focus \in Parts /\ PartInv /\ PartsHold

LEMMA PartHolds ==
    /\ IndexInv => CaughtUp
    /\ SessionInv => OneRefresh /\ ResetEndsSessions
    /\ SseInv => NoGhostTabs
    /\ RegistryInv => OnChainIdRight
    /\ LifeInv => DatabaseOutlivesWork
<1>1. IndexInv => CaughtUp
  BY DEF IndexInv, PassedHandled, CaughtUp, Handled
<1>2. SessionInv => OneRefresh /\ ResetEndsSessions
  BY OneRefreshHolds DEF SessionInv, ResetSound, ResetEndsSessions
<1>3. SseInv => NoGhostTabs
  BY DEF SseInv, FiledUnderChannels, NoGhostTabs
<1>4. RegistryInv => OnChainIdRight
  BY DEF RegistryInv
<1>5. LifeInv => DatabaseOutlivesWork
  BY LifePromises
<1> QED
  BY <1>1, <1>2, <1>3, <1>4, <1>5

LEMMA BackendInitially == Init => BackendInv
<1> SUFFICES ASSUME Init PROVE BackendInv
  OBVIOUS
<1>1. focus \in Parts
  BY DEF Init, Parts
<1>2. FineInv /\ LoanInv /\ IndexInv /\ IndexFits /\ SessionInv /\ SseInv /\ RegistryInv /\ LifeInv
  BY FineInitInv, LoanInitially, IndexInitially, FitsInitially, SessionInitInv, SseInitInv,
     RegistryInitInv, LifeInitially DEF Init
<1> QED
  BY <1>1, <1>2, PartHolds DEF BackendInv, PartInv, PartsHold

(* What a part promises is told by its own variables.                       *)
LEMMA PartVariables ==
    /\ CaughtUp /\ UNCHANGED indexerVars => CaughtUp'
    /\ OneRefresh /\ ResetEndsSessions /\ UNCHANGED sessionVars
         => OneRefresh' /\ ResetEndsSessions'
    /\ NoGhostTabs /\ UNCHANGED sseVars => NoGhostTabs'
    /\ OnChainIdRight /\ UNCHANGED registryVars => OnChainIdRight'
    /\ DatabaseOutlivesWork /\ UNCHANGED lifeVars => DatabaseOutlivesWork'
<1>1. CaughtUp /\ UNCHANGED indexerVars => CaughtUp'
  BY DEF CaughtUp, indexerVars
<1>2. OneRefresh /\ ResetEndsSessions /\ UNCHANGED sessionVars
        => OneRefresh' /\ ResetEndsSessions'
  BY DEF OneRefresh, ResetEndsSessions, sessionVars, accountVars, tabVars
<1>3. NoGhostTabs /\ UNCHANGED sseVars => NoGhostTabs'
  BY DEF NoGhostTabs, sseVars
<1>4. OnChainIdRight /\ UNCHANGED registryVars => OnChainIdRight'
  BY DEF OnChainIdRight, registryVars
<1>5. DatabaseOutlivesWork /\ UNCHANGED lifeVars => DatabaseOutlivesWork'
  BY DEF DatabaseOutlivesWork, lifeVars
<1> QED
  BY <1>1, <1>2, <1>3, <1>4, <1>5

LEMMA BackendInductive == BackendInv /\ [Next]_vars => BackendInv'
<1> SUFFICES ASSUME BackendInv, [Next]_vars PROVE BackendInv'
  OBVIOUS
<1>0. focus' = focus /\ focus \in Parts
  BY DEF Next, vars, BackendInv
<1>1. CASE focus = "fines"
  <2>1. /\ [FineNext]_fineVars
        /\ UNCHANGED <<indexerVars, sessionVars, sseVars, registryVars, lifeVars>>
    BY <1>1 DEF Next, vars, recordRest, faultVars, fineRest, fineVars, relayVars
  <2>2. FineInv'
    BY <1>1, <2>1, FineNextInv DEF BackendInv, PartInv
  <2> QED
    BY <1>0, <1>1, <2>1, <2>2, PartVariables DEF BackendInv, PartInv, PartsHold
<1>2. CASE focus = "loans"
  <2>1. /\ [LenderNext]_lenderVars
        /\ UNCHANGED <<indexerVars, sessionVars, sseVars, registryVars, lifeVars>>
    BY <1>2 DEF Next, vars, recordRest, faultVars, lenderVars, relayVars
  <2>2. LoanInv'
    BY <1>2, <2>1, LoanInductive DEF BackendInv, PartInv
  <2> QED
    BY <1>0, <1>2, <2>1, <2>2, PartVariables DEF BackendInv, PartInv, PartsHold
<1>3. CASE focus = "indexer"
  <2>1. /\ [IndexerNext]_indexerVars
        /\ UNCHANGED <<sessionVars, sseVars, registryVars, lifeVars>>
    BY <1>3 DEF Next, vars
  <2>2. IndexInv' /\ IndexFits'
    BY <1>3, <2>1, IndexInductive, FitsInductive DEF BackendInv, PartInv
  <2>3. CaughtUp'
    BY <2>2 DEF IndexInv, PassedHandled, CaughtUp, Handled
  <2> QED
    BY <1>0, <1>3, <2>1, <2>2, <2>3, PartVariables DEF BackendInv, PartInv, PartsHold
<1>4. CASE focus = "session"
  <2>1. /\ [SessionNext]_sessionVars
        /\ UNCHANGED <<indexerVars, sseVars, registryVars, lifeVars>>
    BY <1>4 DEF Next, vars
  <2>2. SessionInv'
    BY <1>4, <2>1, SessionNextInv DEF BackendInv, PartInv
  <2>3. OneRefresh' /\ ResetEndsSessions'
    BY <2>2, PartHolds, PTL
  <2> QED
    BY <1>0, <1>4, <2>1, <2>2, <2>3, PartVariables DEF BackendInv, PartInv, PartsHold
<1>5. CASE focus = "notification"
  <2>1. /\ [SseNext]_sseVars
        /\ UNCHANGED <<indexerVars, sessionVars, registryVars, lifeVars>>
    BY <1>5 DEF Next, vars
  <2>2. SseInv'
    BY <1>5, <2>1, SseNextInv DEF BackendInv, PartInv
  <2>3. NoGhostTabs'
    BY <2>2 DEF SseInv, FiledUnderChannels, NoGhostTabs
  <2> QED
    BY <1>0, <1>5, <2>1, <2>2, <2>3, PartVariables DEF BackendInv, PartInv, PartsHold
<1>6. CASE focus = "registry"
  <2>1. /\ [RegistryNext]_registryVars
        /\ UNCHANGED <<indexerVars, sessionVars, sseVars, lifeVars>>
    BY <1>6 DEF Next, vars
  <2>2. RegistryInv'
    BY <1>6, <2>1, RegistryNextInv DEF BackendInv, PartInv
  <2> QED
    BY <1>0, <1>6, <2>1, <2>2, PartVariables DEF BackendInv, PartInv, PartsHold, RegistryInv
<1>7. CASE focus = "life"
  <2>1. /\ [LifeNext]_lifeVars
        /\ UNCHANGED <<indexerVars, sessionVars, sseVars, registryVars>>
    BY <1>7 DEF Next, vars
  <2>2. LifeInv'
    BY <1>7, <2>1, LifeInductive DEF BackendInv, PartInv
  <2>3. DatabaseOutlivesWork'
    BY <2>2, PartHolds, PTL
  <2> QED
    BY <1>0, <1>7, <2>1, <2>2, <2>3, PartVariables DEF BackendInv, PartInv, PartsHold
<1> QED
  BY <1>0, <1>1, <1>2, <1>3, <1>4, <1>5, <1>6, <1>7 DEF Parts

LEMMA BackendTyped == BackendInv => TypeOK
BY IndexHasType
   DEF BackendInv, Parts, PartInv, TypeOK, FineInv, LoanInv, SessionInv, SseInv, RegistryInv,
       LifeInv

LEMMA BackendAlways == FairSpec => []BackendInv
BY BackendInitially, BackendInductive, PTL DEF FairSpec

(* Whichever part of the backend is run, its variables keep their types: no *)
(* more connections are opened than stops, errors and breaks ask for, and   *)
(* cursors and chunks stay on blocks that were mined.                       *)
THEOREM BackendTypeOKAlways == FairSpec => []TypeOK
BY BackendAlways, BackendTyped, PTL

(* Every invariant of the run of the backend, of the specification it runs. *)
THEOREM BackendHoldsAlways == FairSpec => []PartsHold
<1>1. BackendInv => PartsHold
  BY DEF BackendInv
<1> QED
  BY <1>1, BackendAlways, PTL
=============================================================================
