------------------------------- MODULE MCBackend -------------------------------
(***************************************************************************)
(* What goes on by itself in the backend, for TLC: one part at a time, as   *)
(* `focus` says, under the fairness of that part, which asks nothing of the *)
(* others' behaviours.                                                      *)
(***************************************************************************)
EXTENDS ChallanMirror, LoanMirror, Indexer, Session, Notification, EntityRegistry, Lifecycle,
        TLC

VARIABLE focus

fineRest == <<challan, fine, checkout, initiating>>
recordRest == <<tx, sweep, fineRest, lenderRest>>
faultVars == <<crashes, losses>>

vars == <<focus, recordRest, faultVars, indexerVars, sessionVars, sseVars, registryVars, lifeVars>>

TestKinds == [e \in Entities |-> e]

Init ==
    /\ focus \in {"fines", "loans", "indexer", "session", "notification", "registry", "life"}
    /\ FineInit /\ LenderInit /\ IndexerInit /\ SessionInit /\ SseInit /\ RegistryInit
    /\ LifeInit

Next ==
    \/ /\ focus = "fines" /\ FineNext
       /\ UNCHANGED <<focus, lenderRest, indexerVars, sessionVars, sseVars, registryVars,
                      lifeVars>>
    \/ /\ focus = "loans" /\ LenderNext
       /\ UNCHANGED <<focus, fineRest, indexerVars, sessionVars, sseVars, registryVars,
                      lifeVars>>
    \/ /\ focus = "indexer" /\ IndexerNext
       /\ UNCHANGED <<focus, recordRest, faultVars, sessionVars, sseVars, registryVars,
                      lifeVars>>
    \/ /\ focus = "session" /\ SessionNext
       /\ UNCHANGED <<focus, recordRest, faultVars, indexerVars, sseVars, registryVars,
                      lifeVars>>
    \/ /\ focus = "notification" /\ SseNext
       /\ UNCHANGED <<focus, recordRest, faultVars, indexerVars, sessionVars, registryVars,
                      lifeVars>>
    \/ /\ focus = "registry" /\ RegistryNext
       /\ UNCHANGED <<focus, recordRest, faultVars, indexerVars, sessionVars, sseVars,
                      lifeVars>>
    \/ /\ focus = "life" /\ LifeNext
       /\ UNCHANGED <<focus, recordRest, faultVars, indexerVars, sessionVars, sseVars,
                      registryVars>>

(* Requests that submitted, the chain, handlers and the sweep, every five   *)
(* minutes, go on by themselves; weak fairness is enough, for a roll-back   *)
(* in hand, which keeps the sweep from other rows, ends.                    *)
FineFairness ==
    /\ WF_fineVars(focus = "fines" /\ \E t \in Txs : FineStore(t))
    /\ WF_fineVars(focus = "fines" /\ \E t \in Txs : FineMine(t))
    /\ WF_fineVars(focus = "fines" /\ \E t \in Txs : FineHandle(t))
    /\ WF_fineVars(focus = "fines" /\ \E t \in Txs : FineReplay(t))
    /\ WF_fineVars(focus = "fines" /\ \E t \in Txs : FineRollBack(t))
    /\ WF_fineVars(focus = "fines" /\ \E t \in Txs : FineSettles(t))

LenderFairness ==
    /\ WF_lenderVars(focus = "loans" /\ \E t \in Txs : LenderStore(t))
    /\ WF_lenderVars(focus = "loans" /\ \E t \in Txs : LenderMine(t))
    /\ WF_lenderVars(focus = "loans" /\ \E t \in Txs : LenderHandle(t) \/ LoanRegOfRefinance(t))
    /\ WF_lenderVars(focus = "loans" /\ \E t \in Txs : LenderReplay(t))
    /\ WF_lenderVars(focus = "loans" /\ \E t \in Txs : LenderRollBack(t))
    /\ WF_lenderVars(focus = "loans" /\ \E t \in Txs : LenderSettles(t))

(* The process is restarted, timers fire, queries over an open connection   *)
(* and handlers return.                                                     *)
IndexerFairness ==
    /\ WF_indexerVars(focus = "indexer" /\ Boot)
    /\ WF_indexerVars(focus = "indexer" /\ (CatchUp \/ ScanFails))
    /\ WF_indexerVars(focus = "indexer" /\ HandleReconnect)
    /\ WF_indexerVars(focus = "indexer" /\ \E e \in inbox : HandleLive(e))

(* The server answers, or the call times out after 30 s.                    *)
SessionFairness ==
    /\ WF_sessionVars(focus = "session" /\ \E q \in Calls :
                         CallSettles(q) \/ CallFails(q) \/ Unauthorized(q))
    /\ WF_sessionVars(focus = "session" /\ \E w \in renewal :
                         RefreshAccessToken(w) \/ RefreshLost(w) \/ OnRefreshComplete(w))

RegistryFairness == WF_registryVars(focus = "registry" /\ \E p \in Motions : SweepExecution(p))

(* Requests are answered within their time limits, a worker is waited for    *)
(* at most 15 s, and callbacks run. Nobody has to close a stream or finish  *)
(* a job.                                                                   *)
LifeFairness ==
    /\ WF_lifeVars(focus = "life" /\ ServerCloses)
    /\ WF_lifeVars(focus = "life" /\ \E k \in Connections : Answer(k))
    /\ WF_lifeVars(focus = "life" /\ \E w \in Workers : WorkerCloses(w) \/ WithTimeout(w))
    /\ WF_lifeVars(focus = "life" /\ \E s \in Signals : ShutdownStep(s))

FairSpec ==
    /\ Init /\ [][Next]_vars
    /\ FineFairness /\ LenderFairness /\ IndexerFairness /\ SessionFairness /\ RegistryFairness
    /\ LifeFairness

(* Bounds of the run: no crash where events of fines and loans are lost;     *)
(* events of proposals are missed while there is one proposal; the indexer  *)
(* meets two faults of three; a password is reset beside one call.          *)
Faults ==
    /\ focus \in {"fines", "loans"} => crashes = 0
    /\ missed > 0 => proposal[MaxProposals] = NoMotion
    /\ stops + breaks + errors <= 2
    /\ otp # "none" => Cardinality({q \in Calls : call[q] # NoCall}) <= 1

(* What was stored before its event was missed, a settlement or a clearance, *)
(* is found by the sweep and shown.                                         *)
MissedIsReplayed == MissedSettlementIsReplayed /\ MissedClearanceIsReplayed

TypeOK ==
    CASE focus = "fines"        -> FineTypeOK
      [] focus = "loans"        -> LenderTypeOK
      [] focus = "indexer"      -> IndexerTypeOK
      [] focus = "session"      -> SessionTypeOK
      [] focus = "notification" -> SseTypeOK
      [] focus = "registry"     -> RegistryTypeOK
      [] OTHER                  -> LifeTypeOK
=============================================================================
