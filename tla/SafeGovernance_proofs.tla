-------------------------- MODULE SafeGovernance_proofs --------------------------
(***************************************************************************)
(* Proofs about SafeGovernance, for any sets of proposals and members, any *)
(* threshold and any value of the bounds.                                  *)
(***************************************************************************)
EXTENDS SafeGovernance, FiniteSetTheorems, TLAPS

(* The facts about the constants that the proofs use, under one name.       *)
LEMMA Constants ==
    /\ NoProposal \notin Proposals /\ IsFiniteSet(Members)
    /\ Threshold \in Nat \ {0} /\ MaxAttempts \in Nat \ {0} /\ MaxQueued \in Nat \ {0}
    /\ MaxSends \in Nat /\ MaxCrashes \in Nat /\ MaxLosses \in Nat
BY GovernanceAssumption

(* The stored signatures of a proposal are finitely many.                   *)
LEMMA SignaturesFinite ==
    ASSUME TypeOK, NEW p \in Proposals
    PROVE  /\ IsFiniteSet(sigs[p])
           /\ Cardinality(sigs[p]) \in 0 .. Cardinality(Members)
<1>1. sigs[p] \subseteq Members
  BY DEF TypeOK
<1>2. IsFiniteSet(sigs[p]) /\ Cardinality(sigs[p]) <= Cardinality(Members)
  BY <1>1, Constants, FS_Subset
<1>3. Cardinality(sigs[p]) \in Nat /\ Cardinality(Members) \in Nat
  BY <1>2, Constants, FS_CardinalityType
<1> QED
  BY <1>2, <1>3

-----------------------------------------------------------------------------
(* TYPES                                                                    *)

(* Adding a job keeps the queue within its bound.                           *)
LEMMA EnqueuedType ==
    ASSUME TypeOK, NEW p \in Proposals, NEW a \in Attempts
    PROVE  /\ Enqueued(p, a) \in [Proposals -> [Attempts -> 0 .. MaxQueued]]
           /\ queue[p][a] > 0 => Dequeued(p, a) \in [Proposals -> [Attempts -> 0 .. MaxQueued]]
           /\ 0 \in Attempts
<1>2. queue[p][a] \in 0 .. MaxQueued
  BY DEF TypeOK
<1>3. \A n \in 0 .. MaxQueued : (IF n < MaxQueued THEN n + 1 ELSE n) \in 0 .. MaxQueued
  BY Constants
<1>4. Enqueued(p, a) \in [Proposals -> [Attempts -> 0 .. MaxQueued]]
  BY <1>2, <1>3 DEF Enqueued, TypeOK
<1>5. queue[p][a] > 0 => Dequeued(p, a) \in [Proposals -> [Attempts -> 0 .. MaxQueued]]
  BY <1>2, Constants DEF Dequeued, TypeOK
<1> QED
  BY <1>4, <1>5, Constants DEF Attempts

(* The idle request, job and sweep are well typed.                          *)
LEMMA IdleType == NoRequest \in SignRequest /\ NoJob \in Job /\ NoSweep \in Sweep
<1>1. Cardinality(Members) \in Nat
  BY Constants, FS_CardinalityType
<1> QED
  BY <1>1, Constants DEF NoRequest, SignRequest, NoJob, Job, NoSweep, Sweep, Attempts

(* A failed attempt puts its job back or leaves it to the listener.         *)
LEMMA AttemptFailsType ==
    ASSUME TypeOK, JobsSound, worker.pc # "idle", AttemptFails
    PROVE  /\ worker' \in Job
           /\ queue' \in [Proposals -> [Attempts -> 0 .. MaxQueued]]
           /\ exhausted' \subseteq Proposals
<1>1. worker.prop \in Proposals /\ worker.attempt \in Attempts
  BY DEF TypeOK, JobsSound, Job
<1>2. CASE worker.attempt + 1 < MaxAttempts
  <2>1. worker.attempt + 1 \in Attempts
    BY <1>1, <1>2, Constants DEF Attempts
  <2> QED
    BY <1>1, <1>2, <2>1, EnqueuedType, IdleType DEF AttemptFails, TypeOK
<1>3. CASE ~(worker.attempt + 1 < MaxAttempts)
  BY <1>1, <1>3, IdleType DEF AttemptFails, TypeOK
<1> QED
  BY <1>2, <1>3

-----------------------------------------------------------------------------
(* FRAMES                                                                   *)

(* What a step leaves alone keeps what is known of it.                      *)
LEMMA Frames ==
    ASSUME GovernanceInv
    PROVE  /\ UNCHANGED <<status, queue, worker, exhausted, sigs>> => QuorumQueued'
           /\ UNCHANGED <<outcome, sentFor, executed, row, sigs>> => SendsSound'
           /\ UNCHANGED <<signing, sigs>> => RequestsSound'
           /\ UNCHANGED <<worker, reconciler, outcome, sentFor, row>> => JobsSound'
           /\ UNCHANGED <<status, executed, outcome, sentFor, row>> =>
                 SafeReportsFailure \/ RecordsMatchChain'
<1>1. UNCHANGED <<status, queue, worker, exhausted, sigs>> => QuorumQueued'
  BY DEF GovernanceInv, QuorumQueued, Quorum
<1>2. UNCHANGED <<outcome, sentFor, executed, row, sigs>> => SendsSound'
  BY DEF GovernanceInv, SendsSound, Quorum
<1>3. UNCHANGED <<signing, sigs>> => RequestsSound'
  BY DEF GovernanceInv, RequestsSound, Quorum
<1>4. UNCHANGED <<worker, reconciler, outcome, sentFor, row>> => JobsSound'
  BY DEF GovernanceInv, JobsSound
<1>5. UNCHANGED <<status, executed, outcome, sentFor, row>> =>
         SafeReportsFailure \/ RecordsMatchChain'
  BY DEF GovernanceInv, RecordsMatchChain
<1> QED
  BY <1>1, <1>2, <1>3, <1>4, <1>5

(* The queue, the worker and the listener may only gain a proposal that has *)
(* a quorum; status may only reach the later values for such a proposal.    *)
LEMMA QuorumStep ==
    ASSUME GovernanceInv, UNCHANGED sigs, NEW q \in Proposals, Quorum(q),
           \A p \in Proposals \ {q} :
              /\ status'[p] = status[p] \/ status'[p] \in {"absent", "PENDING", "CANCELLED"}
              /\ \A a \in Attempts : queue'[p][a] > 0 => queue[p][a] > 0
              /\ worker'.prop = p => worker.prop = p
              /\ p \in exhausted' => p \in exhausted
    PROVE  QuorumQueued'
BY DEF GovernanceInv, QuorumQueued, Quorum

(* A job that waits, or is being processed, is of a proposal with a quorum; *)
(* so is a transaction sent.                                                *)
LEMMA QuorumFacts ==
    ASSUME GovernanceInv
    PROVE  /\ \A p \in Proposals, a \in Attempts : queue[p][a] > 0 => Quorum(p)
           /\ worker.pc # "idle" => worker.prop \in Proposals /\ Quorum(worker.prop)
           /\ \A p \in exhausted : p \in Proposals /\ Quorum(p)
           /\ \A h \in Sends : outcome[h] # "unsent" => sentFor[h] \in Proposals /\ Quorum(sentFor[h])
BY DEF GovernanceInv, QuorumQueued, JobsSound, SendsSound, TypeOK

(* What an added or removed job does to the queue of every proposal.        *)
LEMMA QueueEffect ==
    ASSUME TypeOK, NEW q \in Proposals, NEW b \in Attempts
    PROVE  /\ \A p \in Proposals \ {q}, a \in Attempts : Enqueued(q, b)[p][a] = queue[p][a]
           /\ \A p \in Proposals \ {q}, a \in Attempts : Dequeued(q, b)[p][a] = queue[p][a]
BY DEF Enqueued, Dequeued, TypeOK

(* A failed attempt keeps the quorum and leaves the worker idle.            *)
LEMMA AttemptFailsSound ==
    ASSUME GovernanceInv, worker.pc # "idle", AttemptFails, UNCHANGED <<status, sigs>>
    PROVE  QuorumQueued' /\ worker' = NoJob
<1>1. worker.prop \in Proposals /\ Quorum(worker.prop) /\ worker.attempt \in Attempts
  BY QuorumFacts DEF GovernanceInv, TypeOK, Job
<1>2. NoJob.prop \notin Proposals /\ NoJob.pc = "idle"
  BY Constants DEF NoJob
<1>3. \A p \in Proposals \ {worker.prop} : \A a \in Attempts : queue'[p][a] > 0 => queue[p][a] > 0
  <2>1. CASE worker.attempt + 1 < MaxAttempts
    <3>1. worker.attempt + 1 \in Attempts
      BY <1>1, <2>1, Constants DEF Attempts
    <3> QED
      BY <1>1, <2>1, <3>1, QueueEffect DEF AttemptFails, GovernanceInv
  <2>2. CASE ~(worker.attempt + 1 < MaxAttempts)
    BY <2>2 DEF AttemptFails
  <2> QED
    BY <2>1, <2>2
<1>4. \A p \in Proposals \ {worker.prop} : p \in exhausted' => p \in exhausted
  BY DEF AttemptFails
<1>5. worker' = NoJob
  BY DEF AttemptFails
<1>6. QuorumQueued'
  BY <1>1, <1>2, <1>3, <1>4, <1>5, QuorumStep
<1> QED
  BY <1>5, <1>6

-----------------------------------------------------------------------------
(* INITIAL STATE                                                            *)

(* Nothing is proposed, sent or in hand.                                    *)
LEMMA InitInv == Init => GovernanceInv
<1> SUFFICES ASSUME Init PROVE GovernanceInv
  OBVIOUS
<1> USE Constants DEF Init
<1>1. TypeOK
  BY IdleType DEF TypeOK, Outcome, ProposalStatus, RowStatus
<1>2. QuorumQueued
  BY DEF QuorumQueued, NoJob
<1>3. SendsSound
  BY DEF SendsSound
<1>4. RequestsSound
  BY DEF RequestsSound, NoRequest
<1>5. JobsSound
  BY DEF JobsSound, NoJob, NoSweep
<1>6. RecordsMatchChain
  BY DEF RecordsMatchChain
<1> QED
  BY <1>1, <1>2, <1>3, <1>4, <1>5, <1>6 DEF GovernanceInv

-----------------------------------------------------------------------------
(* REQUESTS                                                                 *)

(* Storing a signature: the count of the request that stored it is exact or *)
(* low, and nobody's quorum is lost.                                        *)
LEMMA SignStoreInv ==
    ASSUME GovernanceInv, NEW m \in Members, SignStore(m)
    PROVE  GovernanceInv'
<1> DEFINE p == signing[m].prop
<1>0. TypeOK /\ QuorumQueued /\ SendsSound /\ RequestsSound /\ JobsSound
  BY DEF GovernanceInv
<1>1. p \in Proposals /\ m \notin sigs[p] /\ signing[m].seen \in Nat
      /\ signing[m].seen <= Cardinality(sigs[p])
  <2>1. signing[m] \in SignRequest /\ signing[m].pc = "checked"
    BY <1>0 DEF TypeOK, SignStore
  <2>2. Cardinality(Members) \in Nat
    BY Constants, FS_CardinalityType
  <2> QED
    BY <1>0, <2>1, <2>2 DEF RequestsSound, SignRequest
<1>2. /\ sigs' = [sigs EXCEPT ![p] = @ \cup {m}]
      /\ UNCHANGED <<chainVars, status, nonceOf, row, cancelling, jobVars, reconciler, indexed,
                     environmentVars>>
  BY DEF SignStore
<1>3. \A q \in Proposals : Cardinality(sigs[q]) \in Nat
  BY <1>0, SignaturesFinite
<1>4. Cardinality(sigs'[p]) = Cardinality(sigs[p]) + 1
  <2>1. IsFiniteSet(sigs[p])
    BY <1>0, <1>1, SignaturesFinite
  <2>2. sigs'[p] = sigs[p] \cup {m}
    BY <1>0, <1>1, <1>2 DEF TypeOK
  <2> QED
    BY <1>1, <2>1, <2>2, FS_AddElement
<1>5. \A q \in Proposals \ {p} : sigs'[q] = sigs[q]
  BY <1>0, <1>2 DEF TypeOK
<1>6. \A q \in Proposals : Quorum(q) => Quorum(q)'
  BY <1>1, <1>3, <1>4, <1>5, Constants DEF Quorum
<1>7. \A q \in Proposals : Cardinality(sigs[q]) <= Cardinality(sigs'[q])
  BY <1>1, <1>3, <1>4, <1>5
<1>8. \/ signing' = [signing EXCEPT ![m] = NoRequest]
      \/ /\ ReachesThreshold(signing[m].seen)
         /\ signing' = [signing EXCEPT ![m] =
                          [pc |-> "counted", prop |-> p, seen |-> signing[m].seen]]
  BY <1>0 DEF SignStore, TypeOK
<1>9. Cardinality(sigs'[p]) >= Threshold \/ ~ReachesThreshold(signing[m].seen)
  BY <1>1, <1>3, <1>4, Constants DEF ReachesThreshold
<1>10. TypeOK'
  <2>1. sigs' \in [Proposals -> SUBSET Members]
    BY <1>0, <1>1, <1>2 DEF TypeOK
  <2>2. [pc |-> "counted", prop |-> p, seen |-> signing[m].seen] \in SignRequest
    BY <1>0, <1>1 DEF TypeOK, SignRequest
  <2>3. signing' \in [Members -> SignRequest]
    BY <1>0, <1>8, <2>2, IdleType DEF TypeOK
  <2> QED
    BY <1>0, <1>2, <2>1, <2>3 DEF TypeOK, chainVars, jobVars, environmentVars
<1>11. QuorumQueued'
  BY <1>0, <1>2, <1>6 DEF QuorumQueued, jobVars
<1>12. SendsSound'
  BY <1>0, <1>2, <1>6 DEF SendsSound, chainVars
<1>13. RequestsSound'
  <2> SUFFICES ASSUME NEW n \in Members
               PROVE  /\ signing'[n].pc # "idle" => signing'[n].prop \in Proposals
                      /\ signing'[n].pc = "checked" =>
                            n \notin sigs'[signing'[n].prop]
                            /\ signing'[n].seen <= Cardinality(sigs'[signing'[n].prop])
                      /\ signing'[n].pc \in {"counted", "marked"} =>
                            Cardinality(sigs'[signing'[n].prop]) >= Threshold
    BY DEF RequestsSound, Quorum
  <2>1. CASE n = m
    BY <1>0, <1>1, <1>8, <1>9, <2>1 DEF NoRequest, TypeOK
  <2>2. CASE n # m
    <3>1. signing'[n] = signing[n]
      BY <1>0, <1>8, <2>2 DEF TypeOK
    <3>2. signing[n] \in SignRequest
      BY <1>0 DEF TypeOK
    <3>3. Cardinality(Members) \in Nat
      BY Constants, FS_CardinalityType
    <3>4. CASE signing[n].pc = "idle"
      BY <3>1, <3>4
    <3>5. CASE signing[n].pc # "idle"
      <4>1. signing[n].prop \in Proposals /\ signing[n].seen \in Nat
        BY <1>0, <3>2, <3>3, <3>5 DEF RequestsSound, SignRequest
      <4>2. signing[n].pc \in {"counted", "marked"} =>
               Cardinality(sigs'[signing[n].prop]) >= Threshold
        BY <1>0, <1>6, <4>1 DEF RequestsSound, Quorum
      <4>3. signing[n].pc = "checked" =>
               n \notin sigs'[signing[n].prop]
               /\ signing[n].seen <= Cardinality(sigs'[signing[n].prop])
        <5>1. n \notin sigs[signing[n].prop] => n \notin sigs'[signing[n].prop]
          BY <1>0, <1>2, <2>2, <4>1 DEF TypeOK
        <5>2. Cardinality(sigs[signing[n].prop]) \in Nat /\ Cardinality(sigs'[signing[n].prop]) \in Nat
          BY <1>1, <1>3, <1>4, <1>5, <4>1
        <5> QED
          BY <1>0, <1>7, <4>1, <5>1, <5>2 DEF RequestsSound
      <4> QED
        BY <3>1, <4>1, <4>2, <4>3
    <3> QED
      BY <3>4, <3>5
  <2> QED
    BY <2>1, <2>2
<1>14. JobsSound' /\ (SafeReportsFailure \/ RecordsMatchChain')
  BY <1>2, Frames DEF chainVars, jobVars
<1> QED
  BY <1>10, <1>11, <1>12, <1>13, <1>14 DEF GovernanceInv

(* The other requests.                                                      *)
LEMMA RequestInv == GovernanceInv /\ RequestStep => GovernanceInv'
<1> SUFFICES ASSUME GovernanceInv, RequestStep PROVE GovernanceInv'
  OBVIOUS
<1>0. TypeOK /\ QuorumQueued /\ SendsSound /\ RequestsSound /\ JobsSound
  BY DEF GovernanceInv
<1> USE DEF chainVars, dbVars, requestVars, jobVars, environmentVars
<1>1. ASSUME NEW p \in Proposals, Propose(p) PROVE GovernanceInv'
  <2>1. TypeOK'
    BY <1>0, <1>1 DEF Propose, TypeOK, ProposalStatus
  <2>2. QuorumQueued'
    BY <1>0, <1>1 DEF Propose, QuorumQueued, Quorum, TypeOK
  <2>3. SafeReportsFailure \/ RecordsMatchChain'
    BY <1>0, <1>1 DEF Propose, RecordsMatchChain, TypeOK, GovernanceInv
  <2> QED
    BY <1>1, <2>1, <2>2, <2>3, Frames DEF Propose, GovernanceInv
<1>2. ASSUME NEW p \in Proposals, CancelRead(p) PROVE GovernanceInv'
  <2>1. TypeOK'
    BY <1>0, <1>2 DEF CancelRead, TypeOK
  <2> QED
    BY <1>2, <2>1, Frames DEF CancelRead, GovernanceInv
<1>3. ASSUME NEW p \in Proposals, CancelWrite(p) PROVE GovernanceInv'
  <2>1. TypeOK'
    BY <1>0, <1>3 DEF CancelWrite, TypeOK, ProposalStatus
  <2>2. QuorumQueued'
    BY <1>0, <1>3 DEF CancelWrite, QuorumQueued, Quorum, TypeOK
  <2>3. SafeReportsFailure \/ RecordsMatchChain'
    BY <1>0, <1>3 DEF CancelWrite, RecordsMatchChain, TypeOK, GovernanceInv
  <2> QED
    BY <1>3, <2>1, <2>2, <2>3, Frames DEF CancelWrite, GovernanceInv
<1>4. ASSUME NEW p \in Proposals, Fallback(p) PROVE GovernanceInv'
  <2>1. Quorum(p)
    BY <1>0, <1>4 DEF Fallback, QuorumQueued
  <2>2. 0 \in Attempts
    BY Constants DEF Attempts
  <2>3. TypeOK'
    BY <1>0, <1>4, <2>2, EnqueuedType DEF Fallback, TypeOK
  <2>4. QuorumQueued'
    BY <1>0, <1>4, <2>1, <2>2, QueueEffect, QuorumStep DEF Fallback
  <2> QED
    BY <1>4, <2>3, <2>4, Frames DEF Fallback, GovernanceInv
<1>5. ASSUME NEW m \in Members, NEW p \in Proposals, SignRead(m, p) PROVE GovernanceInv'
  <2> DEFINE new == [pc |-> "checked", prop |-> p, seen |-> Cardinality(sigs[p])]
  <2>1. new \in SignRequest
    BY <1>0, SignaturesFinite DEF SignRequest
  <2>2. signing' = [signing EXCEPT ![m] = new] /\ m \notin sigs[p] /\ UNCHANGED sigs
    BY <1>5 DEF SignRead
  <2>3. new.pc = "checked" /\ new.prop = p /\ new.seen = Cardinality(sigs[p])
    OBVIOUS
  <2>4. Cardinality(sigs[p]) \in Nat
    BY <1>0, SignaturesFinite
  <2> HIDE DEF new
  <2>5. TypeOK'
    BY <1>0, <1>5, <2>1, <2>2 DEF SignRead, TypeOK
  <2>6. RequestsSound'
    BY <1>0, <2>2, <2>3, <2>4 DEF RequestsSound, TypeOK, Quorum
  <2> QED
    BY <1>5, <2>5, <2>6, Frames DEF SignRead, GovernanceInv
<1>6. ASSUME NEW m \in Members, SignStore(m) PROVE GovernanceInv'
  BY <1>6, SignStoreInv
<1>7. ASSUME NEW m \in Members, SignMark(m) PROVE GovernanceInv'
  <2>1. PICK p \in Proposals : p = signing[m].prop /\ Quorum(p)
    BY <1>0, <1>7 DEF SignMark, RequestsSound
  <2> DEFINE new == [pc |-> "marked", prop |-> p, seen |-> signing[m].seen]
  <2>2. new \in SignRequest
    BY <1>0 DEF TypeOK, SignRequest
  <2>3. signing' = [signing EXCEPT ![m] = new] /\ UNCHANGED sigs
        /\ status' = [status EXCEPT ![p] = "THRESHOLD_MET"]
    BY <1>0, <1>7, <2>1 DEF SignMark, TypeOK
  <2>4. new.pc = "marked" /\ new.prop = p
    OBVIOUS
  <2> HIDE DEF new
  <2>5. TypeOK'
    <3>1. UNCHANGED <<chainVars, nonceOf, sigs, row, cancelling, jobVars, reconciler, indexed,
                      environmentVars>>
      BY <1>7 DEF SignMark
    <3>2. signing' \in [Members -> SignRequest] /\ status' \in [Proposals -> ProposalStatus]
      BY <1>0, <2>2, <2>3 DEF TypeOK, ProposalStatus
    <3> QED
      BY <1>0, <3>1, <3>2 DEF TypeOK
  <2>6. RequestsSound'
    BY <1>0, <2>1, <2>3, <2>4 DEF RequestsSound, TypeOK, Quorum
  <2>7. QuorumQueued'
    BY <1>0, <1>7, <2>1, <2>3 DEF SignMark, QuorumQueued, Quorum, TypeOK
  <2>8. SafeReportsFailure \/ RecordsMatchChain'
    BY <1>0, <1>7, <2>3 DEF SignMark, RecordsMatchChain, TypeOK, GovernanceInv
  <2> QED
    BY <1>7, <2>5, <2>6, <2>7, <2>8, Frames DEF SignMark, GovernanceInv
<1>8. ASSUME NEW m \in Members, SignEnqueue(m) PROVE GovernanceInv'
  <2>1. PICK p \in Proposals : p = signing[m].prop /\ Quorum(p)
    BY <1>0, <1>8 DEF SignEnqueue, RequestsSound
  <2>2. 0 \in Attempts
    BY Constants DEF Attempts
  <2>3. TypeOK'
    BY <1>0, <1>8, <2>1, <2>2, EnqueuedType, IdleType DEF SignEnqueue, TypeOK
  <2>4. QuorumQueued'
    BY <1>0, <1>8, <2>1, <2>2, QueueEffect, QuorumStep DEF SignEnqueue
  <2>5. RequestsSound'
    <3>1. signing' = [signing EXCEPT ![m] = NoRequest] /\ UNCHANGED sigs
      BY <1>8 DEF SignEnqueue
    <3>2. NoRequest.pc = "idle"
      BY DEF NoRequest
    <3> QED
      BY <1>0, <3>1, <3>2 DEF RequestsSound, TypeOK, Quorum
  <2> QED
    BY <1>8, <2>3, <2>4, <2>5, Frames DEF SignEnqueue, GovernanceInv
<1> QED
  BY <1>1, <1>2, <1>3, <1>4, <1>5, <1>6, <1>7, <1>8 DEF RequestStep

-----------------------------------------------------------------------------
(* RECORDING WHAT THE CHAIN DID                                             *)

(* Whoever records a transaction whose receipt is good, the database claims *)
(* no more than the chain.                                                  *)
LEMMA RecordExecutedSound ==
    ASSUME GovernanceInv, NEW h \in Sends, ReceiptOk(h), RecordExecuted(sentFor[h], h),
           UNCHANGED <<executed, outcome, sentFor, sigs, queue, exhausted>>,
           worker' = worker \/ worker' = NoJob
    PROVE  /\ status' \in [Proposals -> ProposalStatus] /\ row' \in [Sends -> RowStatus]
           /\ QuorumQueued' /\ SendsSound' /\ (SafeReportsFailure \/ RecordsMatchChain')
           /\ \A g \in Sends : row[g] # "absent" => row'[g] # "absent"
<1>0. TypeOK /\ SendsSound /\ QuorumQueued
  BY DEF GovernanceInv
<1>1. PICK p \in Proposals : p = sentFor[h] /\ Quorum(p)
  BY <1>0 DEF ReceiptOk, SendsSound
<1>2. status' = [status EXCEPT ![p] = "EXECUTED"] /\ row' = [row EXCEPT ![h] = "MINED"]
  BY <1>1 DEF RecordExecuted
<1>3. status' \in [Proposals -> ProposalStatus] /\ row' \in [Sends -> RowStatus]
  BY <1>0, <1>2 DEF TypeOK, ProposalStatus, RowStatus
<1>4. NoJob.prop \notin Proposals
  BY Constants DEF NoJob
<1>5. QuorumQueued'
  BY <1>0, <1>1, <1>2, <1>4 DEF QuorumQueued, Quorum, TypeOK
<1>6. SendsSound'
  BY <1>0, <1>2 DEF SendsSound, ReceiptOk, TypeOK, Quorum
<1>7. SafeReportsFailure \/ RecordsMatchChain'
  BY <1>0, <1>1, <1>2 DEF GovernanceInv, RecordsMatchChain, SendsSound, ReceiptOk, TypeOK
<1>8. \A g \in Sends : row[g] # "absent" => row'[g] # "absent"
  BY <1>0, <1>2 DEF TypeOK
<1> QED
  BY <1>3, <1>5, <1>6, <1>7, <1>8

(* A row set FAILED is of a transaction that did not succeed.               *)
LEMMA RecordFailedSound ==
    ASSUME GovernanceInv, NEW h \in Sends, outcome[h] \in {"failed", "reverted"},
           row' = [row EXCEPT ![h] = "FAILED"] \/ row' = row,
           UNCHANGED <<executed, outcome, sentFor, sigs>>
    PROVE  /\ row' \in [Sends -> RowStatus] /\ SendsSound'
           /\ \A g \in Sends : row[g] # "absent" => row'[g] # "absent"
           /\ (\A p \in Proposals : status'[p] = "EXECUTED" => status[p] = "EXECUTED")
                 => (SafeReportsFailure \/ RecordsMatchChain')
<1>0. TypeOK /\ SendsSound
  BY DEF GovernanceInv
<1>1. row' \in [Sends -> RowStatus]
  BY <1>0 DEF TypeOK, RowStatus
<1>2. SendsSound'
  BY <1>0 DEF SendsSound, TypeOK, Quorum
<1>3. \A g \in Sends : row[g] # "absent" => row'[g] # "absent"
  BY <1>0 DEF TypeOK
<1>4. (\A p \in Proposals : status'[p] = "EXECUTED" => status[p] = "EXECUTED")
         => (SafeReportsFailure \/ RecordsMatchChain')
  BY <1>0 DEF GovernanceInv, RecordsMatchChain, TypeOK
<1> QED
  BY <1>1, <1>2, <1>3, <1>4

(* EXECUTION_FAILED is set for a proposal that has a quorum.                *)
LEMMA SetFailedSound ==
    ASSUME GovernanceInv, NEW p \in Proposals, Quorum(p), SetFailed(p),
           UNCHANGED <<sigs, queue, worker>>, exhausted' \subseteq exhausted
    PROVE  /\ status' \in [Proposals -> ProposalStatus] /\ QuorumQueued'
           /\ \A q \in Proposals : status'[q] = "EXECUTED" => status[q] = "EXECUTED"
           /\ UNCHANGED <<executed, outcome, sentFor, row>> => (SafeReportsFailure \/ RecordsMatchChain')
<1>0. TypeOK /\ QuorumQueued
  BY DEF GovernanceInv
<1>1. status' \in [Proposals -> ProposalStatus]
  BY <1>0 DEF TypeOK, ProposalStatus, SetFailed
<1>2. QuorumQueued'
  BY <1>0 DEF QuorumQueued, Quorum, SetFailed, TypeOK
<1>3. \A q \in Proposals : status'[q] = "EXECUTED" => status[q] = "EXECUTED"
  BY <1>0 DEF SetFailed, TypeOK
<1>4. UNCHANGED <<executed, outcome, sentFor, row>> => (SafeReportsFailure \/ RecordsMatchChain')
  BY <1>3 DEF GovernanceInv, RecordsMatchChain
<1> QED
  BY <1>1, <1>2, <1>3, <1>4

(* A transaction sent now is of a proposal with a quorum, and has no row.   *)
LEMMA SentSound ==
    ASSUME GovernanceInv, NEW h \in Sends, NEW p \in Proposals, Quorum(p), NextSend(h), Sent(h, p),
           UNCHANGED <<status, row, sigs>>
    PROVE  /\ outcome' \in [Sends -> Outcome]
           /\ sentFor' \in [Sends -> Proposals \cup {NoProposal}]
           /\ SendsSound' /\ (SafeReportsFailure \/ RecordsMatchChain')
           /\ \A g \in Sends : outcome[g] # "unsent" =>
                 outcome'[g] # "unsent" /\ sentFor'[g] = sentFor[g]
           /\ outcome'[h] # "unsent" /\ sentFor'[h] = p
<1>0. TypeOK /\ SendsSound
  BY DEF GovernanceInv
<1>1. outcome[h] = "unsent" /\ outcome' = [outcome EXCEPT ![h] = "pending"]
      /\ sentFor' = [sentFor EXCEPT ![h] = p] /\ UNCHANGED executed
  BY DEF NextSend, Sent
<1>2. /\ outcome' \in [Sends -> Outcome]
      /\ sentFor' \in [Sends -> Proposals \cup {NoProposal}]
  BY <1>0, <1>1 DEF TypeOK, Outcome
<1>3. SendsSound'
  BY <1>0, <1>1 DEF SendsSound, TypeOK, Quorum
<1>4. SafeReportsFailure \/ RecordsMatchChain'
  BY <1>0, <1>1 DEF GovernanceInv, RecordsMatchChain, SendsSound, TypeOK
<1>5. /\ \A g \in Sends : outcome[g] # "unsent" =>
            outcome'[g] # "unsent" /\ sentFor'[g] = sentFor[g]
      /\ outcome'[h] # "unsent" /\ sentFor'[h] = p
  BY <1>0, <1>1 DEF TypeOK
<1> QED
  BY <1>2, <1>3, <1>4, <1>5

-----------------------------------------------------------------------------
(* THE WORKER                                                               *)

(* Taking a job and sending its transaction.                                *)
LEMMA WorkerSendInv ==
    ASSUME GovernanceInv
    PROVE  /\ \A p \in Proposals, a \in Attempts : TakeStep(p, a) => GovernanceInv'
           /\ SendStep => GovernanceInv'
<1>0. TypeOK /\ QuorumQueued /\ SendsSound /\ RequestsSound /\ JobsSound
  BY DEF GovernanceInv
<1> USE DEF chainVars, dbVars, requestVars, jobVars, environmentVars
<1>1. ASSUME NEW p \in Proposals, NEW a \in Attempts, WorkerSkip(p, a) PROVE GovernanceInv'
  <2>1. Quorum(p)
    BY <1>1, QuorumFacts DEF WorkerSkip, Waiting
  <2>2. TypeOK'
    BY <1>0, <1>1, EnqueuedType DEF WorkerSkip, Waiting, TypeOK
  <2>3. QuorumQueued'
    BY <1>0, <1>1, <2>1, QueueEffect, QuorumStep DEF WorkerSkip
  <2> QED
    BY <1>1, <2>2, <2>3, Frames DEF WorkerSkip, GovernanceInv
<1>2. ASSUME NEW p \in Proposals, NEW a \in Attempts, WorkerLoad(p, a) PROVE GovernanceInv'
  <2>1. Quorum(p)
    BY <1>2, QuorumFacts DEF WorkerLoad, Waiting
  <2>2. worker' = [pc |-> "loaded", prop |-> p, attempt |-> a, hash |-> 0] /\ worker' \in Job
    BY <1>2, Constants DEF WorkerLoad, Job
  <2>3. TypeOK'
    BY <1>0, <1>2, <2>2, EnqueuedType DEF WorkerLoad, Waiting, TypeOK
  <2>4. QuorumQueued'
    BY <1>0, <1>2, <2>1, <2>2, QueueEffect, QuorumStep DEF WorkerLoad
  <2>5. JobsSound'
    BY <1>0, <1>2, <2>2 DEF WorkerLoad, JobsSound
  <2> QED
    BY <1>2, <2>3, <2>4, <2>5, Frames DEF WorkerLoad, GovernanceInv
<1>3. ASSUME WorkerSendFails PROVE GovernanceInv'
  <2>1. worker.pc # "idle" /\ AttemptFails
    BY <1>3 DEF WorkerSendFails
  <2>2. QuorumQueued' /\ worker' = NoJob
    BY <1>3, <2>1, AttemptFailsSound DEF WorkerSendFails
  <2>3. TypeOK'
    BY <1>0, <1>3, <2>1, AttemptFailsType DEF WorkerSendFails, TypeOK
  <2>4. JobsSound'
    BY <1>0, <1>3, <2>2 DEF WorkerSendFails, JobsSound, NoJob
  <2> QED
    BY <1>3, <2>2, <2>3, <2>4, Frames DEF WorkerSendFails, GovernanceInv
<1>4. ASSUME NEW h \in Sends, WorkerSend(h) PROVE GovernanceInv'
  <2>1. PICK p \in Proposals : p = worker.prop /\ Quorum(p)
    BY <1>4, QuorumFacts DEF WorkerSend
  <2>2. worker.attempt \in Attempts
    BY <1>0 DEF TypeOK, Job
  <2>3. worker' = [pc |-> "sent", prop |-> p, attempt |-> worker.attempt, hash |-> h]
        /\ worker' \in Job
    BY <1>4, <2>1, <2>2 DEF WorkerSend, Job
  <2>4. NextSend(h) /\ Sent(h, p) /\ UNCHANGED <<status, row, sigs>>
    BY <1>4, <2>1 DEF WorkerSend
  <2>5. TypeOK'
    BY <1>0, <1>4, <2>1, <2>3, <2>4, SentSound DEF WorkerSend, Sent, TypeOK
  <2>6. QuorumQueued'
    BY <1>0, <1>4, <2>1, <2>3 DEF WorkerSend, QuorumQueued, Quorum
  <2>7. JobsSound'
    BY <1>0, <1>4, <2>1, <2>3, <2>4, SentSound DEF WorkerSend, JobsSound
  <2>8. SendsSound' /\ (SafeReportsFailure \/ RecordsMatchChain')
    BY <2>1, <2>4, SentSound
  <2> QED
    BY <1>4, <2>5, <2>6, <2>7, <2>8, Frames DEF WorkerSend, GovernanceInv
<1>5. ASSUME NEW h \in Sends, WorkerSendUnseen(h) PROVE GovernanceInv'
  <2>1. PICK p \in Proposals : p = worker.prop /\ Quorum(p)
    BY <1>5, QuorumFacts DEF WorkerSendUnseen
  <2>2. worker.pc # "idle" /\ AttemptFails
    BY <1>5 DEF WorkerSendUnseen
  <2>3. QuorumQueued' /\ worker' = NoJob
    BY <1>5, <2>2, AttemptFailsSound DEF WorkerSendUnseen
  <2>4. NextSend(h) /\ Sent(h, p) /\ UNCHANGED <<status, row, sigs>>
    BY <1>5, <2>1 DEF WorkerSendUnseen
  <2>5. TypeOK'
    BY <1>0, <1>5, <2>1, <2>2, <2>4, SentSound, AttemptFailsType DEF WorkerSendUnseen, Sent, TypeOK
  <2>6. JobsSound'
    BY <1>0, <1>5, <2>3, <2>4 DEF WorkerSendUnseen, JobsSound, NoJob
  <2>7. SendsSound' /\ (SafeReportsFailure \/ RecordsMatchChain')
    BY <2>1, <2>4, SentSound
  <2> QED
    BY <1>5, <2>3, <2>5, <2>6, <2>7, Frames DEF WorkerSendUnseen, GovernanceInv
<1> QED
  BY <1>1, <1>2, <1>3, <1>4, <1>5 DEF TakeStep, SendStep

(* Recording the hash, waiting for the receipt, and the listener.           *)
LEMMA WorkerWaitInv ==
    ASSUME GovernanceInv
    PROVE  /\ WorkerRecord => GovernanceInv'
           /\ WaitStep => GovernanceInv'
           /\ \A p \in Proposals : MarkProposalAsFailed(p) => GovernanceInv'
<1>0. TypeOK /\ QuorumQueued /\ SendsSound /\ RequestsSound /\ JobsSound
  BY DEF GovernanceInv
<1> USE DEF chainVars, dbVars, requestVars, jobVars, environmentVars
<1>1. ASSUME WorkerRecord PROVE GovernanceInv'
  <2>1. /\ worker.hash \in Sends /\ outcome[worker.hash] # "unsent"
        /\ sentFor[worker.hash] = worker.prop /\ worker.prop \in Proposals
        /\ worker.attempt \in Attempts
    BY <1>0, <1>1 DEF WorkerRecord, JobsSound, TypeOK, Job
  <2>2. worker' \in Job /\ worker'.prop = worker.prop /\ worker'.hash = worker.hash
        /\ worker'.pc = "recorded"
    BY <1>1, <2>1 DEF WorkerRecord, Job
  <2>3. row' \in [Sends -> RowStatus]
    BY <1>0, <1>1, <2>1 DEF WorkerRecord, TypeOK, RowStatus
  <2>4. row' = row \/ (row[worker.hash] = "absent" /\ row' = [row EXCEPT ![worker.hash] = "PENDING"])
    BY <1>0, <1>1, <2>1 DEF WorkerRecord, HasRow, TypeOK
  <2>5. TypeOK'
    BY <1>0, <1>1, <2>2, <2>3 DEF WorkerRecord, TypeOK
  <2>6. QuorumQueued'
    BY <1>0, <1>1, <2>2 DEF WorkerRecord, QuorumQueued, Quorum
  <2>7. SendsSound'
    BY <1>0, <1>1, <2>1, <2>4 DEF WorkerRecord, SendsSound, Quorum, TypeOK
  <2>8. JobsSound'
    BY <1>0, <1>1, <2>1, <2>2, <2>4 DEF WorkerRecord, JobsSound, TypeOK
  <2>9. SafeReportsFailure \/ RecordsMatchChain'
    BY <1>0, <1>1, <2>1, <2>4 DEF WorkerRecord, GovernanceInv, RecordsMatchChain, TypeOK
  <2> QED
    BY <1>1, <2>5, <2>6, <2>7, <2>8, <2>9, Frames DEF WorkerRecord, GovernanceInv
<1>2. ASSUME WorkerConfirm PROVE GovernanceInv'
  <2>1. PICK h \in Sends : h = worker.hash /\ sentFor[h] = worker.prop /\ worker.pc = "recorded"
    BY <1>0, <1>2 DEF WorkerConfirm, JobsSound
  <2>2. CASE row[h] # "absent"
    <3>1. /\ RecordExecuted(sentFor[h], h) /\ worker' = NoJob /\ UNCHANGED <<queue, exhausted>>
          /\ ReceiptOk(h)
      BY <1>2, <2>1, <2>2 DEF WorkerConfirm
    <3>2. /\ status' \in [Proposals -> ProposalStatus] /\ row' \in [Sends -> RowStatus]
          /\ QuorumQueued' /\ SendsSound' /\ (SafeReportsFailure \/ RecordsMatchChain')
          /\ \A g \in Sends : row[g] # "absent" => row'[g] # "absent"
      BY <1>2, <3>1, RecordExecutedSound DEF WorkerConfirm
    <3>3. TypeOK'
      BY <1>0, <1>2, <3>1, <3>2, IdleType DEF WorkerConfirm, TypeOK
    <3>4. JobsSound'
      BY <1>0, <1>2, <3>1, <3>2 DEF WorkerConfirm, JobsSound, NoJob
    <3> QED
      BY <1>2, <3>2, <3>3, <3>4, Frames DEF WorkerConfirm, GovernanceInv
  <2>3. CASE row[h] = "absent"
    <3>1. worker.pc # "idle" /\ AttemptFails /\ UNCHANGED <<status, row>>
      BY <1>2, <2>1, <2>3 DEF WorkerConfirm
    <3>2. QuorumQueued' /\ worker' = NoJob
      BY <1>2, <3>1, AttemptFailsSound DEF WorkerConfirm
    <3>3. TypeOK'
      BY <1>0, <1>2, <3>1, AttemptFailsType DEF WorkerConfirm, TypeOK
    <3>4. JobsSound'
      BY <1>0, <1>2, <3>1, <3>2 DEF WorkerConfirm, JobsSound, NoJob
    <3> QED
      BY <1>2, <3>1, <3>2, <3>3, <3>4, Frames DEF WorkerConfirm, GovernanceInv
  <2> QED
    BY <2>2, <2>3
<1>3. ASSUME WorkerReverted PROVE GovernanceInv'
  <2>1. PICK h \in Sends : h = worker.hash /\ outcome[h] = "reverted"
    BY <1>0, <1>3 DEF WorkerReverted, JobsSound
  <2>2. worker.pc # "idle" /\ AttemptFails
    BY <1>3 DEF WorkerReverted
  <2>3. QuorumQueued' /\ worker' = NoJob
    BY <1>3, <2>2, AttemptFailsSound DEF WorkerReverted
  <2>4. row' = [row EXCEPT ![h] = "FAILED"] \/ row' = row
    BY <1>0, <1>3, <2>1 DEF WorkerReverted, TypeOK
  <2>5. /\ row' \in [Sends -> RowStatus] /\ SendsSound' /\ (SafeReportsFailure \/ RecordsMatchChain')
        /\ \A g \in Sends : row[g] # "absent" => row'[g] # "absent"
    BY <1>3, <2>1, <2>4, RecordFailedSound DEF WorkerReverted
  <2>6. TypeOK'
    BY <1>0, <1>3, <2>2, <2>5, AttemptFailsType DEF WorkerReverted, TypeOK
  <2>7. JobsSound'
    BY <1>0, <1>3, <2>3, <2>5 DEF WorkerReverted, JobsSound, NoJob
  <2> QED
    BY <1>3, <2>3, <2>5, <2>6, <2>7, Frames DEF WorkerReverted, GovernanceInv
<1>4. ASSUME WorkerWaitFails PROVE GovernanceInv'
  <2>1. worker.pc # "idle" /\ AttemptFails
    BY <1>4 DEF WorkerWaitFails
  <2>2. QuorumQueued' /\ worker' = NoJob
    BY <1>4, <2>1, AttemptFailsSound DEF WorkerWaitFails
  <2>3. TypeOK'
    BY <1>0, <1>4, <2>1, AttemptFailsType DEF WorkerWaitFails, TypeOK
  <2>4. JobsSound'
    BY <1>0, <1>4, <2>2 DEF WorkerWaitFails, JobsSound, NoJob
  <2> QED
    BY <1>4, <2>2, <2>3, <2>4, Frames DEF WorkerWaitFails, GovernanceInv
<1>5. ASSUME NEW p \in Proposals, MarkProposalAsFailed(p) PROVE GovernanceInv'
  <2>1. Quorum(p) /\ SetFailed(p) /\ exhausted' \subseteq exhausted
    BY <1>5, QuorumFacts DEF MarkProposalAsFailed
  <2>2. /\ status' \in [Proposals -> ProposalStatus] /\ QuorumQueued'
        /\ (SafeReportsFailure \/ RecordsMatchChain')
    BY <1>5, <2>1, SetFailedSound DEF MarkProposalAsFailed
  <2>3. TypeOK'
    BY <1>0, <1>5, <2>1, <2>2 DEF MarkProposalAsFailed, TypeOK
  <2> QED
    BY <1>5, <2>2, <2>3, Frames DEF MarkProposalAsFailed, GovernanceInv
<1> QED
  BY <1>1, <1>2, <1>3, <1>4, <1>5 DEF WaitStep

-----------------------------------------------------------------------------
(* THE CHAIN                                                                *)

(* A pending transaction is mined, with any of its three outcomes.          *)
LEMMA MineInv ==
    ASSUME GovernanceInv, NEW h \in Sends
    PROVE  MineStep(h) => GovernanceInv'
<1>0. TypeOK /\ QuorumQueued /\ SendsSound /\ RequestsSound /\ JobsSound
  BY DEF GovernanceInv
<1> USE DEF chainVars, dbVars, requestVars, jobVars, environmentVars
<1>1. ASSUME MineOk(h) PROVE GovernanceInv'
  <2>1. PICK p \in Proposals : p = sentFor[h] /\ outcome[h] = "pending"
    BY <1>0, <1>1 DEF MineOk, SendsSound
  <2>2. /\ outcome' = [outcome EXCEPT ![h] = "ok"] /\ executed' = executed \cup {p}
        /\ safeNonce' = safeNonce + 1 /\ UNCHANGED <<sentFor, row, status, sigs>>
    BY <1>1, <2>1 DEF MineOk
  <2>3. TypeOK'
    BY <1>0, <1>1, <2>2 DEF MineOk, TypeOK, Outcome
  <2>4. SendsSound'
    BY <1>0, <2>1, <2>2 DEF SendsSound, TypeOK, Quorum
  <2>5. JobsSound'
    BY <1>0, <1>1, <2>2 DEF MineOk, JobsSound, TypeOK
  <2>6. SafeReportsFailure \/ RecordsMatchChain'
    BY <1>0, <2>1, <2>2 DEF GovernanceInv, RecordsMatchChain, TypeOK
  <2> QED
    BY <1>1, <2>3, <2>4, <2>5, <2>6, Frames DEF MineOk, GovernanceInv
<1>2. ASSUME MineFailed(h) PROVE GovernanceInv'
  <2>1. /\ outcome' = [outcome EXCEPT ![h] = "failed"] /\ outcome[h] = "pending"
        /\ SafeReportsFailure
        /\ safeNonce' = safeNonce + 1 /\ UNCHANGED <<executed, sentFor, row, status, sigs>>
    BY <1>2 DEF MineFailed
  <2>2. TypeOK'
    BY <1>0, <1>2, <2>1 DEF MineFailed, TypeOK, Outcome
  <2>3. SendsSound'
    BY <1>0, <2>1 DEF SendsSound, TypeOK, Quorum
  <2>4. JobsSound'
    BY <1>0, <1>2, <2>1 DEF MineFailed, JobsSound, TypeOK
  <2> QED
    BY <1>2, <2>1, <2>2, <2>3, <2>4, Frames DEF MineFailed, GovernanceInv
<1>3. ASSUME MineReverted(h) PROVE GovernanceInv'
  <2>1. /\ outcome' = [outcome EXCEPT ![h] = "reverted"] /\ outcome[h] = "pending"
        /\ UNCHANGED <<executed, sentFor, row, status, sigs>>
    BY <1>3 DEF MineReverted
  <2>2. TypeOK'
    BY <1>0, <1>3, <2>1 DEF MineReverted, TypeOK, Outcome
  <2>3. SendsSound'
    BY <1>0, <2>1 DEF SendsSound, TypeOK, Quorum
  <2>4. JobsSound'
    BY <1>0, <1>3, <2>1 DEF MineReverted, JobsSound, TypeOK
  <2>5. SafeReportsFailure \/ RecordsMatchChain'
    BY <1>0, <2>1 DEF GovernanceInv, RecordsMatchChain, TypeOK
  <2> QED
    BY <1>3, <2>2, <2>3, <2>4, <2>5, Frames DEF MineReverted, GovernanceInv
<1> QED
  BY <1>1, <1>2, <1>3 DEF MineStep

-----------------------------------------------------------------------------
(* THE SWEEP AND THE INDEXER                                                *)

(* The transaction of a row is known to be sent.                            *)
LEMMA SweptFacts ==
    ASSUME GovernanceInv, reconciler.pc # "idle"
    PROVE  \E h \in Sends :
             /\ h = reconciler.hash /\ row[h] # "absent"
             /\ sentFor[h] \in Proposals /\ Quorum(sentFor[h])
BY DEF GovernanceInv, JobsSound, SendsSound

(* Whatever the sweep finds, it records no more than the chain did.         *)
LEMMA SweepInv == GovernanceInv /\ SweepStep => GovernanceInv'
<1> SUFFICES ASSUME GovernanceInv, SweepStep PROVE GovernanceInv'
  OBVIOUS
<1>0. TypeOK /\ QuorumQueued /\ SendsSound /\ RequestsSound /\ JobsSound
  BY DEF GovernanceInv
<1> USE DEF chainVars, dbVars, requestVars, jobVars, environmentVars
<1>1. ASSUME NEW h \in Sends, SweepPick(h) PROVE GovernanceInv'
  <2>1. TypeOK'
    BY <1>0, <1>1 DEF SweepPick, TypeOK, Sweep
  <2>2. JobsSound'
    BY <1>0, <1>1 DEF SweepPick, JobsSound
  <2> QED
    BY <1>1, <2>1, <2>2, Frames DEF SweepPick, GovernanceInv
<1>2. ASSUME SweepSkip PROVE GovernanceInv'
  <2>1. TypeOK'
    BY <1>0, <1>2, IdleType DEF SweepSkip, TypeOK
  <2>2. JobsSound'
    BY <1>0, <1>2 DEF SweepSkip, JobsSound, NoSweep
  <2> QED
    BY <1>2, <2>1, <2>2, Frames DEF SweepSkip, GovernanceInv
<1>3. ASSUME SweepConfirm PROVE GovernanceInv'
  <2>1. PICK h \in Sends : h = reconciler.hash
    BY <1>3, SweptFacts DEF SweepConfirm
  <2>2. ReceiptOk(h) /\ RecordExecuted(sentFor[h], h)
    BY <1>3, <2>1 DEF SweepConfirm
  <2>3. /\ status' \in [Proposals -> ProposalStatus] /\ row' \in [Sends -> RowStatus]
        /\ QuorumQueued' /\ SendsSound' /\ (SafeReportsFailure \/ RecordsMatchChain')
        /\ \A g \in Sends : row[g] # "absent" => row'[g] # "absent"
    BY <1>3, <2>2, RecordExecutedSound DEF SweepConfirm
  <2>4. TypeOK'
    BY <1>0, <1>3, <2>3, IdleType DEF SweepConfirm, TypeOK
  <2>5. JobsSound'
    BY <1>0, <1>3, <2>3 DEF SweepConfirm, JobsSound, NoSweep
  <2> QED
    BY <1>3, <2>3, <2>4, <2>5, Frames DEF SweepConfirm, GovernanceInv
<1>4. ASSUME SweepRevert PROVE GovernanceInv'
  <2>1. PICK h \in Sends : h = reconciler.hash
    BY <1>4, SweptFacts DEF SweepRevert
  <2>2. outcome[h] = "reverted" /\ row' = [row EXCEPT ![h] = "FAILED"]
        /\ reconciler' = [pc |-> "rolling", hash |-> h]
    BY <1>4, <2>1 DEF SweepRevert
  <2>3. /\ row' \in [Sends -> RowStatus] /\ SendsSound' /\ (SafeReportsFailure \/ RecordsMatchChain')
        /\ \A g \in Sends : row[g] # "absent" => row'[g] # "absent"
    BY <1>4, <2>2, RecordFailedSound DEF SweepRevert
  <2>4. TypeOK'
    BY <1>0, <1>4, <2>2, <2>3 DEF SweepRevert, TypeOK, Sweep
  <2>5. row'[h] # "absent"
    BY <1>0, <2>2 DEF TypeOK
  <2>6. JobsSound'
    BY <1>0, <1>4, <2>2, <2>5 DEF SweepRevert, JobsSound
  <2> QED
    BY <1>4, <2>3, <2>4, <2>6, Frames DEF SweepRevert, GovernanceInv
<1>5. ASSUME SweepRollBack PROVE GovernanceInv'
  <2>1. PICK p \in Proposals : p = sentFor[reconciler.hash] /\ Quorum(p)
    BY <1>5, SweptFacts DEF SweepRollBack
  <2>2. SetFailed(p)
    BY <1>5, <2>1 DEF SweepRollBack
  <2>3. /\ status' \in [Proposals -> ProposalStatus] /\ QuorumQueued'
        /\ (SafeReportsFailure \/ RecordsMatchChain')
    BY <1>5, <2>1, <2>2, SetFailedSound DEF SweepRollBack
  <2>4. TypeOK'
    BY <1>0, <1>5, <2>3, IdleType DEF SweepRollBack, TypeOK
  <2>5. JobsSound'
    BY <1>0, <1>5 DEF SweepRollBack, JobsSound, NoSweep
  <2> QED
    BY <1>5, <2>3, <2>4, <2>5, Frames DEF SweepRollBack, GovernanceInv
<1>6. ASSUME NEW p \in Proposals, SweepRequeue(p) PROVE GovernanceInv'
  <2>1. Quorum(p)
    BY <1>0, <1>6 DEF SweepRequeue, Stuck, QuorumQueued
  <2>2. 0 \in Attempts
    BY Constants DEF Attempts
  <2>3. TypeOK'
    BY <1>0, <1>6, <2>2, EnqueuedType DEF SweepRequeue, TypeOK
  <2>4. QuorumQueued'
    BY <1>0, <1>6, <2>1, <2>2, QueueEffect, QuorumStep DEF SweepRequeue
  <2> QED
    BY <1>6, <2>3, <2>4, Frames DEF SweepRequeue, GovernanceInv
<1> QED
  BY <1>1, <1>2, <1>3, <1>4, <1>5, <1>6 DEF SweepStep, SweepReadStep

(* Nor does the indexer, whichever event it reads.                          *)
LEMMA IndexInv ==
    ASSUME GovernanceInv, NEW h \in Sends
    PROVE  IndexStep(h) => GovernanceInv'
<1>0. TypeOK /\ QuorumQueued /\ SendsSound /\ RequestsSound /\ JobsSound
  BY DEF GovernanceInv
<1> USE DEF chainVars, dbVars, requestVars, jobVars, environmentVars
<1>1. ASSUME IndexStep(h), UNCHANGED <<status, row>> PROVE GovernanceInv'
  <2>1. UNCHANGED <<chainVars, nonceOf, sigs, requestVars, jobVars, reconciler, environmentVars>>
        /\ indexed' = indexed \cup {h}
    BY <1>1 DEF IndexStep, IndexSuccess, IndexFailure
  <2>2. TypeOK'
    BY <1>0, <1>1, <2>1 DEF TypeOK
  <2> QED
    BY <1>1, <2>1, <2>2, Frames DEF GovernanceInv
<1>2. ASSUME IndexSuccess(h), Storable(h) PROVE GovernanceInv'
  <2>1. ReceiptOk(h) /\ RecordExecuted(sentFor[h], h)
    BY <1>2 DEF IndexSuccess, ReceiptOk
  <2>2. /\ status' \in [Proposals -> ProposalStatus] /\ row' \in [Sends -> RowStatus]
        /\ QuorumQueued' /\ SendsSound' /\ (SafeReportsFailure \/ RecordsMatchChain')
        /\ \A g \in Sends : row[g] # "absent" => row'[g] # "absent"
    BY <1>2, <2>1, RecordExecutedSound DEF IndexSuccess
  <2>3. TypeOK'
    BY <1>0, <1>2, <2>2 DEF IndexSuccess, TypeOK
  <2>4. JobsSound'
    BY <1>0, <1>2, <2>2 DEF IndexSuccess, JobsSound
  <2> QED
    BY <1>2, <2>2, <2>3, <2>4, Frames DEF IndexSuccess, GovernanceInv
<1>3. ASSUME IndexFailure(h), ~UNCHANGED <<status, row>> PROVE GovernanceInv'
  <2>1. PICK p \in Proposals : p = sentFor[h] /\ Quorum(p)
    BY <1>0, <1>3 DEF IndexFailure, SendsSound
  <2>2. outcome[h] = "failed" /\ SetFailed(p) /\ row' = [row EXCEPT ![h] = "FAILED"]
    BY <1>3, <2>1 DEF IndexFailure
  <2>3. /\ status' \in [Proposals -> ProposalStatus] /\ QuorumQueued'
        /\ \A q \in Proposals : status'[q] = "EXECUTED" => status[q] = "EXECUTED"
    BY <1>3, <2>1, <2>2, SetFailedSound DEF IndexFailure
  <2>4. /\ row' \in [Sends -> RowStatus] /\ SendsSound' /\ (SafeReportsFailure \/ RecordsMatchChain')
        /\ \A g \in Sends : row[g] # "absent" => row'[g] # "absent"
    BY <1>3, <2>2, <2>3, RecordFailedSound DEF IndexFailure
  <2>5. TypeOK'
    BY <1>0, <1>3, <2>3, <2>4 DEF IndexFailure, TypeOK
  <2>6. JobsSound'
    BY <1>0, <1>3, <2>4 DEF IndexFailure, JobsSound
  <2> QED
    BY <1>3, <2>3, <2>4, <2>5, <2>6, Frames DEF IndexFailure, GovernanceInv
<1> QED
  BY <1>1, <1>2, <1>3 DEF IndexStep, IndexSuccess

-----------------------------------------------------------------------------
(* THE ENVIRONMENT                                                          *)

(* A crash forgets requests and gives the job in hand back to the queue.    *)
LEMMA CrashInv == GovernanceInv /\ Crash => GovernanceInv'
<1> SUFFICES ASSUME GovernanceInv, Crash PROVE GovernanceInv'
  OBVIOUS
<1>0. TypeOK /\ QuorumQueued /\ SendsSound /\ RequestsSound /\ JobsSound
  BY DEF GovernanceInv
<1> USE DEF chainVars, dbVars, requestVars, jobVars, environmentVars
<1>1. /\ signing' = [m \in Members |-> NoRequest] /\ cancelling' = {} /\ exhausted' = {}
      /\ reconciler' = NoSweep /\ worker' = NoJob
      /\ crashes' = crashes + 1 /\ crashes < MaxCrashes
      /\ UNCHANGED <<chainVars, dbVars, indexed, losses>>
  BY DEF Crash
<1>2. /\ NoRequest.pc = "idle" /\ NoSweep.pc = "idle"
      /\ NoJob.pc = "idle" /\ NoJob.prop \notin Proposals
  BY Constants DEF NoRequest, NoSweep, NoJob
<1>3. crashes' \in 0 .. MaxCrashes
  BY <1>0, <1>1, Constants DEF TypeOK
<1>4. SendsSound' /\ (SafeReportsFailure \/ RecordsMatchChain')
  BY <1>1, Frames
<1>5. RequestsSound' /\ JobsSound'
  BY <1>1, <1>2 DEF RequestsSound, JobsSound
<1>6. CASE worker = NoJob
  <2>1. queue' = queue
    BY <1>6 DEF Crash
  <2>2. TypeOK'
    BY <1>0, <1>1, <1>3, <2>1, IdleType DEF TypeOK
  <2>3. QuorumQueued'
    BY <1>0, <1>1, <1>2, <2>1 DEF QuorumQueued, Quorum
  <2> QED
    BY <1>4, <1>5, <2>2, <2>3 DEF GovernanceInv
<1>7. CASE worker # NoJob
  <2>1. worker.pc # "idle"
    BY <1>0, <1>7 DEF JobsSound
  <2>2. PICK p \in Proposals : p = worker.prop /\ Quorum(p)
    BY <2>1, QuorumFacts
  <2>3. PICK a \in Attempts : a = worker.attempt
    BY <1>0 DEF TypeOK, Job
  <2>4. queue' = Enqueued(p, a)
    BY <1>7, <2>2, <2>3 DEF Crash
  <2>5. TypeOK'
    BY <1>0, <1>1, <1>3, <2>4, EnqueuedType, IdleType DEF TypeOK
  <2>6. QuorumQueued'
    BY <1>0, <1>1, <1>2, <2>2, <2>4, QueueEffect, QuorumStep
  <2> QED
    BY <1>4, <1>5, <2>5, <2>6 DEF GovernanceInv
<1> QED
  BY <1>6, <1>7

(* A lost job takes nothing else with it.                                   *)
LEMMA LoseJobInv ==
    ASSUME GovernanceInv, NEW p \in Proposals, NEW a \in Attempts, LoseJob(p, a)
    PROVE  GovernanceInv'
<1>0. TypeOK /\ QuorumQueued
  BY DEF GovernanceInv
<1> USE DEF chainVars, dbVars, requestVars, jobVars, environmentVars
<1>1. Quorum(p)
  BY QuorumFacts DEF LoseJob
<1>2. losses' \in 0 .. MaxLosses
  BY <1>0, Constants DEF LoseJob, TypeOK
<1>3. TypeOK'
  BY <1>0, <1>2, EnqueuedType DEF LoseJob, TypeOK
<1>4. QuorumQueued'
  BY <1>0, <1>1, QueueEffect, QuorumStep DEF LoseJob
<1> QED
  BY <1>3, <1>4, Frames DEF LoseJob, GovernanceInv

-----------------------------------------------------------------------------
(* THEOREMS                                                                 *)

(* Every step of the governance keeps the strengthened invariant.           *)
LEMMA NextInv == GovernanceInv /\ [Next]_vars => GovernanceInv'
<1> SUFFICES ASSUME GovernanceInv, [Next]_vars PROVE GovernanceInv'
  OBVIOUS
<1>1. CASE RequestStep
  BY <1>1, RequestInv
<1>2. CASE WorkerStep
  BY <1>2, WorkerSendInv, WorkerWaitInv DEF WorkerStep
<1>3. ASSUME NEW h \in Sends, MineStep(h) \/ IndexStep(h) PROVE GovernanceInv'
  BY <1>3, MineInv, IndexInv
<1>4. CASE SweepStep
  BY <1>4, SweepInv
<1>5. CASE Crash
  BY <1>5, CrashInv
<1>6. ASSUME NEW p \in Proposals, NEW a \in Attempts, LoseJob(p, a) PROVE GovernanceInv'
  BY <1>6, LoseJobInv
<1>7. CASE UNCHANGED vars
  <2>1. UNCHANGED <<chainVars, dbVars, requestVars, jobVars, reconciler, indexed, environmentVars>>
    BY <1>7 DEF vars
  <2>2. TypeOK'
    BY <2>1 DEF GovernanceInv, TypeOK, chainVars, dbVars, requestVars, jobVars, environmentVars
  <2> QED
    BY <2>1, <2>2, Frames DEF GovernanceInv, chainVars, dbVars, requestVars, jobVars
<1> QED
  BY <1>1, <1>2, <1>3, <1>4, <1>5, <1>6, <1>7 DEF Next

(* In every state the program reaches, the data of requests, jobs, sweep,   *)
(* database and chain agree as GovernanceInv says.                          *)
THEOREM GovernanceInductive == Spec => []GovernanceInv
<1>1. GovernanceInv /\ [Next]_vars => GovernanceInv'
  BY NextInv
<1> QED
  BY InitInv, <1>1, PTL DEF Spec

(* No proposal gets to the queue, the worker or a verdict of the chain      *)
(* without a quorum of stored signatures, whatever requests interleave and  *)
(* whatever crashes, for every set of members and every threshold.          *)
THEOREM QuorumQueuedAlways == Spec => []QuorumQueued
<1>1. GovernanceInv => QuorumQueued
  BY DEF GovernanceInv
<1> QED
  BY GovernanceInductive, <1>1, PTL

(* With a Safe that reverts when its call does, the database never claims   *)
(* more than the chain did, whoever of worker, sweep and indexer wrote it.  *)
THEOREM RecordsMatchChainAlways ==
    ASSUME ~SafeReportsFailure
    PROVE  Spec => []RecordsMatchChain
<1>1. GovernanceInv => RecordsMatchChain
  BY DEF GovernanceInv
<1> QED
  BY GovernanceInductive, <1>1, PTL

-----------------------------------------------------------------------------
(* NONCES                                                                   *)

(* A step that accepts no transaction keeps NoncesSound, if it keeps whom   *)
(* is known to exist and marks EXECUTED only what the Safe has accepted.    *)
LEMMA NoncesKept ==
    ASSUME GovernanceInv, NoncesSound, safeNonce' = safeNonce,
           \A p \in Proposals :
              status[p] # "absent" => status'[p] # "absent" /\ nonceOf'[p] = nonceOf[p],
           \A p \in Proposals : sigs'[p] # {} => status'[p] # "absent",
           \A m \in Members : signing'[m].pc # "idle" => status'[signing'[m].prop] # "absent",
           \A h \in Sends :
              \/ outcome'[h] = outcome[h] /\ sentFor'[h] = sentFor[h]
              \/ ~ReceiptOk(h) /\ outcome'[h] \notin {"ok", "failed"},
           \A p \in Proposals : status'[p] = "EXECUTED" =>
              \/ status[p] = "EXECUTED"
              \/ \E h \in Sends : sentFor[h] = p /\ ReceiptOk(h)
    PROVE  NoncesSound'
<1>1. \A h \in Sends : outcome'[h] \in {"ok", "failed"} =>
         /\ ReceiptOk(h) /\ sentFor'[h] = sentFor[h] /\ sentFor[h] \in Proposals
         /\ nonceOf'[sentFor[h]] = nonceOf[sentFor[h]]
  <2> SUFFICES ASSUME NEW h \in Sends, outcome'[h] \in {"ok", "failed"}
               PROVE  /\ ReceiptOk(h) /\ sentFor'[h] = sentFor[h] /\ sentFor[h] \in Proposals
                      /\ nonceOf'[sentFor[h]] = nonceOf[sentFor[h]]
    OBVIOUS
  <2>1. ReceiptOk(h) /\ sentFor'[h] = sentFor[h]
    BY DEF ReceiptOk
  <2>2. sentFor[h] \in Proposals /\ sigs[sentFor[h]] # {}
    <3>1. outcome[h] # "unsent"
      BY <2>1 DEF ReceiptOk
    <3>2. sentFor[h] \in Proposals /\ Quorum(sentFor[h])
      BY <3>1, QuorumFacts
    <3>3. Cardinality(sigs[sentFor[h]]) >= Threshold /\ Threshold \in Nat \ {0}
      BY <3>2, Constants DEF Quorum
    <3>4. Cardinality({}) = 0
      BY FS_EmptySet
    <3>5. sigs[sentFor[h]] # {}
      BY <3>3, <3>4
    <3> QED
      BY <3>2, <3>5
  <2> QED
    BY <2>1, <2>2 DEF NoncesSound
<1>2. \A g, h \in Sends :
         outcome'[g] \in {"ok", "failed"} /\ outcome'[h] \in {"ok", "failed"}
         /\ sentFor'[g] # sentFor'[h] => nonceOf'[sentFor'[g]] # nonceOf'[sentFor'[h]]
  <2> SUFFICES ASSUME NEW g \in Sends, NEW h \in Sends, outcome'[g] \in {"ok", "failed"},
                      outcome'[h] \in {"ok", "failed"}, sentFor'[g] # sentFor'[h]
               PROVE  nonceOf'[sentFor'[g]] # nonceOf'[sentFor'[h]]
    OBVIOUS
  <2>1. /\ ReceiptOk(g) /\ sentFor'[g] = sentFor[g]
        /\ nonceOf'[sentFor'[g]] = nonceOf[sentFor[g]]
    BY <1>1
  <2>2. /\ ReceiptOk(h) /\ sentFor'[h] = sentFor[h]
        /\ nonceOf'[sentFor'[h]] = nonceOf[sentFor[h]]
    BY <1>1
  <2>3. nonceOf[sentFor[g]] # nonceOf[sentFor[h]]
    BY <2>1, <2>2 DEF NoncesSound
  <2> QED
    BY <2>1, <2>2, <2>3
<1>3. \A h \in Sends : outcome'[h] \in {"ok", "failed"} => nonceOf'[sentFor'[h]] < safeNonce'
  BY <1>1 DEF NoncesSound
<1>4. \A h \in Sends : ReceiptOk(h) => outcome'[h] \in {"ok", "failed"} /\ sentFor'[h] = sentFor[h]
  BY DEF ReceiptOk
<1>5. \A p \in Proposals : status'[p] = "EXECUTED" =>
         \E h \in Sends : sentFor'[h] = p /\ outcome'[h] \in {"ok", "failed"}
  <2>1. \A p \in Proposals : status'[p] = "EXECUTED" => \E h \in Sends : sentFor[h] = p /\ ReceiptOk(h)
    BY DEF NoncesSound
  <2> QED
    BY <2>1, <1>4
<1> QED
  BY <1>2, <1>3, <1>5 DEF NoncesSound, ReceiptOk

(* The same for a step that leaves chain, signatures and requests alone.    *)
LEMMA NoncesFrame ==
    ASSUME GovernanceInv, NoncesSound, UNCHANGED <<safeNonce, outcome, sentFor, nonceOf, sigs, signing>>,
           \/ UNCHANGED status
           \/ \E p \in Proposals, s \in ProposalStatus :
                /\ s \notin {"absent", "EXECUTED"} /\ status' = [status EXCEPT ![p] = s]
           \/ \E h \in Sends : ReceiptOk(h) /\ status' = [status EXCEPT ![sentFor[h]] = "EXECUTED"]
    PROVE  NoncesSound'
<1>0. TypeOK
  BY DEF GovernanceInv
<1>1. \A q \in Proposals : /\ status[q] # "absent" => status'[q] # "absent"
                           /\ status'[q] = "EXECUTED" => status[q] = "EXECUTED"
                                \/ \E h \in Sends : sentFor[h] = q /\ ReceiptOk(h)
  <2> SUFFICES ASSUME NEW q \in Proposals
               PROVE  /\ status[q] # "absent" => status'[q] # "absent"
                      /\ status'[q] = "EXECUTED" => status[q] = "EXECUTED"
                           \/ \E h \in Sends : sentFor[h] = q /\ ReceiptOk(h)
    OBVIOUS
  <2> DEFINE Kept == /\ status[q] # "absent" => status'[q] # "absent"
                     /\ status'[q] = "EXECUTED" => status[q] = "EXECUTED"
                          \/ \E h \in Sends : sentFor[h] = q /\ ReceiptOk(h)
  <2>1. CASE UNCHANGED status
    BY <2>1
  <2>2. ASSUME NEW p \in Proposals, NEW s \in ProposalStatus, s \notin {"absent", "EXECUTED"},
               status' = [status EXCEPT ![p] = s]
        PROVE  Kept
    BY <1>0, <2>2 DEF TypeOK
  <2>3. ASSUME NEW h \in Sends, ReceiptOk(h), status' = [status EXCEPT ![sentFor[h]] = "EXECUTED"]
        PROVE  Kept
    BY <1>0, <2>3 DEF TypeOK
  <2> QED
    BY <2>1, <2>2, <2>3
<1>2. \A m \in Members : signing[m].pc # "idle" => signing[m].prop \in Proposals
  BY DEF GovernanceInv, RequestsSound
<1>3. /\ \A p \in Proposals : sigs'[p] # {} => status'[p] # "absent"
      /\ \A m \in Members : signing'[m].pc # "idle" => status'[signing'[m].prop] # "absent"
  BY <1>1, <1>2 DEF NoncesSound
<1> QED
  BY <1>1, <1>3, NoncesKept

(* Nothing is proposed, signed or sent yet.                                 *)
LEMMA NoncesInit == Init => NoncesSound
BY Constants DEF Init, NoncesSound, NoRequest, ReceiptOk

(* A transaction is put on its way: it has no receipt.                      *)
LEMMA NoncesSent ==
    ASSUME GovernanceInv, NoncesSound, NEW h \in Sends, NEW p, NextSend(h), Sent(h, p),
           UNCHANGED <<status, nonceOf, sigs, signing>>
    PROVE  NoncesSound'
<1>0. TypeOK
  BY DEF GovernanceInv
<1>1. safeNonce' = safeNonce
  BY DEF Sent
<1>2. \A g \in Sends :
         \/ outcome'[g] = outcome[g] /\ sentFor'[g] = sentFor[g]
         \/ ~ReceiptOk(g) /\ outcome'[g] \notin {"ok", "failed"}
  BY <1>0 DEF Sent, NextSend, TypeOK, ReceiptOk
<1>3. /\ \A q \in Proposals : sigs'[q] # {} => status'[q] # "absent"
      /\ \A m \in Members : signing'[m].pc # "idle" => status'[signing'[m].prop] # "absent"
  BY DEF NoncesSound
<1> QED
  BY <1>1, <1>2, <1>3, NoncesKept

(* Requests: only what is PENDING is signed, and only what is absent gets a *)
(* nonce.                                                                   *)
LEMMA NoncesRequest == GovernanceInv /\ NoncesSound /\ RequestStep => NoncesSound'
<1> SUFFICES ASSUME GovernanceInv, NoncesSound, RequestStep PROVE NoncesSound'
  OBVIOUS
<1>0. TypeOK /\ RequestsSound
  BY DEF GovernanceInv
<1> USE DEF chainVars, dbVars, requestVars, jobVars, environmentVars
<1> DEFINE Chain == safeNonce' = safeNonce /\ outcome' = outcome /\ sentFor' = sentFor
           Signed == \A p \in Proposals : sigs'[p] # {} => status'[p] # "absent"
           Signers == \A m \in Members :
                         signing'[m].pc # "idle" => status'[signing'[m].prop] # "absent"
           Known == \A p \in Proposals :
                       /\ status[p] # "absent" => status'[p] # "absent" /\ nonceOf'[p] = nonceOf[p]
                       /\ status'[p] = "EXECUTED" => status[p] = "EXECUTED"
<1>K. ASSUME Chain, Signed, Signers, Known PROVE NoncesSound'
  BY <1>K, NoncesKept
<1>1. ASSUME NEW p \in Proposals, Propose(p) PROVE NoncesSound'
  <2>1. Chain /\ sigs' = sigs /\ signing' = signing
    BY <1>1 DEF Propose
  <2>2. Known
    BY <1>0, <1>1 DEF Propose, TypeOK
  <2>3. Signed
    BY <2>1, <2>2 DEF NoncesSound
  <2>4. Signers
    BY <1>0, <2>1, <2>2 DEF NoncesSound, RequestsSound
  <2> QED
    BY <1>K, <2>1, <2>2, <2>3, <2>4
<1>2. ASSUME NEW p \in Proposals, CancelRead(p) \/ CancelWrite(p) \/ Fallback(p) PROVE NoncesSound'
  <2>1. \/ UNCHANGED status
        \/ status' = [status EXCEPT ![p] = "CANCELLED"]
    BY <1>2 DEF CancelRead, CancelWrite, Fallback
  <2>2. UNCHANGED <<safeNonce, outcome, sentFor, nonceOf, sigs, signing>>
    BY <1>2 DEF CancelRead, CancelWrite, Fallback
  <2> QED
    BY <2>1, <2>2, NoncesFrame DEF ProposalStatus
<1>3. ASSUME NEW m \in Members, NEW p \in Proposals, SignRead(m, p) PROVE NoncesSound'
  <2>1. Chain /\ Known
    BY <1>3 DEF SignRead
  <2>2. Signed
    BY <1>3 DEF SignRead, NoncesSound
  <2>3. Signers
    BY <1>0, <1>3 DEF SignRead, NoncesSound, TypeOK
  <2> QED
    BY <1>K, <2>1, <2>2, <2>3
<1>4. ASSUME NEW m \in Members, SignStore(m) PROVE NoncesSound'
  <2>1. Chain /\ Known /\ status' = status
    BY <1>4 DEF SignStore
  <2>2. PICK p \in Proposals : p = signing[m].prop /\ status[p] # "absent"
    BY <1>0, <1>4 DEF SignStore, RequestsSound, NoncesSound
  <2>3. Signed
    <3>1. sigs' = [sigs EXCEPT ![p] = @ \cup {m}]
      BY <1>4, <2>2 DEF SignStore
    <3> QED
      BY <1>0, <2>1, <2>2, <3>1 DEF NoncesSound, TypeOK
  <2>4. Signers
    <3>1. \/ signing' = [signing EXCEPT ![m] = NoRequest]
          \/ signing' = [signing EXCEPT ![m] =
                           [pc |-> "counted", prop |-> p, seen |-> signing[m].seen]]
      BY <1>0, <1>4, <2>2 DEF SignStore, TypeOK
    <3> QED
      BY <1>0, <2>1, <2>2, <3>1 DEF NoncesSound, TypeOK, NoRequest
  <2> QED
    BY <1>K, <2>1, <2>3, <2>4
<1>5. ASSUME NEW m \in Members, SignMark(m) PROVE NoncesSound'
  <2>1. PICK p \in Proposals : p = signing[m].prop /\ status[p] # "absent"
    BY <1>0, <1>5 DEF SignMark, RequestsSound, NoncesSound
  <2>2. /\ status' = [status EXCEPT ![p] = "THRESHOLD_MET"] /\ Chain /\ nonceOf' = nonceOf
        /\ sigs' = sigs
        /\ signing' = [signing EXCEPT ![m] = [pc |-> "marked", prop |-> p, seen |-> signing[m].seen]]
    BY <1>0, <1>5, <2>1 DEF SignMark, TypeOK
  <2>3. Known
    BY <1>0, <2>2 DEF TypeOK
  <2>4. Signed
    BY <2>2, <2>3 DEF NoncesSound
  <2>5. Signers
    <3> SUFFICES ASSUME NEW n \in Members, signing'[n].pc # "idle"
                 PROVE  status'[signing'[n].prop] # "absent"
      OBVIOUS
    <3>1. CASE n = m
      BY <1>0, <2>1, <2>2, <2>3, <3>1 DEF TypeOK
    <3>2. CASE n # m
      <4>1. signing'[n] = signing[n]
        BY <1>0, <2>2, <3>2 DEF TypeOK
      <4>2. signing[n].prop \in Proposals /\ status[signing[n].prop] # "absent"
        BY <1>0, <4>1 DEF RequestsSound, NoncesSound
      <4> QED
        BY <2>3, <4>1, <4>2
    <3> QED
      BY <3>1, <3>2
  <2> QED
    BY <1>K, <2>2, <2>3, <2>4, <2>5
<1>6. ASSUME NEW m \in Members, SignEnqueue(m) PROVE NoncesSound'
  <2>1. Chain /\ Known
    BY <1>6 DEF SignEnqueue
  <2>2. Signed
    BY <1>6 DEF SignEnqueue, NoncesSound
  <2>3. Signers
    BY <1>0, <1>6 DEF SignEnqueue, NoncesSound, TypeOK, NoRequest
  <2> QED
    BY <1>K, <2>1, <2>2, <2>3
<1> QED
  BY <1>1, <1>2, <1>3, <1>4, <1>5, <1>6 DEF RequestStep

(* The worker sends, and records only what has a receipt.                   *)
LEMMA NoncesWorker == GovernanceInv /\ NoncesSound /\ WorkerStep => NoncesSound'
<1> SUFFICES ASSUME GovernanceInv, NoncesSound, WorkerStep PROVE NoncesSound'
  OBVIOUS
<1>0. TypeOK /\ JobsSound
  BY DEF GovernanceInv
<1> USE DEF chainVars, dbVars, requestVars, jobVars, environmentVars
<1>1. ASSUME NEW p \in Proposals, NEW a \in Attempts, TakeStep(p, a) PROVE NoncesSound'
  BY <1>1, NoncesFrame DEF TakeStep, WorkerSkip, WorkerLoad
<1>2. ASSUME NEW h \in Sends, WorkerSend(h) \/ WorkerSendUnseen(h) PROVE NoncesSound'
  <2>1. /\ NextSend(h) /\ Sent(h, worker.prop) /\ UNCHANGED <<status, nonceOf, sigs, signing>>
    BY <1>2 DEF WorkerSend, WorkerSendUnseen
  <2> QED
    BY <2>1, NoncesSent
<1>3. CASE WorkerSendFails \/ WorkerRecord \/ WorkerReverted \/ WorkerWaitFails
  BY <1>3, NoncesFrame DEF WorkerSendFails, WorkerRecord, WorkerReverted, WorkerWaitFails
<1>4. CASE WorkerConfirm
  <2>1. PICK h \in Sends : h = worker.hash /\ sentFor[h] = worker.prop /\ ReceiptOk(h)
    BY <1>0, <1>4 DEF WorkerConfirm, JobsSound
  <2>2. \/ UNCHANGED status
        \/ status' = [status EXCEPT ![sentFor[h]] = "EXECUTED"]
    BY <1>4, <2>1 DEF WorkerConfirm, RecordExecuted
  <2>3. UNCHANGED <<safeNonce, outcome, sentFor, nonceOf, sigs, signing>>
    BY <1>4 DEF WorkerConfirm
  <2> QED
    BY <2>1, <2>2, <2>3, NoncesFrame
<1>5. ASSUME NEW p \in Proposals, MarkProposalAsFailed(p) PROVE NoncesSound'
  BY <1>5, NoncesFrame DEF MarkProposalAsFailed, SetFailed, ProposalStatus
<1> QED
  BY <1>1, <1>2, <1>3, <1>4, <1>5 DEF WorkerStep, SendStep, WaitStep

(* The Safe accepts only its present nonce, and goes one further: what it   *)
(* accepted before is behind it.                                            *)
LEMMA NoncesMine ==
    ASSUME GovernanceInv, NoncesSound, NEW h \in Sends, MineStep(h)
    PROVE  NoncesSound'
<1>0. TypeOK /\ SendsSound
  BY DEF GovernanceInv
<1> USE DEF chainVars, dbVars, requestVars, jobVars, environmentVars
<1>1. /\ UNCHANGED <<status, nonceOf, sigs, signing, sentFor>>
      /\ outcome[h] = "pending"
  BY DEF MineStep, MineOk, MineFailed, MineReverted
<1>2. CASE MineReverted(h)
  <2>1. safeNonce' = safeNonce /\ outcome' = [outcome EXCEPT ![h] = "reverted"]
    BY <1>2 DEF MineReverted
  <2>2. \A g \in Sends :
           \/ outcome'[g] = outcome[g] /\ sentFor'[g] = sentFor[g]
           \/ ~ReceiptOk(g) /\ outcome'[g] \notin {"ok", "failed"}
    BY <1>0, <1>1, <2>1 DEF TypeOK, ReceiptOk
  <2>3. /\ \A q \in Proposals : sigs'[q] # {} => status'[q] # "absent"
        /\ \A m \in Members : signing'[m].pc # "idle" => status'[signing'[m].prop] # "absent"
    BY <1>1 DEF NoncesSound
  <2> QED
    BY <1>1, <2>1, <2>2, <2>3, NoncesKept
<1>3. CASE MineOk(h) \/ MineFailed(h)
  <2>1. PICK p \in Proposals : p = sentFor[h]
    BY <1>0, <1>1 DEF SendsSound
  <2>2. nonceOf[p] = safeNonce /\ safeNonce' = safeNonce + 1 /\ safeNonce \in Nat
    BY <1>0, <1>3, <2>1 DEF MineOk, MineFailed, TypeOK
  <2>3. \A g \in Sends : g # h => outcome'[g] = outcome[g]
    BY <1>0, <1>3 DEF MineOk, MineFailed, TypeOK
  <2>4. \A g \in Sends : g # h /\ outcome'[g] \in {"ok", "failed"} =>
           /\ ReceiptOk(g) /\ sentFor[g] \in Proposals
           /\ nonceOf[sentFor[g]] \in Nat /\ nonceOf[sentFor[g]] < safeNonce
    BY <1>0, <2>3 DEF NoncesSound, ReceiptOk, SendsSound, TypeOK
  <2>5. \A f, g \in Sends :
           outcome'[f] \in {"ok", "failed"} /\ outcome'[g] \in {"ok", "failed"}
           /\ sentFor[f] # sentFor[g] => nonceOf[sentFor[f]] # nonceOf[sentFor[g]]
    <3> SUFFICES ASSUME NEW f \in Sends, NEW g \in Sends, outcome'[f] \in {"ok", "failed"},
                        outcome'[g] \in {"ok", "failed"}, sentFor[f] # sentFor[g]
                 PROVE  nonceOf[sentFor[f]] # nonceOf[sentFor[g]]
      OBVIOUS
    <3>1. CASE f # h /\ g # h
      BY <2>4, <3>1 DEF NoncesSound
    <3>2. CASE f = h
      BY <2>1, <2>2, <2>4, <3>2
    <3>3. CASE g = h
      BY <2>1, <2>2, <2>4, <3>3
    <3> QED
      BY <3>1, <3>2, <3>3
  <2>6. \A g \in Sends : outcome'[g] \in {"ok", "failed"} => nonceOf[sentFor[g]] < safeNonce'
    <3> SUFFICES ASSUME NEW g \in Sends, outcome'[g] \in {"ok", "failed"}
                 PROVE  nonceOf[sentFor[g]] < safeNonce'
      OBVIOUS
    <3>1. CASE g = h
      BY <2>1, <2>2, <3>1
    <3>2. CASE g # h
      BY <2>2, <2>4, <3>2
    <3> QED
      BY <3>1, <3>2
  <2>7. \A g \in Sends : ReceiptOk(g) => outcome'[g] \in {"ok", "failed"}
    BY <1>1, <2>3 DEF ReceiptOk
  <2>8. \A q \in Proposals : status'[q] = "EXECUTED" =>
           \E g \in Sends : sentFor'[g] = q /\ outcome'[g] \in {"ok", "failed"}
    <3>1. \A q \in Proposals : status[q] = "EXECUTED" => \E g \in Sends : sentFor[g] = q /\ ReceiptOk(g)
      BY DEF NoncesSound
    <3> QED
      BY <1>1, <2>7, <3>1
  <2>9. /\ \A q \in Proposals : sigs'[q] # {} => status'[q] # "absent"
        /\ \A m \in Members : signing'[m].pc # "idle" => status'[signing'[m].prop] # "absent"
    BY <1>1 DEF NoncesSound
  <2> QED
    BY <1>1, <2>5, <2>6, <2>8, <2>9 DEF NoncesSound, ReceiptOk
<1> QED
  BY <1>2, <1>3 DEF MineStep

(* The sweep and the indexer record only what has a receipt.                *)
LEMMA NoncesSweep == GovernanceInv /\ NoncesSound /\ SweepStep => NoncesSound'
<1> SUFFICES ASSUME GovernanceInv, NoncesSound, SweepStep PROVE NoncesSound'
  OBVIOUS
<1> USE DEF chainVars, dbVars, requestVars, jobVars, environmentVars
<1>1. UNCHANGED <<safeNonce, outcome, sentFor, nonceOf, sigs, signing>>
  BY DEF SweepStep, SweepReadStep, SweepPick, SweepSkip, SweepConfirm, SweepRevert, SweepRollBack,
         SweepRequeue
<1>2. CASE SweepConfirm
  <2>1. PICK h \in Sends : h = reconciler.hash
    BY <1>2, SweptFacts DEF SweepConfirm
  <2>2. ReceiptOk(h) /\ status' = [status EXCEPT ![sentFor[h]] = "EXECUTED"]
    BY <1>2, <2>1 DEF SweepConfirm, RecordExecuted
  <2> QED
    BY <1>1, <2>2, NoncesFrame
<1>3. CASE SweepRollBack
  <2>1. PICK p \in Proposals : p = sentFor[reconciler.hash]
    BY <1>3, SweptFacts DEF SweepRollBack
  <2>2. status' = [status EXCEPT ![p] = "EXECUTION_FAILED"]
    BY <1>3, <2>1 DEF SweepRollBack, SetFailed
  <2> QED
    BY <1>1, <2>2, NoncesFrame DEF ProposalStatus
<1>4. CASE UNCHANGED status
  BY <1>1, <1>4, NoncesFrame
<1> QED
  BY <1>2, <1>3, <1>4 DEF SweepStep, SweepReadStep, SweepPick, SweepSkip, SweepRevert, SweepRequeue

LEMMA NoncesIndex ==
    ASSUME GovernanceInv, NoncesSound, NEW h \in Sends, IndexStep(h)
    PROVE  NoncesSound'
<1> USE DEF chainVars, dbVars, requestVars, jobVars, environmentVars
<1>1. UNCHANGED <<safeNonce, outcome, sentFor, nonceOf, sigs, signing>>
  BY DEF IndexStep, IndexSuccess, IndexFailure
<1>2. CASE UNCHANGED status
  BY <1>1, <1>2, NoncesFrame
<1>3. CASE ReceiptOk(h) /\ status' = [status EXCEPT ![sentFor[h]] = "EXECUTED"]
  BY <1>1, <1>3, NoncesFrame
<1>4. CASE outcome[h] = "failed" /\ status' = [status EXCEPT ![sentFor[h]] = "EXECUTION_FAILED"]
  <2>1. sentFor[h] \in Proposals
    BY <1>4, QuorumFacts
  <2> QED
    BY <1>1, <1>4, <2>1, NoncesFrame DEF ProposalStatus
<1> QED
  BY <1>2, <1>3, <1>4
  DEF IndexStep, IndexSuccess, IndexFailure, RecordExecuted, SetFailed, ReceiptOk

(* A crash and a lost job touch neither the chain nor the database.         *)
LEMMA NoncesEnvironment ==
    ASSUME GovernanceInv, NoncesSound,
           Crash \/ \E p \in Proposals, a \in Attempts : LoseJob(p, a)
    PROVE  NoncesSound'
<1> USE DEF chainVars, dbVars, requestVars, jobVars, environmentVars
<1>1. CASE Crash
  <2>1. UNCHANGED <<safeNonce, outcome, sentFor, nonceOf, sigs, status>>
        /\ signing' = [m \in Members |-> NoRequest]
    BY <1>1 DEF Crash
  <2>2. /\ \A q \in Proposals : sigs'[q] # {} => status'[q] # "absent"
        /\ \A m \in Members : signing'[m].pc # "idle" => status'[signing'[m].prop] # "absent"
    BY <2>1 DEF NoncesSound, NoRequest
  <2> QED
    BY <2>1, <2>2, NoncesKept
<1>2. CASE \E p \in Proposals, a \in Attempts : LoseJob(p, a)
  BY <1>2, NoncesFrame DEF LoseJob
<1> QED
  BY <1>1, <1>2

(* Whoever the Safe accepted, and whoever is recorded for it, the nonces    *)
(* are told apart.                                                          *)
THEOREM NoncesInductive == Spec => [](GovernanceInv /\ NoncesSound)
<1>1. GovernanceInv /\ NoncesSound /\ [Next]_vars => NoncesSound'
  <2> SUFFICES ASSUME GovernanceInv, NoncesSound, [Next]_vars PROVE NoncesSound'
    OBVIOUS
  <2>1. CASE UNCHANGED vars
    BY <2>1, NoncesFrame DEF vars, chainVars, dbVars, requestVars
  <2> QED
    BY <2>1, NoncesRequest, NoncesWorker, NoncesMine, NoncesSweep, NoncesIndex, NoncesEnvironment
    DEF Next
<1>2. GovernanceInv /\ [Next]_vars => GovernanceInv'
  BY NextInv
<1> QED
  BY InitInv, NoncesInit, <1>1, <1>2, PTL DEF Spec

(* Of the proposals that were made for the same nonce of the Safe, at most  *)
(* one is ever recorded as EXECUTED, for any number of proposals, members,  *)
(* attempts, crashes and losses.                                            *)
THEOREM OneExecutedPerNonceAlways == Spec => []OneExecutedPerNonce
<1>1. NoncesSound => OneExecutedPerNonce
  <2> SUFFICES ASSUME NoncesSound, NEW p \in Proposals, NEW q \in Proposals,
                      status[p] = "EXECUTED", status[q] = "EXECUTED", p # q
               PROVE  nonceOf[p] # nonceOf[q]
    BY DEF OneExecutedPerNonce
  <2>1. PICK g \in Sends : sentFor[g] = p /\ ReceiptOk(g)
    BY DEF NoncesSound
  <2>2. PICK h \in Sends : sentFor[h] = q /\ ReceiptOk(h)
    BY DEF NoncesSound
  <2> QED
    BY <2>1, <2>2 DEF NoncesSound
<1> QED
  BY NoncesInductive, <1>1, PTL

-----------------------------------------------------------------------------
(* A QUORUM THAT NOBODY NOTICED STAYS UNNOTICED                             *)

IsOpen(p) == status[p] \in {"absent", "PENDING"}

(* Nothing beyond the requests of the members knows of an open proposal.    *)
StillOpen ==
    \A p \in Proposals : IsOpen(p) =>
        /\ \A a \in Attempts : queue[p][a] = 0
        /\ worker.prop # p /\ p \notin exhausted
        /\ \A h \in Sends : outcome[h] # "unsent" => sentFor[h] # p
        /\ \A m \in Members : signing[m].pc = "marked" => signing[m].prop # p

(* Every member has signed, the signatures are enough, no request is served *)
(* that will count them, and the status still asks for more.                *)
Unnoticed(p) ==
    /\ status[p] = "PENDING" /\ Quorum(p) /\ sigs[p] = Members
    /\ \A m \in Members : signing[m].pc # "idle" => signing[m].prop # p

(* A step that is about one proposal at most, which it leaves decided.      *)
LEMMA OpenKept ==
    ASSUME StillOpen, NEW q, q \in Proposals => ~IsOpen(q)',
           \A p \in Proposals \ {q} :
              /\ status'[p] = status[p]
              /\ \A a \in Attempts : queue'[p][a] = queue[p][a]
              /\ worker'.prop = p => worker.prop = p
              /\ p \in exhausted' => p \in exhausted
              /\ \A h \in Sends : outcome'[h] # "unsent" /\ sentFor'[h] = p =>
                                     outcome[h] # "unsent" /\ sentFor[h] = p
              /\ \A m \in Members : signing'[m].pc = "marked" /\ signing'[m].prop = p =>
                                       signing[m].pc = "marked" /\ signing[m].prop = p
    PROVE  StillOpen'
BY DEF StillOpen, IsOpen

(* A failed attempt concerns the proposal of the job, which is decided.     *)
LEMMA AttemptFailsOpen ==
    ASSUME GovernanceInv, StillOpen, worker.pc # "idle", AttemptFails,
           UNCHANGED <<status, signing>>,
           \A h \in Sends, p \in Proposals \ {worker.prop} :
              outcome'[h] # "unsent" /\ sentFor'[h] = p => outcome[h] # "unsent" /\ sentFor[h] = p
    PROVE  StillOpen'
<1>1. PICK q \in Proposals : q = worker.prop
  BY DEF GovernanceInv, JobsSound
<1>2. worker.attempt \in Attempts /\ ~IsOpen(q)'
  BY <1>1 DEF GovernanceInv, TypeOK, Job, StillOpen, IsOpen
<1>3. \A p \in Proposals \ {q}, a \in Attempts : queue'[p][a] = queue[p][a]
  <2>1. CASE worker.attempt + 1 < MaxAttempts
    <3>1. worker.attempt + 1 \in Attempts
      BY <1>2, <2>1, Constants DEF Attempts
    <3> QED
      BY <1>1, <2>1, <3>1, QueueEffect DEF AttemptFails, GovernanceInv
  <2>2. CASE ~(worker.attempt + 1 < MaxAttempts)
    BY <2>2 DEF AttemptFails
  <2> QED
    BY <2>1, <2>2
<1>4. \A p \in Proposals : worker'.prop # p
  BY Constants DEF AttemptFails, NoJob
<1>5. \A p \in Proposals \ {q} : p \in exhausted' => p \in exhausted
  BY <1>1 DEF AttemptFails
<1> QED
  BY <1>1, <1>2, <1>3, <1>4, <1>5, OpenKept

(* A step that leaves all of it alone.                                      *)
LEMMA OpenFrame ==
    ASSUME StillOpen, UNCHANGED <<status, queue, worker, exhausted, sentFor, signing>>,
           \A h \in Sends : outcome'[h] # "unsent" => outcome[h] # "unsent"
    PROVE  StillOpen'
BY DEF StillOpen, IsOpen

(* A member's request: Propose opens, SignMark and CancelWrite decide.      *)
LEMMA OpenRequest == GovernanceInv /\ StillOpen /\ RequestStep => StillOpen'
<1> SUFFICES ASSUME GovernanceInv, StillOpen, RequestStep PROVE StillOpen'
  OBVIOUS
<1> USE DEF chainVars, dbVars, requestVars, jobVars, environmentVars
<1>t. /\ TypeOK /\ signing \in [Members -> SignRequest] /\ status \in [Proposals -> ProposalStatus]
      /\ 0 \in Attempts
  BY Constants DEF GovernanceInv, TypeOK, Attempts
<1>1. ASSUME NEW p \in Proposals, Propose(p) PROVE StillOpen'
  <2>1. status' = [status EXCEPT ![p] = "PENDING"] /\ status[p] = "absent"
        /\ UNCHANGED <<queue, worker, exhausted, outcome, sentFor, signing>>
    BY <1>1 DEF Propose
  <2>2. \A q \in Proposals : IsOpen(q)' => IsOpen(q)
    BY <1>t, <2>1 DEF IsOpen
  <2> QED
    BY <2>1, <2>2 DEF StillOpen
<1>2. ASSUME NEW p \in Proposals, CancelRead(p) PROVE StillOpen'
  BY <1>2, OpenFrame DEF CancelRead
<1>3. ASSUME NEW p \in Proposals, CancelWrite(p) PROVE StillOpen'
  <2>1. status' = [status EXCEPT ![p] = "CANCELLED"]
        /\ UNCHANGED <<queue, worker, exhausted, outcome, sentFor, signing>>
    BY <1>3 DEF CancelWrite
  <2> QED
    BY <1>t, <2>1, OpenKept DEF IsOpen
<1>4. ASSUME NEW p \in Proposals, Fallback(p) PROVE StillOpen'
  <2>1. ~IsOpen(p)' /\ queue' = Enqueued(p, 0)
        /\ UNCHANGED <<status, worker, exhausted, outcome, sentFor, signing>>
    BY <1>4 DEF Fallback, IsOpen
  <2>2. \A q \in Proposals \ {p}, a \in Attempts : queue'[q][a] = queue[q][a]
    BY <1>t, <2>1, QueueEffect
  <2> QED
    BY <2>1, <2>2, OpenKept
<1>5. ASSUME NEW m \in Members, NEW p \in Proposals, SignRead(m, p) PROVE StillOpen'
  <2>1. signing' = [signing EXCEPT ![m] =
                      [pc |-> "checked", prop |-> p, seen |-> Cardinality(sigs[p])]]
        /\ UNCHANGED <<status, queue, worker, exhausted, outcome, sentFor>>
    BY <1>5 DEF SignRead
  <2>2. \A n \in Members : signing'[n].pc = "marked" => signing'[n] = signing[n]
    BY <1>t, <2>1
  <2> QED
    BY <2>1, <2>2 DEF StillOpen, IsOpen
<1>6. ASSUME NEW m \in Members, SignStore(m) PROVE StillOpen'
  <2>1. /\ \/ signing' = [signing EXCEPT ![m] = [pc |-> "counted", prop |-> @.prop, seen |-> @.seen]]
           \/ signing' = [signing EXCEPT ![m] = NoRequest]
        /\ UNCHANGED <<status, queue, worker, exhausted, outcome, sentFor>>
    BY <1>6 DEF SignStore
  <2>2. \A n \in Members : signing'[n].pc = "marked" => signing'[n] = signing[n]
    BY <1>t, <2>1 DEF NoRequest
  <2> QED
    BY <2>1, <2>2 DEF StillOpen, IsOpen
<1>7. ASSUME NEW m \in Members, SignMark(m) PROVE StillOpen'
  <2>1. PICK q \in Proposals : q = signing[m].prop
    BY <1>7 DEF SignMark, GovernanceInv, RequestsSound
  <2>2. /\ status' = [status EXCEPT ![q] = "THRESHOLD_MET"]
        /\ signing' = [signing EXCEPT ![m] = [pc |-> "marked", prop |-> q, seen |-> @.seen]]
        /\ UNCHANGED <<queue, worker, exhausted, outcome, sentFor>>
    BY <1>7, <2>1 DEF SignMark
  <2>3. \A n \in Members, p \in Proposals \ {q} :
           signing'[n].pc = "marked" /\ signing'[n].prop = p =>
              signing[n].pc = "marked" /\ signing[n].prop = p
    BY <1>t, <2>2
  <2>4. ~IsOpen(q)' /\ \A p \in Proposals \ {q} : status'[p] = status[p]
    BY <1>t, <2>2 DEF IsOpen
  <2> QED
    BY <2>2, <2>3, <2>4, OpenKept
<1>8. ASSUME NEW m \in Members, SignEnqueue(m) PROVE StillOpen'
  <2>1. PICK q \in Proposals : q = signing[m].prop
    BY <1>8 DEF SignEnqueue, GovernanceInv, RequestsSound
  <2>2. /\ queue' = Enqueued(q, 0) /\ signing' = [signing EXCEPT ![m] = NoRequest]
        /\ UNCHANGED <<status, worker, exhausted, outcome, sentFor>>
    BY <1>8, <2>1 DEF SignEnqueue
  <2>3. ~IsOpen(q)'
    BY <1>8, <2>1, <2>2 DEF SignEnqueue, StillOpen, IsOpen
  <2>4. \A p \in Proposals \ {q}, a \in Attempts : queue'[p][a] = queue[p][a]
    BY <1>t, <2>2, QueueEffect
  <2>5. \A n \in Members : signing'[n].pc = "marked" => signing'[n] = signing[n]
    BY <1>t, <2>2 DEF NoRequest
  <2> QED
    BY <2>2, <2>3, <2>4, <2>5, OpenKept
<1> QED
  BY <1>1, <1>2, <1>3, <1>4, <1>5, <1>6, <1>7, <1>8 DEF RequestStep

(* The worker is only ever handed decided proposals.                        *)
LEMMA OpenWorker == GovernanceInv /\ StillOpen /\ WorkerStep => StillOpen'
<1> SUFFICES ASSUME GovernanceInv, StillOpen, WorkerStep PROVE StillOpen'
  OBVIOUS
<1> USE DEF chainVars, dbVars, requestVars, jobVars, environmentVars
<1>t. /\ TypeOK /\ status \in [Proposals -> ProposalStatus] /\ outcome \in [Sends -> Outcome]
      /\ sentFor \in [Sends -> Proposals \cup {NoProposal}]
      /\ queue \in [Proposals -> [Attempts -> 0 .. MaxQueued]]
      /\ worker.pc # "idle" => worker.prop \in Proposals /\ ~IsOpen(worker.prop)
  BY DEF GovernanceInv, TypeOK, JobsSound, StillOpen
<1>1. ASSUME NEW p \in Proposals, NEW a \in Attempts, TakeStep(p, a) PROVE StillOpen'
  <2>1. /\ queue[p][a] > 0 /\ queue' = Dequeued(p, a)
        /\ worker' = worker \/ worker'.prop = p
        /\ UNCHANGED <<status, exhausted, outcome, sentFor, signing>>
    BY <1>1 DEF TakeStep, WorkerSkip, WorkerLoad, Waiting
  <2>2. ~IsOpen(p)'
    BY <2>1 DEF StillOpen, IsOpen
  <2>3. \A q \in Proposals \ {p}, b \in Attempts : queue'[q][b] = queue[q][b]
    BY <1>t, <2>1, QueueEffect
  <2> QED
    BY <2>1, <2>2, <2>3, OpenKept
<1>2. ASSUME WorkerSendFails \/ WorkerWaitFails PROVE StillOpen'
  BY <1>2, AttemptFailsOpen DEF WorkerSendFails, WorkerWaitFails
<1>3. ASSUME NEW h \in Sends, WorkerSend(h) \/ WorkerSendUnseen(h) PROVE StillOpen'
  <2>1. worker.pc # "idle" /\ Sent(h, worker.prop) /\ UNCHANGED <<status, signing>>
    BY <1>3 DEF WorkerSend, WorkerSendUnseen
  <2>2. \A g \in Sends, p \in Proposals \ {worker.prop} :
           outcome'[g] # "unsent" /\ sentFor'[g] = p => outcome[g] # "unsent" /\ sentFor[g] = p
    BY <1>t, <2>1 DEF Sent
  <2>3. CASE WorkerSend(h)
    <3>1. PICK q \in Proposals : q = worker.prop
      BY <1>t, <2>1
    <3>2. UNCHANGED <<queue, exhausted>> /\ worker'.prop = q
      BY <2>3, <3>1 DEF WorkerSend
    <3>3. ~IsOpen(q)'
      BY <1>t, <2>1, <3>1 DEF IsOpen
    <3> QED
      BY <2>1, <2>2, <3>1, <3>2, <3>3, OpenKept
  <2>4. CASE WorkerSendUnseen(h)
    <3>1. AttemptFails
      BY <2>4 DEF WorkerSendUnseen
    <3> QED
      BY <2>1, <2>2, <3>1, AttemptFailsOpen
  <2> QED
    BY <1>3, <2>3, <2>4
<1>4. ASSUME WorkerRecord PROVE StillOpen'
  <2>1. worker'.prop = worker.prop
        /\ UNCHANGED <<status, queue, exhausted, outcome, sentFor, signing>>
    BY <1>4 DEF WorkerRecord
  <2> QED
    BY <2>1 DEF StillOpen, IsOpen
<1>5. ASSUME WorkerConfirm PROVE StillOpen'
  <2>1. worker.pc # "idle" /\ UNCHANGED <<signing, outcome, sentFor>>
    BY <1>5 DEF WorkerConfirm
  <2>2. CASE row[worker.hash] # "absent"
    <3>1. PICK q \in Proposals : q = worker.prop
      BY <1>t, <2>1
    <3>2. /\ status' = [status EXCEPT ![q] = "EXECUTED"]
          /\ worker' = NoJob /\ UNCHANGED <<queue, exhausted>>
      BY <1>5, <2>2, <3>1 DEF WorkerConfirm, RecordExecuted
    <3>3. ~IsOpen(q)' /\ \A p \in Proposals \ {q} : status'[p] = status[p]
      BY <1>t, <3>2 DEF IsOpen
    <3>4. \A p \in Proposals : worker'.prop # p
      BY <3>2, Constants DEF NoJob
    <3> QED
      BY <2>1, <3>2, <3>3, <3>4, OpenKept
  <2>3. CASE row[worker.hash] = "absent"
    BY <1>5, <2>1, <2>3, AttemptFailsOpen DEF WorkerConfirm
  <2> QED
    BY <2>2, <2>3
<1>6. ASSUME WorkerReverted PROVE StillOpen'
  BY <1>6, AttemptFailsOpen DEF WorkerReverted
<1>7. ASSUME NEW p \in Proposals, MarkProposalAsFailed(p) PROVE StillOpen'
  <2>1. /\ status' = [status EXCEPT ![p] = "EXECUTION_FAILED"]
        /\ exhausted' = exhausted \ {p}
        /\ UNCHANGED <<queue, worker, outcome, sentFor, signing>>
    BY <1>7 DEF MarkProposalAsFailed, SetFailed
  <2>2. ~IsOpen(p)' /\ \A q \in Proposals \ {p} : status'[q] = status[q]
    BY <1>t, <2>1 DEF IsOpen
  <2> QED
    BY <2>1, <2>2, OpenKept
<1> QED
  BY <1>1, <1>2, <1>3, <1>4, <1>5, <1>6, <1>7 DEF WorkerStep, SendStep, WaitStep

(* A verdict decides the proposal it is about.                              *)
LEMMA OpenRecorded ==
    ASSUME GovernanceInv, StillOpen, NEW p \in Proposals, NEW s \in ProposalStatus,
           s \notin {"absent", "PENDING"}, status' = [status EXCEPT ![p] = s],
           UNCHANGED <<queue, worker, exhausted, outcome, sentFor, signing>>
    PROVE  StillOpen'
<1>1. ~IsOpen(p)' /\ \A q \in Proposals \ {p} : status'[q] = status[q]
  BY DEF IsOpen, GovernanceInv, TypeOK
<1> QED
  BY <1>1, OpenKept

(* The sweep records verdicts and queues what met its threshold.            *)
LEMMA OpenSweep == GovernanceInv /\ StillOpen /\ SweepStep => StillOpen'
<1> SUFFICES ASSUME GovernanceInv, StillOpen, SweepStep PROVE StillOpen'
  OBVIOUS
<1> USE DEF chainVars, dbVars, requestVars, jobVars, environmentVars
<1>1. CASE SweepConfirm \/ SweepRollBack
  <2>1. PICK p \in Proposals : p = sentFor[reconciler.hash]
    BY <1>1, SweptFacts DEF SweepConfirm, SweepRollBack
  <2>2. PICK s \in {"EXECUTED", "EXECUTION_FAILED"} :
           /\ status' = [status EXCEPT ![p] = s]
           /\ UNCHANGED <<queue, worker, exhausted, outcome, sentFor, signing>>
    BY <1>1, <2>1 DEF SweepConfirm, SweepRollBack, RecordExecuted, SetFailed
  <2> QED
    BY <2>1, <2>2, OpenRecorded DEF ProposalStatus
<1>2. ASSUME NEW p \in Proposals, SweepRequeue(p) PROVE StillOpen'
  <2>1. ~IsOpen(p)' /\ queue' = Enqueued(p, 0)
        /\ UNCHANGED <<status, worker, exhausted, outcome, sentFor, signing>>
    BY <1>2 DEF SweepRequeue, Stuck, IsOpen
  <2>2. 0 \in Attempts
    BY Constants DEF Attempts
  <2>3. \A q \in Proposals \ {p}, a \in Attempts : queue'[q][a] = queue[q][a]
    BY <2>1, <2>2, QueueEffect DEF GovernanceInv
  <2> QED
    BY <2>1, <2>3, OpenKept
<1>3. CASE SweepSkip \/ SweepRevert \/ \E h \in Sends : SweepPick(h)
  BY <1>3, OpenFrame DEF SweepPick, SweepSkip, SweepRevert
<1> QED
  BY <1>1, <1>2, <1>3 DEF SweepStep, SweepReadStep

(* A block sends nothing; an event records a verdict.                       *)
LEMMA OpenChain ==
    ASSUME GovernanceInv, StillOpen, NEW h \in Sends, MineStep(h) \/ IndexStep(h)
    PROVE  StillOpen'
<1> USE DEF chainVars, dbVars, requestVars, jobVars, environmentVars
<1>1. CASE MineStep(h)
  <2>1. outcome[h] = "pending" /\ \A g \in Sends : g # h => outcome'[g] = outcome[g]
    BY <1>1 DEF MineStep, MineOk, MineFailed, MineReverted, GovernanceInv, TypeOK
  <2> QED
    BY <1>1, <2>1, OpenFrame DEF MineStep, MineOk, MineFailed, MineReverted
<1>2. CASE IndexStep(h)
  <2>1. sentFor[h] \in Proposals
        /\ UNCHANGED <<queue, worker, exhausted, outcome, sentFor, signing>>
    BY <1>2, QuorumFacts DEF IndexStep, IndexSuccess, IndexFailure
  <2>2. CASE UNCHANGED status
    BY <2>1, <2>2, OpenFrame
  <2>3. CASE \E s \in {"EXECUTED", "EXECUTION_FAILED"} : status' = [status EXCEPT ![sentFor[h]] = s]
    BY <2>1, <2>3, OpenRecorded DEF ProposalStatus
  <2> QED
    BY <1>2, <2>2, <2>3 DEF IndexStep, IndexSuccess, IndexFailure, RecordExecuted, SetFailed
<1> QED
  BY <1>1, <1>2

(* A crash puts back the job of a decided proposal.                         *)
LEMMA OpenEnvironment ==
    ASSUME GovernanceInv, StillOpen, Crash \/ \E p \in Proposals, a \in Attempts : LoseJob(p, a)
    PROVE  StillOpen'
<1> USE DEF chainVars, dbVars, requestVars, jobVars, environmentVars
<1>1. CASE Crash
  <2>1. /\ signing' = [m \in Members |-> NoRequest] /\ exhausted' = {} /\ worker' = NoJob
        /\ UNCHANGED <<status, outcome, sentFor>>
    BY <1>1 DEF Crash
  <2>2. /\ \A p \in Proposals : worker'.prop # p
        /\ \A m \in Members : signing'[m].pc # "marked"
    BY <2>1, Constants DEF NoJob, NoRequest
  <2>3. CASE worker = NoJob
    <3>1. UNCHANGED queue
      BY <1>1, <2>3 DEF Crash
    <3> QED
      BY <2>1, <2>2, <3>1 DEF StillOpen, IsOpen
  <2>4. CASE worker # NoJob
    <3>1. PICK p \in Proposals : p = worker.prop
      BY <2>4 DEF GovernanceInv, JobsSound
    <3>2. worker.attempt \in Attempts /\ queue' = Enqueued(p, worker.attempt)
      BY <1>1, <2>4, <3>1 DEF Crash, GovernanceInv, TypeOK, Job
    <3>3. \A q \in Proposals \ {p}, a \in Attempts : queue'[q][a] = queue[q][a]
      BY <3>2, QueueEffect DEF GovernanceInv
    <3>4. ~IsOpen(p)'
      BY <2>1, <3>1 DEF StillOpen, IsOpen
    <3> QED
      BY <2>1, <2>2, <3>3, <3>4, OpenKept
  <2> QED
    BY <2>3, <2>4
<1>2. ASSUME NEW p \in Proposals, NEW a \in Attempts, LoseJob(p, a) PROVE StillOpen'
  <2>1. /\ queue[p][a] > 0 /\ queue' = Dequeued(p, a)
        /\ UNCHANGED <<status, worker, exhausted, outcome, sentFor, signing>>
    BY <1>2 DEF LoseJob
  <2>2. ~IsOpen(p)'
    BY <2>1 DEF StillOpen, IsOpen
  <2>3. \A q \in Proposals \ {p}, b \in Attempts : queue'[q][b] = queue[q][b]
    BY <2>1, QueueEffect DEF GovernanceInv
  <2> QED
    BY <2>1, <2>2, <2>3, OpenKept
<1> QED
  BY <1>1, <1>2

(* Every step keeps StillOpen.                                              *)
LEMMA OpenNext == GovernanceInv /\ StillOpen /\ [Next]_vars => StillOpen'
<1> SUFFICES ASSUME GovernanceInv, StillOpen, [Next]_vars PROVE StillOpen'
  OBVIOUS
<1>1. CASE UNCHANGED vars
  BY <1>1, OpenFrame DEF vars, chainVars, dbVars, requestVars, jobVars
<1> QED
  BY <1>1, OpenRequest, OpenWorker, OpenSweep, OpenChain, OpenEnvironment DEF Next

(* No step but a cancellation changes an unnoticed proposal.                *)
LEMMA UnnoticedKept ==
    ASSUME GovernanceInv, StillOpen, [Next]_vars, NEW p \in Proposals, Unnoticed(p)
    PROVE  Unnoticed(p)' \/ status'[p] = "CANCELLED"
<1> USE DEF chainVars, dbVars, requestVars, jobVars, environmentVars
<1>t. /\ signing \in [Members -> SignRequest] /\ status \in [Proposals -> ProposalStatus]
      /\ sigs \in [Proposals -> SUBSET Members]
      /\ status[p] = "PENDING" /\ Quorum(p) /\ sigs[p] = Members
  BY DEF GovernanceInv, TypeOK, Unnoticed
<1>k. ASSUME status'[p] = status[p], sigs'[p] = sigs[p],
             \A m \in Members : signing'[m].pc # "idle" =>
                signing'[m].prop # p \/ (signing[m].pc # "idle" /\ signing[m].prop = signing'[m].prop)
      PROVE  Unnoticed(p)'
  BY <1>k DEF Unnoticed, Quorum
<1>f. ASSUME UNCHANGED <<status, sigs, signing>> PROVE Unnoticed(p)'
  BY <1>f, <1>k
<1>o. /\ \A a \in Attempts : ~(queue[p][a] > 0)
      /\ worker.prop # p /\ p \notin exhausted
      /\ \A h \in Sends : outcome[h] # "unsent" => sentFor[h] # p
  BY <1>t DEF StillOpen, IsOpen
<1>1. CASE RequestStep
  <2>1. ASSUME NEW q \in Proposals, Propose(q) \/ CancelRead(q) \/ Fallback(q) PROVE Unnoticed(p)'
    <3>1. UNCHANGED <<sigs, signing>> /\ status'[p] = status[p]
      BY <1>t, <2>1 DEF Propose, CancelRead, Fallback
    <3> QED
      BY <3>1, <1>k
  <2>2. ASSUME NEW q \in Proposals, CancelWrite(q) PROVE Unnoticed(p)' \/ status'[p] = "CANCELLED"
    <3>1. UNCHANGED <<sigs, signing>> /\ status'[p] \in {status[p], "CANCELLED"}
      BY <1>t, <2>2 DEF CancelWrite
    <3> QED
      BY <3>1, <1>k
  <2>3. ASSUME NEW m \in Members, NEW q \in Proposals, SignRead(m, q) PROVE Unnoticed(p)'
    <3>1. q # p /\ UNCHANGED <<status, sigs>>
          /\ signing' = [signing EXCEPT ![m] =
                           [pc |-> "checked", prop |-> q, seen |-> Cardinality(sigs[q])]]
      BY <1>t, <2>3 DEF SignRead
    <3>2. \A n \in Members : signing'[n] = signing[n] \/ signing'[n].prop = q
      BY <1>t, <3>1
    <3> QED
      BY <3>1, <3>2, <1>k
  <2>4. ASSUME NEW m \in Members, SignStore(m) \/ SignMark(m) \/ SignEnqueue(m) PROVE Unnoticed(p)'
    <3>1. PICK q \in Proposals : q = signing[m].prop /\ q # p
      BY <2>4 DEF SignStore, SignMark, SignEnqueue, GovernanceInv, RequestsSound, Unnoticed
    <3>2. /\ \E r : signing' = [signing EXCEPT ![m] = r] /\ (r.pc = "idle" \/ r.prop = q)
          /\ status'[p] = status[p] /\ sigs'[p] = sigs[p]
      BY <1>t, <2>4, <3>1 DEF SignStore, SignMark, SignEnqueue, NoRequest
    <3>3. \A n \in Members :
             signing'[n] = signing[n] \/ signing'[n].pc = "idle" \/ signing'[n].prop = q
      BY <1>t, <3>2
    <3> QED
      BY <3>1, <3>2, <3>3, <1>k
  <2> QED
    BY <1>1, <2>1, <2>2, <2>3, <2>4 DEF RequestStep
<1>2. CASE WorkerStep
  <2>1. UNCHANGED <<sigs, signing>>
    BY <1>2 DEF WorkerStep, TakeStep, WorkerSkip, WorkerLoad, SendStep, WorkerSendFails, WorkerSend,
                WorkerSendUnseen, WorkerRecord, WaitStep, WorkerConfirm, WorkerReverted,
                WorkerWaitFails, MarkProposalAsFailed
  <2>2. CASE WorkerConfirm
    <3>1. status'[p] = status[p]
      BY <1>t, <1>o, <2>2 DEF WorkerConfirm, RecordExecuted
    <3> QED
      BY <2>1, <3>1, <1>k
  <2>3. ASSUME NEW q \in Proposals, MarkProposalAsFailed(q) PROVE Unnoticed(p)'
    <3>1. status'[p] = status[p]
      BY <1>t, <1>o, <2>3 DEF MarkProposalAsFailed, SetFailed
    <3> QED
      BY <2>1, <3>1, <1>k
  <2>4. CASE UNCHANGED status
    BY <2>1, <2>4, <1>f
  <2> QED
    BY <1>2, <2>2, <2>3, <2>4
    DEF WorkerStep, TakeStep, WorkerSkip, WorkerLoad, SendStep, WorkerSendFails, WorkerSend,
        WorkerSendUnseen, WorkerRecord, WaitStep, WorkerReverted, WorkerWaitFails
<1>3. ASSUME NEW h \in Sends, MineStep(h) \/ IndexStep(h) PROVE Unnoticed(p)'
  <2>1. UNCHANGED <<sigs, signing>>
    BY <1>3 DEF MineStep, MineOk, MineFailed, MineReverted, IndexStep, IndexSuccess, IndexFailure
  <2>2. status'[p] = status[p]
    BY <1>t, <1>o, <1>3
    DEF MineStep, MineOk, MineFailed, MineReverted, IndexStep, IndexSuccess, IndexFailure,
        RecordExecuted, SetFailed
  <2> QED
    BY <2>1, <2>2, <1>k
<1>4. CASE SweepStep
  <2>1. UNCHANGED <<sigs, signing>>
    BY <1>4 DEF SweepStep, SweepReadStep, SweepPick, SweepSkip, SweepConfirm, SweepRevert,
                SweepRollBack, SweepRequeue
  <2>2. CASE SweepConfirm \/ SweepRollBack
    <3>1. reconciler.hash \in Sends /\ outcome[reconciler.hash] # "unsent"
      BY <2>2 DEF SweepConfirm, SweepRollBack, GovernanceInv, JobsSound, SendsSound
    <3>2. sentFor[reconciler.hash] # p
      BY <1>o, <3>1
    <3>3. status'[p] = status[p]
      BY <1>t, <2>2, <3>2 DEF SweepConfirm, SweepRollBack, RecordExecuted, SetFailed
    <3> QED
      BY <2>1, <3>3, <1>k
  <2>3. CASE UNCHANGED status
    BY <2>1, <2>3, <1>f
  <2> QED
    BY <1>4, <2>2, <2>3
    DEF SweepStep, SweepReadStep, SweepPick, SweepSkip, SweepRevert, SweepRequeue
<1>5. CASE Crash
  <2>1. UNCHANGED <<status, sigs>> /\ \A m \in Members : signing'[m].pc = "idle"
    BY <1>5 DEF Crash, NoRequest
  <2> QED
    BY <2>1, <1>k
<1>6. ASSUME NEW q \in Proposals, NEW a \in Attempts, LoseJob(q, a) PROVE Unnoticed(p)'
  BY <1>6, <1>f DEF LoseJob
<1>7. CASE UNCHANGED vars
  BY <1>7, <1>f DEF vars
<1> QED
  BY <1>1, <1>2, <1>3, <1>4, <1>5, <1>6, <1>7 DEF Next

(* The finding of the run quorum_unnoticed for every instance: two members  *)
(* who sign at the same time may each count too few signatures, and once    *)
(* everybody has signed a PENDING proposal nothing the backend does, no     *)
(* request, job, sweep, event or restart, ever takes it further. It can     *)
(* only be cancelled.                                                       *)
THEOREM UnnoticedForGood ==
    Spec => [][\A p \in Proposals : Unnoticed(p) => Unnoticed(p)' \/ status'[p] = "CANCELLED"]_vars
<1>1. Init => StillOpen
  BY Constants DEF Init, StillOpen, NoJob, NoRequest
<1>2. GovernanceInv /\ StillOpen /\ [Next]_vars =>
         [\A p \in Proposals : Unnoticed(p) => Unnoticed(p)' \/ status'[p] = "CANCELLED"]_vars
  BY UnnoticedKept
<1> QED
  BY InitInv, <1>1, NextInv, OpenNext, <1>2, PTL DEF Spec

-----------------------------------------------------------------------------
(* AN EXECUTION WHOSE HASH WAS NOT STORED IS NEVER RECORDED                 *)

(* The call of a proposal took effect by a transaction without a row, while *)
(* the one row the proposal may have is of a transaction that did not       *)
(* succeed.                                                                 *)
Stranded(p) ==
    /\ status[p] # "EXECUTED" /\ HasRow(p)
    /\ \E h \in Sends : sentFor[h] = p /\ outcome[h] = "ok"
    /\ \A h \in Sends : sentFor[h] = p /\ row[h] # "absent" => ~ReceiptOk(h)

(* The nonce of a stranded proposal is used: nothing more is sent or mined  *)
(* for it.                                                                  *)
LEMMA StrandedIsSpent ==
    ASSUME GovernanceInv, NoncesSound, NEW p \in Proposals, Stranded(p)
    PROVE  nonceOf[p] # safeNonce
<1>1. PICK h \in Sends : sentFor[h] = p /\ ReceiptOk(h)
  BY DEF Stranded, ReceiptOk
<1>2. nonceOf[p] < safeNonce /\ nonceOf[p] \in Nat /\ safeNonce \in Nat
  BY <1>1 DEF NoncesSound, GovernanceInv, TypeOK
<1> QED
  BY <1>2

(* What a step has to leave alone.                                          *)
LEMMA StrandedFrame ==
    ASSUME GovernanceInv, NEW p \in Proposals, Stranded(p), status'[p] # "EXECUTED",
           \A h \in Sends : sentFor[h] = p /\ outcome[h] # "unsent" =>
              /\ sentFor'[h] = p
              /\ row'[h] = "absent" <=> row[h] = "absent"
              /\ outcome[h] = "ok" => outcome'[h] = "ok"
              /\ outcome'[h] \in {"ok", "failed"} => outcome[h] \in {"ok", "failed"},
           \A h \in Sends : sentFor'[h] = p /\ row'[h] # "absent" =>
              sentFor[h] = p /\ outcome[h] # "unsent"
    PROVE  Stranded(p)'
<1>1. \A h \in Sends : row[h] # "absent" => outcome[h] # "unsent"
  BY DEF GovernanceInv, SendsSound
<1>2. HasRow(p)'
  BY <1>1 DEF Stranded, HasRow
<1>3. \E h \in Sends : sentFor'[h] = p /\ outcome'[h] = "ok"
  BY DEF Stranded
<1>4. \A h \in Sends : sentFor'[h] = p /\ row'[h] # "absent" => outcome'[h] \notin {"ok", "failed"}
  BY DEF Stranded, ReceiptOk
<1> QED
  BY <1>2, <1>3, <1>4 DEF Stranded, ReceiptOk

(* No step records it.                                                      *)
LEMMA StrandedKept ==
    ASSUME GovernanceInv, NoncesSound, [Next]_vars, NEW p \in Proposals, Stranded(p)
    PROVE  Stranded(p)'
<1> USE DEF chainVars, dbVars, requestVars, jobVars, environmentVars
<1>t. /\ status \in [Proposals -> ProposalStatus] /\ row \in [Sends -> RowStatus]
      /\ outcome \in [Sends -> Outcome] /\ sentFor \in [Sends -> Proposals \cup {NoProposal}]
      /\ status[p] # "EXECUTED" /\ HasRow(p)
      /\ \A h \in Sends : sentFor[h] = p /\ row[h] # "absent" => ~ReceiptOk(h)
      /\ \A h \in Sends : row[h] # "absent" => outcome[h] # "unsent"
  BY DEF GovernanceInv, TypeOK, SendsSound, Stranded
<1>f. ASSUME status'[p] # "EXECUTED", UNCHANGED <<outcome, sentFor, row>> PROVE Stranded(p)'
  BY <1>f, <1>t, StrandedFrame
(* A row changes only where there is one, and of this proposal none is MINED. *)
<1>r. ASSUME NEW h \in Sends, row[h] # "absent" \/ sentFor[h] # p,
             \E s \in {"PENDING", "MINED", "FAILED"} : row' = [row EXCEPT ![h] = s],
             UNCHANGED <<outcome, sentFor>>, status'[p] # "EXECUTED"
      PROVE  Stranded(p)'
  <2>1. \A g \in Sends : sentFor[g] = p => (row'[g] = "absent" <=> row[g] = "absent")
    BY <1>t, <1>r
  <2> QED
    BY <1>t, <1>r, <2>1, StrandedFrame
<1>1. CASE RequestStep
  <2>1. UNCHANGED <<outcome, sentFor, row>> /\ status'[p] # "EXECUTED"
    BY <1>t, <1>1 DEF RequestStep, Propose, CancelRead, CancelWrite, Fallback, SignRead, SignStore,
                      SignMark, SignEnqueue
  <2> QED
    BY <2>1, <1>f
<1>2. CASE WorkerStep
  <2>1. ASSUME NEW h \in Sends, WorkerSend(h) \/ WorkerSendUnseen(h) PROVE Stranded(p)'
    <3>1. worker.prop # p
      BY <2>1, StrandedIsSpent DEF WorkerSend, WorkerSendUnseen, MaySend
    <3>2. /\ outcome' = [outcome EXCEPT ![h] = "pending"] /\ outcome[h] = "unsent"
          /\ sentFor' = [sentFor EXCEPT ![h] = worker.prop] /\ UNCHANGED <<status, row>>
      BY <2>1 DEF WorkerSend, WorkerSendUnseen, Sent, NextSend
    <3> QED
      BY <1>t, <3>1, <3>2, StrandedFrame
  <2>2. CASE WorkerRecord
    <3>1. worker.hash \in Sends /\ sentFor[worker.hash] = worker.prop
      BY <2>2 DEF WorkerRecord, GovernanceInv, JobsSound
    <3>2. CASE HasRow(worker.prop)
      <4>1. UNCHANGED <<status, outcome, sentFor, row>>
        BY <1>t, <2>2, <3>1, <3>2 DEF WorkerRecord
      <4> QED
        BY <1>t, <4>1, <1>f
    <3>3. CASE ~HasRow(worker.prop)
      <4>1. PICK h \in Sends : h = worker.hash /\ sentFor[h] # p
        BY <1>t, <3>1, <3>3
      <4>2. row' = [row EXCEPT ![h] = "PENDING"] /\ UNCHANGED <<status, outcome, sentFor>>
        BY <2>2, <3>3, <4>1 DEF WorkerRecord
      <4> QED
        BY <1>t, <4>1, <4>2, <1>r
    <3> QED
      BY <3>2, <3>3
  <2>3. CASE WorkerConfirm
    <3>1. PICK h \in Sends : h = worker.hash /\ sentFor[h] = worker.prop /\ ReceiptOk(h)
      BY <2>3 DEF WorkerConfirm, GovernanceInv, JobsSound
    <3>2. CASE row[h] # "absent"
      <4>1. worker.prop # p
        BY <1>t, <3>1, <3>2
      <4>2. /\ row' = [row EXCEPT ![h] = "MINED"] /\ UNCHANGED <<outcome, sentFor>>
            /\ status' = [status EXCEPT ![worker.prop] = "EXECUTED"]
        BY <2>3, <3>1, <3>2 DEF WorkerConfirm, RecordExecuted
      <4> QED
        BY <1>t, <3>2, <4>1, <4>2, <1>r
    <3>3. CASE row[h] = "absent"
      BY <1>t, <2>3, <3>1, <3>3, <1>f DEF WorkerConfirm
    <3> QED
      BY <3>2, <3>3
  <2>4. CASE WorkerReverted
    <3>1. PICK h \in Sends : h = worker.hash
      BY <2>4 DEF WorkerReverted, GovernanceInv, JobsSound
    <3>2. CASE row[h] # "absent"
      BY <1>t, <2>4, <3>1, <3>2, <1>r DEF WorkerReverted
    <3>3. CASE row[h] = "absent"
      <4>1. UNCHANGED <<status, outcome, sentFor, row>>
        BY <1>t, <2>4, <3>1, <3>3 DEF WorkerReverted
      <4> QED
        BY <1>t, <4>1, <1>f
    <3> QED
      BY <3>2, <3>3
  <2>5. ASSUME NEW q \in Proposals, MarkProposalAsFailed(q) PROVE Stranded(p)'
    BY <1>t, <2>5, <1>f DEF MarkProposalAsFailed, SetFailed
  <2>6. CASE UNCHANGED <<status, row, outcome, sentFor>>
    BY <1>t, <2>6, <1>f
  <2> QED
    BY <1>2, <2>1, <2>2, <2>3, <2>4, <2>5, <2>6
    DEF WorkerStep, TakeStep, WorkerSkip, WorkerLoad, SendStep, WorkerSendFails, WaitStep,
        WorkerWaitFails
<1>3. ASSUME NEW h \in Sends, MineStep(h) PROVE Stranded(p)'
  <2>1. /\ outcome[h] = "pending" /\ UNCHANGED <<status, sentFor, row>>
        /\ \/ outcome' = [outcome EXCEPT ![h] = "reverted"]
           \/ /\ sentFor[h] # p
              /\ \E o \in {"ok", "failed"} : outcome' = [outcome EXCEPT ![h] = o]
    BY <1>3, StrandedIsSpent DEF MineStep, MineOk, MineFailed, MineReverted
  <2>2. \A g \in Sends : sentFor[g] = p =>
           /\ outcome[g] = "ok" => outcome'[g] = "ok"
           /\ outcome'[g] \in {"ok", "failed"} => outcome[g] \in {"ok", "failed"}
    BY <1>t, <2>1
  <2> QED
    BY <1>t, <2>1, <2>2, StrandedFrame
<1>4. ASSUME NEW h \in Sends, IndexStep(h) PROVE Stranded(p)'
  <2>1. ReceiptOk(h) /\ UNCHANGED <<outcome, sentFor>>
    BY <1>4 DEF IndexStep, IndexSuccess, IndexFailure, ReceiptOk
  <2>2. CASE sentFor[h] = p
    <3>1. ~Storable(h)
      BY <1>t, <2>1, <2>2 DEF Storable
    <3>2. UNCHANGED <<status, row>>
      BY <1>4, <3>1 DEF IndexStep, IndexSuccess, IndexFailure
    <3> QED
      BY <1>t, <2>1, <3>2, <1>f
  <2>3. CASE sentFor[h] # p /\ ~UNCHANGED <<status, row>>
    <3>1. status'[p] = status[p] /\ \E s \in {"MINED", "FAILED"} : row' = [row EXCEPT ![h] = s]
      BY <1>t, <1>4, <2>3 DEF IndexStep, IndexSuccess, IndexFailure, RecordExecuted, SetFailed
    <3> QED
      BY <1>t, <2>1, <2>3, <3>1, <1>r
  <2>4. CASE UNCHANGED <<status, row>>
    BY <1>t, <2>1, <2>4, <1>f
  <2> QED
    BY <2>2, <2>3, <2>4
<1>5. CASE SweepStep
  <2>1. CASE SweepConfirm \/ SweepRevert
    <3>1. PICK h \in Sends : h = reconciler.hash /\ row[h] # "absent"
      BY <2>1 DEF SweepConfirm, SweepRevert, GovernanceInv, JobsSound
    <3>2. CASE SweepConfirm
      <4>1. sentFor[h] # p
        BY <1>t, <3>1, <3>2 DEF SweepConfirm
      <4>2. /\ row' = [row EXCEPT ![h] = "MINED"] /\ UNCHANGED <<outcome, sentFor>>
            /\ status' = [status EXCEPT ![sentFor[h]] = "EXECUTED"]
        BY <3>1, <3>2 DEF SweepConfirm, RecordExecuted
      <4> QED
        BY <1>t, <3>1, <4>1, <4>2, <1>r
    <3>3. CASE SweepRevert
      BY <1>t, <3>1, <3>3, <1>r DEF SweepRevert
    <3> QED
      BY <2>1, <3>2, <3>3
  <2>2. CASE ~(SweepConfirm \/ SweepRevert)
    <3>1. UNCHANGED <<outcome, sentFor, row>> /\ status'[p] # "EXECUTED"
      BY <1>t, <1>5, <2>2 DEF SweepStep, SweepReadStep, SweepPick, SweepSkip, SweepRollBack, SetFailed,
                              SweepRequeue
    <3> QED
      BY <3>1, <1>f
  <2> QED
    BY <2>1, <2>2
<1>6. CASE Crash \/ \E q \in Proposals, a \in Attempts : LoseJob(q, a)
  BY <1>t, <1>6, <1>f DEF Crash, LoseJob
<1>7. CASE UNCHANGED vars
  BY <1>t, <1>7, <1>f DEF vars
<1> QED
  BY <1>1, <1>2, <1>3, <1>4, <1>5, <1>6, <1>7 DEF Next

(* The finding of the run executed_unrecorded for every instance: once the  *)
(* call of a proposal took effect by an attempt whose hash could not be     *)
(* stored, because an earlier attempt that failed holds the one row of the  *)
(* proposal, no worker, sweep or indexer ever sets it EXECUTED.             *)
THEOREM StrandedForGood ==
    Spec => [][\A p \in Proposals : Stranded(p) => Stranded(p)']_vars
<1>1. GovernanceInv /\ NoncesSound /\ [Next]_vars =>
         [\A p \in Proposals : Stranded(p) => Stranded(p)']_vars
  BY StrandedKept
<1> QED
  BY NoncesInductive, <1>1, PTL DEF Spec

-----------------------------------------------------------------------------
(* THE COUNCIL                                                              *)

(* What passed is told by the transactions alone.                           *)
LEMMA CouncilStutters ==
    ASSUME UNCHANGED <<nonceOf, sigs, safeNonce, sentFor, outcome, status>>
    PROVE  UNCHANGED Assembly!councilVars
BY DEF Assembly!councilVars, Passed

(* A step that only sets the status of one proposal shows it executed, or   *)
(* takes back what it showed.                                               *)
LEMMA CouncilShows ==
    ASSUME TypeOK, NEW p \in Proposals, NEW s,
           status' = [status EXCEPT ![p] = s], s = "EXECUTED" => p \in Passed,
           UNCHANGED <<nonceOf, sigs, safeNonce, sentFor, outcome>>
    PROVE  Assembly!CouncilNext
<1> DEFINE shown == {q \in Proposals : status[q] = "EXECUTED"}
<1>1. UNCHANGED Passed
  BY DEF Passed
<1>2. \A q \in Proposals : status'[q] = IF q = p THEN s ELSE status[q]
  BY DEF TypeOK
<1>3. CASE s = "EXECUTED"
  <2>1. shown' = shown \cup {p}
    BY <1>2, <1>3
  <2>2. Assembly!Show(p)
    BY <1>1, <1>3, <2>1 DEF Assembly!Show
  <2> QED
    BY <2>2 DEF Assembly!CouncilNext
<1>4. CASE s # "EXECUTED"
  <2>1. shown' = shown \ {p}
    BY <1>2, <1>4
  <2>2. Assembly!TakeBack(p)
    BY <1>1, <2>1 DEF Assembly!TakeBack
  <2> QED
    BY <2>2 DEF Assembly!CouncilNext
<1> QED
  BY <1>3, <1>4

(* Whom a receipt of status 1 is of has passed.                             *)
LEMMA RecordedPassed ==
    ASSUME GovernanceInv, NEW h \in Sends, ReceiptOk(h)
    PROVE  sentFor[h] \in Passed
BY QuorumFacts DEF ReceiptOk, Passed, GovernanceInv, SendsSound

(* A proposal is given its turn by the request that makes it, before anybody *)
(* signs; a request adds its own member's signature, which was not there.   *)
LEMMA RequestCouncil ==
    ASSUME GovernanceInv, NoncesSound, RequestStep
    PROVE  [Assembly!CouncilNext]_(Assembly!councilVars)
<1> USE DEF chainVars, dbVars, requestVars, jobVars
<1>t. TypeOK
  BY DEF GovernanceInv
<1>1. CASE \E p \in Proposals : Propose(p)
  <2>1. PICK p \in Proposals : Propose(p)
    BY <1>1
  <2>2. sigs[p] = {} /\ UNCHANGED <<sigs, safeNonce, sentFor, outcome>>
    BY <2>1 DEF Propose, NoncesSound
  <2>3. \A q \in Proposals : status'[q] = "EXECUTED" <=> status[q] = "EXECUTED"
    BY <1>t, <2>1 DEF Propose, TypeOK
  <2>4. Assembly!TakeTurn(p)
    BY <2>1, <2>2, <2>3 DEF Propose, Assembly!TakeTurn, Passed
  <2> QED
    BY <2>4 DEF Assembly!CouncilNext
<1>2. CASE \E m \in Members : SignStore(m)
  <2>1. PICK m \in Members : SignStore(m)
    BY <1>2
  <2>2. signing[m].prop \in Proposals /\ m \notin sigs[signing[m].prop]
    BY <2>1 DEF SignStore, GovernanceInv, RequestsSound
  <2>3. Assembly!Sign(signing[m].prop, m)
    BY <2>1, <2>2 DEF SignStore, Assembly!Sign, Passed
  <2> QED
    BY <2>2, <2>3 DEF Assembly!CouncilNext
<1>3. CASE \E m \in Members : SignMark(m)
  <2>1. PICK m \in Members : SignMark(m)
    BY <1>3
  <2>2. signing[m].prop \in Proposals
    BY <2>1 DEF SignMark, GovernanceInv, RequestsSound
  <2> QED
    BY <1>t, <2>1, <2>2, CouncilShows DEF SignMark
<1>4. CASE \E p \in Proposals : CancelWrite(p)
  BY <1>t, <1>4, CouncilShows DEF CancelWrite
<1>5. CASE \/ \E p \in Proposals : CancelRead(p) \/ Fallback(p)
           \/ \E m \in Members : SignEnqueue(m) \/ \E p \in Proposals : SignRead(m, p)
  BY <1>5, CouncilStutters DEF CancelRead, Fallback, SignEnqueue, SignRead
<1> QED
  BY <1>1, <1>2, <1>3, <1>4, <1>5 DEF RequestStep

(* A transaction that is sent, or reverts, passes nothing; what a worker    *)
(* records, it has the receipt of.                                          *)
LEMMA WorkerCouncil ==
    ASSUME GovernanceInv, WorkerStep
    PROVE  [Assembly!CouncilNext]_(Assembly!councilVars)
<1> USE DEF chainVars, dbVars, requestVars, jobVars
<1>t. TypeOK
  BY DEF GovernanceInv
<1>1. CASE \E h \in Sends : WorkerSend(h) \/ WorkerSendUnseen(h)
  <2>1. PICK h \in Sends : WorkerSend(h) \/ WorkerSendUnseen(h)
    BY <1>1
  <2>2. outcome[h] = "unsent" /\ Sent(h, worker.prop) /\ UNCHANGED <<nonceOf, sigs, status>>
    BY <2>1 DEF WorkerSend, WorkerSendUnseen, NextSend
  <2>3. UNCHANGED Passed
    BY <1>t, <2>2 DEF Sent, Passed, TypeOK
  <2> QED
    BY <2>2, <2>3 DEF Sent, Assembly!councilVars
<1>2. CASE WorkerConfirm /\ row[worker.hash] # "absent"
  <2>1. worker.hash \in Sends /\ sentFor[worker.hash] = worker.prop
    BY <1>2 DEF WorkerConfirm, GovernanceInv, JobsSound
  <2>2. worker.prop \in Passed /\ worker.prop \in Proposals
    BY <1>2, <2>1, RecordedPassed DEF WorkerConfirm, Passed
  <2> QED
    BY <1>t, <1>2, <2>2, CouncilShows DEF WorkerConfirm, RecordExecuted
<1>3. CASE \E p \in Proposals : MarkProposalAsFailed(p)
  BY <1>t, <1>3, CouncilShows DEF MarkProposalAsFailed, SetFailed
<1>4. CASE \/ \E p \in Proposals, a \in Attempts : TakeStep(p, a)
           \/ WorkerSendFails \/ WorkerRecord \/ WorkerReverted \/ WorkerWaitFails
           \/ WorkerConfirm /\ row[worker.hash] = "absent"
  BY <1>4, CouncilStutters
     DEF TakeStep, WorkerSkip, WorkerLoad, WorkerSendFails, WorkerRecord, WorkerReverted,
         WorkerWaitFails, WorkerConfirm
<1> QED
  BY <1>1, <1>2, <1>3, <1>4 DEF WorkerStep, SendStep, WaitStep

(* The Safe accepts a proposal at its turn and signed by a quorum, and not   *)
(* twice: its nonce would be behind.                                        *)
LEMMA MineCouncil ==
    ASSUME GovernanceInv, NoncesSound, NEW h \in Sends, MineStep(h)
    PROVE  [Assembly!CouncilNext]_(Assembly!councilVars)
<1> USE DEF dbVars, requestVars, jobVars
<1> DEFINE p == sentFor[h]
<1>t. TypeOK
  BY DEF GovernanceInv
<1>1. CASE MineOk(h) \/ MineFailed(h)
  <2>1. /\ outcome[h] = "pending" /\ nonceOf[p] = safeNonce /\ safeNonce' = safeNonce + 1
        /\ outcome' = [outcome EXCEPT ![h] = "ok"] \/ outcome' = [outcome EXCEPT ![h] = "failed"]
        /\ UNCHANGED <<nonceOf, sigs, status, sentFor>>
    BY <1>1 DEF MineOk, MineFailed
  <2>2. p \in Proposals /\ sigs[p] \in {S \in SUBSET Members : Cardinality(S) >= Threshold}
    BY <1>t, <2>1 DEF TypeOK, GovernanceInv, SendsSound, Quorum
  <2>3. p \notin Passed
    <3>1. safeNonce \in Nat
      BY <1>t DEF TypeOK
    <3> QED
      BY <2>1, <3>1 DEF Passed, NoncesSound, ReceiptOk
  <2>4. Passed' = Passed \cup {p}
    BY <1>t, <2>1, <2>2 DEF Passed, TypeOK
  <2>5. Assembly!Pass(p)
    BY <2>1, <2>2, <2>3, <2>4 DEF Assembly!Pass
  <2> QED
    BY <2>2, <2>5 DEF Assembly!CouncilNext
<1>2. CASE MineReverted(h)
  <2>1. UNCHANGED Passed
    BY <1>t, <1>2 DEF MineReverted, Passed, TypeOK
  <2> QED
    BY <1>2, <2>1 DEF MineReverted, Assembly!councilVars
<1> QED
  BY <1>1, <1>2 DEF MineStep

(* Sweep and indexer record what they have the receipt, or the event, of.   *)
LEMMA RecorderCouncil ==
    ASSUME GovernanceInv, SweepStep \/ \E h \in Sends : IndexStep(h)
    PROVE  [Assembly!CouncilNext]_(Assembly!councilVars)
<1> USE DEF chainVars, dbVars, requestVars, jobVars
<1>t. TypeOK
  BY DEF GovernanceInv
<1>1. CASE SweepConfirm
  <2>1. reconciler.hash \in Sends /\ ReceiptOk(reconciler.hash)
    BY <1>1 DEF SweepConfirm, GovernanceInv, JobsSound
  <2>2. sentFor[reconciler.hash] \in Passed /\ sentFor[reconciler.hash] \in Proposals
    BY <2>1, RecordedPassed DEF Passed
  <2> QED
    BY <1>t, <1>1, <2>2, CouncilShows DEF SweepConfirm, RecordExecuted
<1>2. CASE SweepRollBack
  <2>1. sentFor[reconciler.hash] \in Proposals
    BY <1>2, SweptFacts DEF SweepRollBack
  <2> QED
    BY <1>t, <1>2, <2>1, CouncilShows DEF SweepRollBack, SetFailed
<1>3. CASE \/ SweepSkip \/ SweepRevert
           \/ \E h \in Sends : SweepPick(h)
           \/ \E p \in Proposals : SweepRequeue(p)
  BY <1>3, CouncilStutters DEF SweepSkip, SweepRevert, SweepPick, SweepRequeue
<1>4. ASSUME NEW h \in Sends, IndexStep(h) PROVE [Assembly!CouncilNext]_(Assembly!councilVars)
  <2>1. outcome[h] \in {"ok", "failed"} /\ UNCHANGED <<nonceOf, sigs, safeNonce, sentFor, outcome>>
    BY <1>4 DEF IndexStep, IndexSuccess, IndexFailure
  <2>2. sentFor[h] \in Passed /\ sentFor[h] \in Proposals
    BY <2>1, RecordedPassed DEF ReceiptOk, Passed
  <2>3. \/ UNCHANGED status
        \/ \E s \in {"EXECUTED", "EXECUTION_FAILED"} : status' = [status EXCEPT ![sentFor[h]] = s]
    BY <1>4 DEF IndexStep, IndexSuccess, IndexFailure, RecordExecuted, SetFailed
  <2> QED
    BY <1>t, <2>1, <2>2, <2>3, CouncilShows, CouncilStutters
<1> QED
  BY <1>1, <1>2, <1>3, <1>4 DEF SweepStep, SweepReadStep

(* Governance keeps the promise of a council, whatever requests, attempts,  *)
(* recorders, crashes and lost jobs do to each other: a proposal passes at   *)
(* its turn, once, signed by enough members, and only what passed is shown  *)
(* executed.                                                                *)
THEOREM CouncilImplemented == Spec => ImplementsCouncil
<1>1. Init => Assembly!CouncilInit
  BY DEF Init, Assembly!CouncilInit, Passed
<1>2. GovernanceInv /\ NoncesSound /\ [Next]_vars => [Assembly!CouncilNext]_(Assembly!councilVars)
  <2> SUFFICES ASSUME GovernanceInv, NoncesSound, [Next]_vars
               PROVE  [Assembly!CouncilNext]_(Assembly!councilVars)
    OBVIOUS
  <2>1. CASE \/ UNCHANGED vars \/ Crash
             \/ \E p \in Proposals, a \in Attempts : LoseJob(p, a)
    BY <2>1, CouncilStutters DEF vars, Crash, LoseJob, chainVars, dbVars
  <2> QED
    BY <2>1, RequestCouncil, WorkerCouncil, MineCouncil, RecorderCouncil DEF Next
<1> QED
  BY NoncesInductive, <1>1, <1>2, PTL DEF Spec, ImplementsCouncil, Assembly!CouncilSpec
=============================================================================
