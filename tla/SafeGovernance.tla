----------------------------- MODULE SafeGovernance -----------------------------
(***************************************************************************)
(* The multi-signature governance of the backend: proposals and signatures *)
(* in the database, the job queue and its worker that send a proposal to   *)
(* the Safe, the reconciliation sweep and the indexer that repair what the *)
(* worker missed.                                                          *)
(*                                                                         *)
(* Every await is a point where another request, job or block may come in  *)
(* between: a handler that reads, then writes, is several actions here. The *)
(* chain, the Safe contract and the queue's own storage are external.      *)
(***************************************************************************)
EXTENDS Integers, FiniteSets

CONSTANTS
    Proposals,          \* safeTxHashes of the proposals that may be made
    NoProposal,         \* not a proposal
    Members,            \* government members whose wallet owns the Safe
    Threshold,          \* signatures the Safe asks for
    SafeReportsFailure, \* the Safe emits ExecutionFailure, and does not revert,
                        \* when the proposed call reverts
    IndexerRuns,        \* the indexer daemon is started
    MaxAttempts,        \* attempts of a job (safe-execution.queue.ts)
    MaxQueued,          \* bound: equal jobs in the queue
    MaxSends,           \* bound: transactions sent to the Safe
    MaxCrashes,         \* bound: crashes of the backend process
    MaxLosses           \* bound: jobs lost by the queue

ASSUME GovernanceAssumption ==
    /\ NoProposal \notin Proposals
    /\ IsFiniteSet(Members)
    /\ Threshold \in Nat \ {0} /\ MaxAttempts \in Nat \ {0} /\ MaxQueued \in Nat \ {0}
    /\ MaxSends \in Nat /\ MaxCrashes \in Nat /\ MaxLosses \in Nat
    /\ SafeReportsFailure \in BOOLEAN /\ IndexerRuns \in BOOLEAN

VARIABLES
    (* the chain *)
    safeNonce,    \* nonce of the Safe
    executed,     \* proposals whose call took effect
    sentFor,      \* proposal a transaction carries
    outcome,      \* what became of a transaction
    (* the database *)
    status,       \* SafeProposal.status
    nonceOf,      \* SafeProposal.safeNonce
    sigs,         \* SafeSignature rows
    row,          \* status of the BlockchainTransaction row of a transaction
    (* requests being served *)
    signing,      \* signProposal, one request a member
    cancelling,   \* cancelProposal: proposals read, not yet updated
    (* jobs *)
    queue,        \* jobs that wait: how many, by proposal and attempts made
    worker,       \* the job being processed (concurrency 1)
    exhausted,    \* proposals whose 'failed' event is not handled yet
    reconciler,   \* the sweep of the reconciliation worker
    indexed,      \* transactions whose event the indexer handled
    (* the environment *)
    crashes, losses

chainVars == <<safeNonce, executed, sentFor, outcome>>
dbVars == <<status, nonceOf, sigs, row>>
requestVars == <<signing, cancelling>>
jobVars == <<queue, worker, exhausted>>
environmentVars == <<crashes, losses>>

vars == <<chainVars, dbVars, requestVars, jobVars, reconciler, indexed, environmentVars>>

-----------------------------------------------------------------------------
(* Data                                                                     *)

Sends == 1 .. MaxSends

Attempts == 0 .. MaxAttempts - 1

ProposalStatus ==
    {"absent", "PENDING", "THRESHOLD_MET", "EXECUTED", "EXECUTION_FAILED", "CANCELLED"}

RowStatus == {"absent", "PENDING", "MINED", "FAILED"}

(* "failed": mined and reported by ExecutionFailure; "reverted": receipt     *)
(* status 0.                                                                *)
Outcome == {"unsent", "pending", "ok", "failed", "reverted"}

SignRequest == [pc : {"idle", "checked", "counted", "marked"},
                prop : Proposals \cup {NoProposal}, seen : 0 .. Cardinality(Members)]

NoRequest == [pc |-> "idle", prop |-> NoProposal, seen |-> 0]

Job == [pc : {"idle", "loaded", "sent", "recorded"}, prop : Proposals \cup {NoProposal},
        attempt : Attempts, hash : Sends \cup {0}]

NoJob == [pc |-> "idle", prop |-> NoProposal, attempt |-> 0, hash |-> 0]

Sweep == [pc : {"idle", "picked", "rolling"}, hash : Sends \cup {0}]

NoSweep == [pc |-> "idle", hash |-> 0]

TypeOK ==
    /\ safeNonce \in Nat
    /\ executed \subseteq Proposals
    /\ sentFor \in [Sends -> Proposals \cup {NoProposal}]
    /\ outcome \in [Sends -> Outcome]
    /\ status \in [Proposals -> ProposalStatus]
    /\ nonceOf \in [Proposals -> Nat]
    /\ sigs \in [Proposals -> SUBSET Members]
    /\ row \in [Sends -> RowStatus]
    /\ signing \in [Members -> SignRequest]
    /\ cancelling \subseteq Proposals
    /\ queue \in [Proposals -> [Attempts -> 0 .. MaxQueued]]
    /\ worker \in Job
    /\ exhausted \subseteq Proposals
    /\ reconciler \in Sweep
    /\ indexed \subseteq Sends
    /\ crashes \in 0 .. MaxCrashes /\ losses \in 0 .. MaxLosses

Init ==
    /\ safeNonce = 0
    /\ executed = {}
    /\ sentFor = [h \in Sends |-> NoProposal]
    /\ outcome = [h \in Sends |-> "unsent"]
    /\ status = [p \in Proposals |-> "absent"]
    /\ nonceOf = [p \in Proposals |-> 0]
    /\ sigs = [p \in Proposals |-> {}]
    /\ row = [h \in Sends |-> "absent"]
    /\ signing = [m \in Members |-> NoRequest]
    /\ cancelling = {}
    /\ queue = [p \in Proposals |-> [a \in Attempts |-> 0]]
    /\ worker = NoJob
    /\ exhausted = {}
    /\ reconciler = NoSweep
    /\ indexed = {}
    /\ crashes = 0 /\ losses = 0

(* Enough signatures are stored for the Safe to accept the proposal.        *)
Quorum(p) == Cardinality(sigs[p]) >= Threshold

(* safeExecutionQueue.add, and BullMQ putting a job back.                   *)
Enqueued(p, a) == [queue EXCEPT ![p][a] = IF @ < MaxQueued THEN @ + 1 ELSE @]

(* safeProposalId is unique: a proposal has at most one row.                *)
HasRow(p) == \E h \in Sends : sentFor[h] = p /\ row[h] # "absent"

(* Fault: the status of the receipt is not read.                            *)
ReceiptMined(h) == outcome[h] \in {"ok", "failed", "reverted"}

(* The receipt of a mined transaction has status 1.                         *)
ReceiptOk(h) == outcome[h] \in {"ok", "failed"}

(* Fault: the proposal is left out of the database transaction.             *)
RecordRowOnly(p, h) == row' = [row EXCEPT ![h] = "MINED"] /\ UNCHANGED status

(* The database transaction that sets a proposal EXECUTED and its row MINED. *)
RecordExecuted(p, h) ==
    /\ status' = [status EXCEPT ![p] = "EXECUTED"]
    /\ row' = [row EXCEPT ![h] = "MINED"]

SetFailed(p) == status' = [status EXCEPT ![p] = "EXECUTION_FAILED"]

-----------------------------------------------------------------------------
(* Requests of government members                                           *)

(* createProposal reads the nonce of the Safe, then stores the proposal:    *)
(* the nonce it stores is one the Safe had at some earlier moment.          *)
Propose(p) ==
    /\ status[p] = "absent"
    /\ \E n \in 0 .. safeNonce : nonceOf' = [nonceOf EXCEPT ![p] = n]
    /\ status' = [status EXCEPT ![p] = "PENDING"]
    /\ UNCHANGED <<chainVars, sigs, row, requestVars, jobVars, reconciler, indexed, environmentVars>>

(* signProposal reads the proposal and its signatures and checks them.      *)
SignRead(m, p) ==
    /\ signing[m] = NoRequest
    /\ status[p] = "PENDING"
    /\ m \notin sigs[p]
    /\ signing' = [signing EXCEPT ![m] =
                     [pc |-> "checked", prop |-> p, seen |-> Cardinality(sigs[p])]]
    /\ UNCHANGED <<chainVars, dbVars, cancelling, jobVars, reconciler, indexed, environmentVars>>

(* Fault: its own signature is counted twice.                               *)
CountsItselfTwice(seen) == seen + 2 >= Threshold

(* signProposal counts the signatures it read and its own.                  *)
ReachesThreshold(seen) == seen + 1 >= Threshold

(* It stores the signature and goes on when the count reaches the threshold. *)
SignStore(m) ==
    LET p == signing[m].prop IN
    /\ signing[m].pc = "checked"
    /\ sigs' = [sigs EXCEPT ![p] = @ \cup {m}]
    /\ signing' = [signing EXCEPT ![m] =
                     IF ReachesThreshold(@.seen)
                     THEN [pc |-> "counted", prop |-> p, seen |-> @.seen]
                     ELSE NoRequest]
    /\ UNCHANGED <<chainVars, status, nonceOf, row, cancelling, jobVars, reconciler, indexed,
                   environmentVars>>

(* The update is not conditional: the status may no longer be PENDING.      *)
SignMark(m) ==
    /\ signing[m].pc = "counted"
    /\ status' = [status EXCEPT ![signing[m].prop] = "THRESHOLD_MET"]
    /\ signing' = [signing EXCEPT ![m] =
                     [pc |-> "marked", prop |-> @.prop, seen |-> @.seen]]
    /\ UNCHANGED <<chainVars, nonceOf, sigs, row, cancelling, jobVars, reconciler, indexed,
                   environmentVars>>

SignEnqueue(m) ==
    /\ signing[m].pc = "marked"
    /\ queue' = Enqueued(signing[m].prop, 0)
    /\ signing' = [signing EXCEPT ![m] = NoRequest]
    /\ UNCHANGED <<chainVars, dbVars, cancelling, worker, exhausted, reconciler, indexed,
                   environmentVars>>

(* cancelProposal reads the proposal, and refuses only EXECUTED ...         *)
CancelRead(p) ==
    /\ status[p] \notin {"absent", "EXECUTED"}
    /\ cancelling' = cancelling \cup {p}
    /\ UNCHANGED <<chainVars, dbVars, signing, jobVars, reconciler, indexed, environmentVars>>

(* ... then updates it whatever it became.                                  *)
CancelWrite(p) ==
    /\ p \in cancelling
    /\ status' = [status EXCEPT ![p] = "CANCELLED"]
    /\ cancelling' = cancelling \ {p}
    /\ UNCHANGED <<chainVars, nonceOf, sigs, row, signing, jobVars, reconciler, indexed,
                   environmentVars>>

(* executeProposalFallback puts a job in the queue. It only adds a job, and *)
(* a job waits any time, so reading and adding are one step.                *)
Fallback(p) ==
    /\ status[p] \in {"EXECUTION_FAILED", "THRESHOLD_MET"}
    /\ queue' = Enqueued(p, 0)
    /\ UNCHANGED <<chainVars, dbVars, requestVars, worker, exhausted, reconciler, indexed,
                   environmentVars>>

-----------------------------------------------------------------------------
(* The worker of the safe-execution queue                                   *)

(* Fault: a job is handed out though it was taken.                          *)
TakenAgain(p, a) == worker = NoJob

(* A job waits and the worker is free.                                      *)
Waiting(p, a) == worker = NoJob /\ queue[p][a] > 0

Dequeued(p, a) == [queue EXCEPT ![p][a] = @ - 1]

(* A job of a proposal that is EXECUTED has nothing to do.                  *)
WorkerSkip(p, a) ==
    /\ Waiting(p, a)
    /\ status[p] = "EXECUTED"
    /\ queue' = Dequeued(p, a)
    /\ UNCHANGED <<chainVars, dbVars, requestVars, worker, exhausted, reconciler, indexed,
                   environmentVars>>

(* executeSafeTxInternal goes on whatever else the status is.               *)
WorkerLoad(p, a) ==
    /\ Waiting(p, a)
    /\ status[p] # "EXECUTED"
    /\ queue' = Dequeued(p, a)
    /\ worker' = [pc |-> "loaded", prop |-> p, attempt |-> a, hash |-> 0]
    /\ UNCHANGED <<chainVars, dbVars, requestVars, exhausted, reconciler, indexed, environmentVars>>

(* The job throws: BullMQ retries it, or emits 'failed' for the last time.  *)
AttemptFails ==
    /\ worker' = NoJob
    /\ IF worker.attempt + 1 < MaxAttempts
       THEN queue' = Enqueued(worker.prop, worker.attempt + 1) /\ UNCHANGED exhausted
       ELSE exhausted' = exhausted \cup {worker.prop} /\ UNCHANGED queue

(* Transactions are numbered in the order they are sent.                    *)
NextSend(h) == outcome[h] = "unsent" /\ \A g \in 1 .. h - 1 : outcome[g] # "unsent"

(* executeTransaction estimates gas first, which fails unless the Safe      *)
(* would accept the nonce and the signatures.                               *)
MaySend(p) == nonceOf[p] = safeNonce /\ Quorum(p)

Sent(h, p) ==
    /\ outcome' = [outcome EXCEPT ![h] = "pending"]
    /\ sentFor' = [sentFor EXCEPT ![h] = p]
    /\ UNCHANGED <<safeNonce, executed>>

(* executeTransaction returns the hash.                                     *)
WorkerSend(h) ==
    /\ worker.pc = "loaded"
    /\ MaySend(worker.prop) /\ NextSend(h)
    /\ Sent(h, worker.prop)
    /\ worker' = [pc |-> "sent", prop |-> worker.prop, attempt |-> worker.attempt, hash |-> h]
    /\ UNCHANGED <<dbVars, requestVars, queue, exhausted, reconciler, indexed, environmentVars>>

(* executeTransaction throws although the node took the transaction.        *)
WorkerSendUnseen(h) ==
    /\ worker.pc = "loaded"
    /\ MaySend(worker.prop) /\ NextSend(h)
    /\ Sent(h, worker.prop)
    /\ AttemptFails
    /\ UNCHANGED <<dbVars, requestVars, reconciler, indexed, environmentVars>>

(* executeTransaction throws: the node refused, or did not answer.          *)
WorkerSendFails ==
    /\ worker.pc = "loaded"
    /\ AttemptFails
    /\ UNCHANGED <<chainVars, dbVars, requestVars, reconciler, indexed, environmentVars>>

(* Layer 1: the row is stored, unless the proposal or the hash has one; the *)
(* violation of the constraint is swallowed.                                *)
WorkerRecord ==
    /\ worker.pc = "sent"
    /\ row' = [row EXCEPT ![worker.hash] = IF HasRow(worker.prop) THEN @ ELSE "PENDING"]
    /\ worker' = [pc |-> "recorded", prop |-> worker.prop, attempt |-> worker.attempt,
                  hash |-> worker.hash]
    /\ UNCHANGED <<chainVars, status, nonceOf, sigs, requestVars, queue, exhausted, reconciler,
                   indexed, environmentVars>>

(* Layer 2: the receipt is there; the two updates are one transaction, which *)
(* fails as a whole when the hash has no row.                               *)
WorkerConfirm ==
    /\ worker.pc = "recorded"
    /\ ReceiptOk(worker.hash)
    /\ IF row[worker.hash] # "absent"
       THEN RecordExecuted(worker.prop, worker.hash) /\ worker' = NoJob /\ UNCHANGED <<queue, exhausted>>
       ELSE AttemptFails /\ UNCHANGED <<status, row>>
    /\ UNCHANGED <<chainVars, nonceOf, sigs, requestVars, reconciler, indexed, environmentVars>>

(* The transaction reverted: its row, if any, is set FAILED.                *)
WorkerReverted ==
    /\ worker.pc = "recorded"
    /\ outcome[worker.hash] = "reverted"
    /\ row' = [row EXCEPT ![worker.hash] = IF @ = "absent" THEN @ ELSE "FAILED"]
    /\ AttemptFails
    /\ UNCHANGED <<chainVars, status, nonceOf, sigs, requestVars, reconciler, indexed,
                   environmentVars>>

(* wait() throws: the connection was lost, or ethers reports the revert.    *)
WorkerWaitFails ==
    /\ worker.pc = "recorded"
    /\ AttemptFails
    /\ UNCHANGED <<chainVars, dbVars, requestVars, reconciler, indexed, environmentVars>>

(* The listener of 'failed', after the last attempt.                        *)
MarkProposalAsFailed(p) ==
    /\ p \in exhausted
    /\ SetFailed(p)
    /\ exhausted' = exhausted \ {p}
    /\ UNCHANGED <<chainVars, nonceOf, sigs, row, requestVars, queue, worker, reconciler, indexed,
                   environmentVars>>

-----------------------------------------------------------------------------
(* The chain (external)                                                     *)

(* The Safe checks nonce and signatures, uses the nonce and makes the call. *)
MineOk(h) ==
    /\ outcome[h] = "pending"
    /\ nonceOf[sentFor[h]] = safeNonce
    /\ outcome' = [outcome EXCEPT ![h] = "ok"]
    /\ safeNonce' = safeNonce + 1
    /\ executed' = executed \cup {sentFor[h]}
    /\ UNCHANGED <<sentFor, dbVars, requestVars, jobVars, reconciler, indexed, environmentVars>>

(* A Safe that reports failure uses the nonce though the call reverted.     *)
MineFailed(h) ==
    /\ SafeReportsFailure
    /\ outcome[h] = "pending"
    /\ nonceOf[sentFor[h]] = safeNonce
    /\ outcome' = [outcome EXCEPT ![h] = "failed"]
    /\ safeNonce' = safeNonce + 1
    /\ UNCHANGED <<executed, sentFor, dbVars, requestVars, jobVars, reconciler, indexed,
                   environmentVars>>

(* The nonce was used meanwhile, or the call reverts and the Safe with it.  *)
MineReverted(h) ==
    /\ outcome[h] = "pending"
    /\ nonceOf[sentFor[h]] # safeNonce \/ ~SafeReportsFailure
    /\ outcome' = [outcome EXCEPT ![h] = "reverted"]
    /\ UNCHANGED <<safeNonce, executed, sentFor, dbVars, requestVars, jobVars, reconciler, indexed,
                   environmentVars>>

-----------------------------------------------------------------------------
(* The sweep of the reconciliation worker, one at a time. The age it asks   *)
(* of rows and proposals is left out: the steps may come any time.          *)

(* A PENDING row is read; it is handled after the receipt is fetched.       *)
SweepPick(h) ==
    /\ reconciler = NoSweep
    /\ row[h] = "PENDING"
    /\ reconciler' = [pc |-> "picked", hash |-> h]
    /\ UNCHANGED <<chainVars, dbVars, requestVars, jobVars, indexed, environmentVars>>

(* There is no receipt yet: the row waits for the next sweep.               *)
SweepSkip ==
    /\ reconciler.pc = "picked"
    /\ outcome[reconciler.hash] = "pending"
    /\ reconciler' = NoSweep
    /\ UNCHANGED <<chainVars, dbVars, requestVars, jobVars, indexed, environmentVars>>

(* The transaction succeeded: one database transaction records it.          *)
SweepConfirm ==
    /\ reconciler.pc = "picked"
    /\ ReceiptOk(reconciler.hash)
    /\ RecordExecuted(sentFor[reconciler.hash], reconciler.hash)
    /\ reconciler' = NoSweep
    /\ UNCHANGED <<chainVars, nonceOf, sigs, requestVars, jobVars, indexed, environmentVars>>

(* The transaction reverted: the row is updated first ...                   *)
SweepRevert ==
    /\ reconciler.pc = "picked"
    /\ outcome[reconciler.hash] = "reverted"
    /\ row' = [row EXCEPT ![reconciler.hash] = "FAILED"]
    /\ reconciler' = [pc |-> "rolling", hash |-> reconciler.hash]
    /\ UNCHANGED <<chainVars, status, nonceOf, sigs, requestVars, jobVars, indexed, environmentVars>>

(* ... then the proposal, by handleRevertedRollback.                        *)
SweepRollBack ==
    /\ reconciler.pc = "rolling"
    /\ SetFailed(sentFor[reconciler.hash])
    /\ reconciler' = NoSweep
    /\ UNCHANGED <<chainVars, nonceOf, sigs, row, requestVars, jobVars, indexed, environmentVars>>

(* Fault: the sweep looks for proposals that failed.                        *)
StuckIfFailed(p) == status[p] = "EXECUTION_FAILED" /\ ~HasRow(p)

(* A proposal whose job was lost: the threshold is met and there is no row.  *)
Stuck(p) == status[p] = "THRESHOLD_MET" /\ ~HasRow(p)

SweepRequeue(p) ==
    /\ reconciler = NoSweep
    /\ Stuck(p)
    /\ queue' = Enqueued(p, 0)
    /\ UNCHANGED <<chainVars, dbVars, requestVars, worker, exhausted, reconciler, indexed,
                   environmentVars>>

-----------------------------------------------------------------------------
(* The indexer's handlers of the Safe's events: one database transaction,   *)
(* which fails when the row it would create violates safeProposalId.        *)

Storable(h) == row[h] # "absent" \/ ~HasRow(sentFor[h])

IndexSuccess(h) ==
    /\ IndexerRuns
    /\ outcome[h] = "ok" /\ h \notin indexed
    /\ indexed' = indexed \cup {h}
    /\ IF Storable(h) THEN RecordExecuted(sentFor[h], h) ELSE UNCHANGED <<status, row>>
    /\ UNCHANGED <<chainVars, nonceOf, sigs, requestVars, jobVars, reconciler, environmentVars>>

(* The failure of a proposal that is EXECUTED already is ignored.           *)
IndexFailure(h) ==
    /\ IndexerRuns
    /\ outcome[h] = "failed" /\ h \notin indexed
    /\ indexed' = indexed \cup {h}
    /\ IF status[sentFor[h]] # "EXECUTED" /\ Storable(h)
       THEN SetFailed(sentFor[h]) /\ row' = [row EXCEPT ![h] = "FAILED"]
       ELSE UNCHANGED <<status, row>>
    /\ UNCHANGED <<chainVars, nonceOf, sigs, requestVars, jobVars, reconciler, environmentVars>>

-----------------------------------------------------------------------------
(* The environment                                                          *)

(* The backend stops and starts again: what it was doing is forgotten, and  *)
(* the queue hands the job it was processing out once more.                 *)
Crash ==
    /\ crashes < MaxCrashes
    /\ crashes' = crashes + 1
    /\ signing' = [m \in Members |-> NoRequest]
    /\ cancelling' = {} /\ exhausted' = {}
    /\ reconciler' = NoSweep
    /\ worker' = NoJob
    /\ queue' = IF worker = NoJob THEN queue ELSE Enqueued(worker.prop, worker.attempt)
    /\ UNCHANGED <<chainVars, dbVars, indexed, losses>>

(* Redis restarts without the job.                                          *)
LoseJob(p, a) ==
    /\ losses < MaxLosses /\ queue[p][a] > 0
    /\ losses' = losses + 1
    /\ queue' = Dequeued(p, a)
    /\ UNCHANGED <<chainVars, dbVars, requestVars, worker, exhausted, reconciler, indexed, crashes>>

-----------------------------------------------------------------------------
RequestStep ==
    \/ \E p \in Proposals : Propose(p) \/ CancelRead(p) \/ CancelWrite(p) \/ Fallback(p)
    \/ \E m \in Members :
         \/ \E p \in Proposals : SignRead(m, p)
         \/ SignStore(m) \/ SignMark(m) \/ SignEnqueue(m)

TakeStep(p, a) == WorkerSkip(p, a) \/ WorkerLoad(p, a)

SendStep == WorkerSendFails \/ \E h \in Sends : WorkerSend(h) \/ WorkerSendUnseen(h)

WaitStep == WorkerConfirm \/ WorkerReverted \/ WorkerWaitFails

WorkerStep ==
    \/ \E p \in Proposals, a \in Attempts : TakeStep(p, a)
    \/ SendStep \/ WorkerRecord \/ WaitStep
    \/ \E p \in Proposals : MarkProposalAsFailed(p)

MineStep(h) == MineOk(h) \/ MineFailed(h) \/ MineReverted(h)

SweepReadStep == SweepSkip \/ SweepConfirm \/ SweepRevert

SweepStep ==
    \/ \E h \in Sends : SweepPick(h)
    \/ SweepReadStep \/ SweepRollBack
    \/ \E p \in Proposals : SweepRequeue(p)

IndexStep(h) == IndexSuccess(h) \/ IndexFailure(h)

Next ==
    \/ RequestStep
    \/ WorkerStep
    \/ \E h \in Sends : MineStep(h) \/ IndexStep(h)
    \/ SweepStep
    \/ Crash
    \/ \E p \in Proposals, a \in Attempts : LoseJob(p, a)

Spec == Init /\ [][Next]_vars

(* What goes on by itself: a request being served, the worker and the       *)
(* listener, blocks, and the sweep every five minutes, which reads every    *)
(* row and every stuck proposal (strong fairness: the sweep is busy between *)
(* two of them). The queue is served in order, so no job waits for ever.    *)
(* Nobody has to propose, sign, cancel or execute by hand.                  *)
Fairness ==
    /\ \A m \in Members :
         WF_vars(SignStore(m)) /\ WF_vars(SignMark(m)) /\ WF_vars(SignEnqueue(m))
    /\ \A p \in Proposals :
         /\ WF_vars(CancelWrite(p)) /\ WF_vars(MarkProposalAsFailed(p))
         /\ SF_vars(SweepRequeue(p))
         /\ \A a \in Attempts : SF_vars(TakeStep(p, a))
    /\ WF_vars(SendStep) /\ WF_vars(WorkerRecord) /\ WF_vars(WaitStep)
    /\ \A h \in Sends : WF_vars(MineStep(h)) /\ WF_vars(IndexStep(h)) /\ SF_vars(SweepPick(h))
    /\ WF_vars(SweepReadStep) /\ WF_vars(SweepRollBack)

FairSpec == Spec /\ Fairness

-----------------------------------------------------------------------------
(* Properties                                                               *)

(* A proposal reaches the queue, the worker or the verdict of the chain     *)
(* only with enough stored signatures, whatever the order of concurrent     *)
(* requests: signProposal counts what it read before it stored its own.     *)
QuorumQueued ==
    \A p \in Proposals :
        \/ status[p] \in {"THRESHOLD_MET", "EXECUTED", "EXECUTION_FAILED"}
        \/ \E a \in Attempts : queue[p][a] > 0
        \/ worker.prop = p \/ p \in exhausted
        => Quorum(p)

(* The database never claims more than the chain did: a proposal that is    *)
(* EXECUTED took effect, a row that is MINED is of a transaction that       *)
(* succeeded, and a FAILED one of a transaction that did not.               *)
RecordsMatchChain ==
    /\ \A p \in Proposals : status[p] = "EXECUTED" => p \in executed
    /\ \A h \in Sends :
         /\ row[h] = "MINED" => outcome[h] = "ok" /\ sentFor[h] \in executed
         /\ row[h] = "FAILED" => outcome[h] \in {"failed", "reverted"}

(* The strengthening that makes the two inductive: what is known of a       *)
(* transaction sent, of a request and of the jobs in hand.                  *)
SendsSound ==
    \A h \in Sends :
        /\ outcome[h] # "unsent" => sentFor[h] \in Proposals /\ Quorum(sentFor[h])
        /\ outcome[h] = "ok" => sentFor[h] \in executed
        /\ outcome[h] = "failed" => SafeReportsFailure
        /\ row[h] # "absent" => outcome[h] # "unsent"

(* The request of a member is the only one that adds the member's signature. *)
RequestsSound ==
    \A m \in Members :
        /\ signing[m].pc # "idle" => signing[m].prop \in Proposals
        /\ signing[m].pc = "checked" =>
              m \notin sigs[signing[m].prop]
              /\ signing[m].seen <= Cardinality(sigs[signing[m].prop])
        /\ signing[m].pc \in {"counted", "marked"} => Quorum(signing[m].prop)

JobsSound ==
    /\ worker.pc # "idle" => worker.prop \in Proposals
    /\ worker.pc = "idle" => worker = NoJob
    /\ worker.pc \in {"sent", "recorded"} =>
          /\ worker.hash \in Sends
          /\ outcome[worker.hash] # "unsent" /\ sentFor[worker.hash] = worker.prop
    /\ reconciler.pc # "idle" => reconciler.hash \in Sends /\ row[reconciler.hash] # "absent"

GovernanceInv ==
    /\ TypeOK /\ QuorumQueued /\ SendsSound /\ RequestsSound /\ JobsSound
    /\ SafeReportsFailure \/ RecordsMatchChain

(* Layer 1 of executeSafeTxInternal: a transaction whose hash was stored    *)
(* before the wait leads to an EXECUTED proposal once it is mined, though   *)
(* the process crashes or the connection breaks in between.                 *)
StoredHashIsRecorded ==
    \A h \in Sends, p \in Proposals :
        (row[h] = "PENDING" /\ sentFor[h] = p /\ outcome[h] = "ok") ~> (status[p] = "EXECUTED")

(* FIX 3 of the sweep: a proposal whose threshold is met and that was never *)
(* sent does not stay so, though its job is lost or its request crashes.    *)
StuckIsRequeued ==
    \A p \in Proposals :
        (status[p] = "THRESHOLD_MET" /\ ~HasRow(p)) ~> (status[p] # "THRESHOLD_MET" \/ HasRow(p))

(* Proposals made before the next execution share its nonce: at most one of *)
(* them is ever recorded as executed, whatever the attempts of both did.  *)
OneExecutedPerNonce ==
    \A p, q \in Proposals :
        status[p] = "EXECUTED" /\ status[q] = "EXECUTED" /\ p # q => nonceOf[p] # nonceOf[q]

(* Its strengthening: who is signed for, or being signed for, exists and     *)
(* keeps its nonce; a nonce the Safe accepted is behind it, and it accepts  *)
(* none twice; EXECUTED stands for a transaction the Safe accepted.         *)
NoncesSound ==
    /\ \A p \in Proposals : sigs[p] # {} => status[p] # "absent"
    /\ \A m \in Members : signing[m].pc # "idle" => status[signing[m].prop] # "absent"
    /\ \A g, h \in Sends :
         ReceiptOk(g) /\ ReceiptOk(h) /\ sentFor[g] # sentFor[h] =>
            nonceOf[sentFor[g]] # nonceOf[sentFor[h]]
    /\ \A h \in Sends : ReceiptOk(h) => nonceOf[sentFor[h]] < safeNonce
    /\ \A p \in Proposals :
         status[p] = "EXECUTED" => \E h \in Sends : sentFor[h] = p /\ ReceiptOk(h)

(* REFINEMENT: governance implements a council. Requests that sign at once,  *)
(* transactions sent twice, and three recorders that write one proposal at  *)
(* any moment of each other never let one pass without its signatures, out  *)
(* of its turn or twice, nor show one executed that did not pass.           *)
Passed == {p \in Proposals : \E h \in Sends : sentFor[h] = p /\ outcome[h] \in {"ok", "failed"}}

Assembly == INSTANCE Council WITH
    turnOf <- nonceOf,
    signed <- sigs,
    turn   <- safeNonce,
    passed <- Passed,
    Quorums <- {S \in SUBSET Members : Cardinality(S) >= Threshold},
    shown  <- {p \in Proposals : status[p] = "EXECUTED"}

ImplementsCouncil == Assembly!CouncilSpec

(* schema.prisma: "When signatures.length >= threshold -> THRESHOLD_MET".   *)
QuorumIsNoticed ==
    \A p \in Proposals :
        Quorum(p) ~> (status[p] \notin {"absent", "PENDING"})

(* admin.service.ts, the three layers: what took effect is recorded as      *)
(* EXECUTED at some time, by the worker, the sweep or the indexer.          *)
ExecutedIsRecorded ==
    \A p \in Proposals : <>(p \in executed) => <>(status[p] = "EXECUTED")
=============================================================================
