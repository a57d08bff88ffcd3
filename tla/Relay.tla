--------------------------------- MODULE Relay ---------------------------------
(***************************************************************************)
(* What every operation of the backend on a contract goes through: the     *)
(* service checks its database, submits one transaction and stores a row   *)
(* PENDING with the hash; the transaction is mined or reverts; the indexer *)
(* handles its event; the reconciliation sweep replays or rolls back what  *)
(* the indexer left PENDING.                                               *)
(*                                                                         *)
(* A module of one kind of record (ChallanMirror, LoanMirror ...) EXTENDS  *)
(* this one and says what each of these steps does to its own rows.        *)
(***************************************************************************)
EXTENDS Integers, FiniteSets

CONSTANTS
    MaxTxs,      \* bound: transactions submitted
    MaxCrashes,  \* bound: crashes of the backend process
    MaxLosses    \* bound: events the indexer never handles

ASSUME RelayAssumption == MaxTxs \in Nat /\ MaxCrashes \in Nat /\ MaxLosses \in Nat

VARIABLES
    tx,       \* the transactions, in the order they were submitted
    sweep,    \* the transaction the sweep is rolling back, or 0
    crashes, losses

relayVars == <<tx, sweep, crashes, losses>>

Txs == 1 .. MaxTxs

(* op     the contract function                                            *)
(* id     the on-chain id it names, or creates when it is mined            *)
(* by     the account or entity it is about, where there is one            *)
(* link   the domain row the stored transaction row points to, or 0        *)
(* call   "sent": the service has the hash and has not stored it           *)
(* row    BlockchainTransaction.status                                     *)
(* event  "read": the handler has read the database; "applied": it has     *)
(*        written the mirror and not yet the transaction row               *)
(* seen   the link the handler read                                        *)
NoTx == [op |-> "none", id |-> 0, by |-> 0, link |-> 0, chain |-> "unsent", call |-> "idle",
         row |-> "absent", event |-> "none", seen |-> 0]

RelayInit ==
    /\ tx = [t \in Txs |-> NoTx]
    /\ sweep = 0 /\ crashes = 0 /\ losses = 0

-----------------------------------------------------------------------------
(* Submission                                                               *)

NextTx(t) == tx[t] = NoTx /\ \A s \in 1 .. t - 1 : tx[s] # NoTx

Submitted(t, op, id, by, link, call) ==
    tx' = [tx EXCEPT ![t] = [op |-> op, id |-> id, by |-> by, link |-> link, chain |-> "pool",
                             call |-> call, row |-> "absent", event |-> "none", seen |-> 0]]

(* submitEntityTx returns the hash; it throws, and the request ends, when   *)
(* the entity is inactive or unmined or when estimating gas says the call   *)
(* would revert.                                                            *)
SubmitEntityTx(t, op, id, by, link) ==
    NextTx(t) /\ Submitted(t, op, id, by, link, "sent") /\ UNCHANGED <<sweep, crashes, losses>>

(* The request goes on to its repository.                                   *)
Storing(t, op) == tx[t].call = "sent" /\ tx[t].op = op

(* The row is created in one database transaction with the domain rows;     *)
(* txHash is unique, so it fails if the indexer has created one.            *)
StoreTx(t, link) ==
    /\ tx[t].row = "absent"
    /\ tx' = [tx EXCEPT ![t].call = "idle", ![t].row = "PENDING", ![t].link = link]
    /\ UNCHANGED <<sweep, crashes, losses>>

StoreRefused(t) ==
    /\ tx[t].call = "sent" /\ tx[t].row # "absent"
    /\ tx' = [tx EXCEPT ![t].call = "idle"]
    /\ UNCHANGED <<sweep, crashes, losses>>

(* A domain row goes with the transaction rows that point to it; a request  *)
(* that has not stored its own is refused.                                  *)
Cascaded(gone) ==
    [s \in Txs |-> IF tx[s].link # 0 /\ tx[s].link \in gone
                   THEN [tx[s] EXCEPT !.row = "absent", !.link = 0, !.call = "idle"]
                   ELSE tx[s]]

-----------------------------------------------------------------------------
(* The chain (external)                                                     *)

InPool(t, op) == tx[t].chain = "pool" /\ tx[t].op = op

Mined(t, id) ==
    /\ tx' = [tx EXCEPT ![t].chain = "mined", ![t].event = "ready", ![t].id = id]
    /\ UNCHANGED <<sweep, crashes, losses>>

(* The contract refuses the call, though the estimate passed, if only for   *)
(* the entity was deactivated meanwhile.                                    *)
TxReverts(t) ==
    /\ tx[t].chain = "pool"
    /\ tx' = [tx EXCEPT ![t].chain = "reverted"]
    /\ UNCHANGED <<sweep, crashes, losses>>

-----------------------------------------------------------------------------
(* The indexer. Handlers are asynchronous: events are taken in any order.   *)

Arrived(t, op) == tx[t].event = "ready" /\ tx[t].op = op

SeenBy(t) == tx[t].event = "read"

ReadBy(t) ==
    /\ tx' = [tx EXCEPT ![t].event = "read", ![t].seen = tx[t].link]
    /\ UNCHANGED <<sweep, crashes, losses>>

AppliedBy(t) ==
    /\ tx' = [tx EXCEPT ![t].event = "applied"]
    /\ UNCHANGED <<sweep, crashes, losses>>

(* Its error is logged, and the cursor moves on.                            *)
Swallowed(t) ==
    /\ tx' = [tx EXCEPT ![t].event = "lost"]
    /\ UNCHANGED <<sweep, crashes, losses>>

(* finalizeTx: the row is created MINED, with no link, or updated.          *)
FinalizeTx(t) ==
    /\ tx[t].event = "applied"
    /\ tx' = [tx EXCEPT ![t].event = "handled", ![t].row = "MINED",
                        ![t].link = IF tx[t].row = "absent" THEN 0 ELSE @]
    /\ UNCHANGED <<sweep, crashes, losses>>

(* A handler swallowed an error, or the event fell in a gap of the stream.  *)
LoseEvent(t) ==
    /\ losses < MaxLosses /\ tx[t].event \in {"ready", "read", "applied"}
    /\ tx' = [tx EXCEPT ![t].event = "lost"]
    /\ losses' = losses + 1
    /\ UNCHANGED <<sweep, crashes>>

-----------------------------------------------------------------------------
(* The reconciliation sweep, one at a time. The age it asks of a row is     *)
(* left out: its steps may come any time.                                   *)

Sweepable(t) == sweep = 0 /\ tx[t].row = "PENDING"

(* The receipt has status 0: the row is updated first ...                   *)
FoundReverted(t) == Sweepable(t) /\ tx[t].chain = "reverted"

SweepReverted(t) ==
    /\ FoundReverted(t)
    /\ tx' = [tx EXCEPT ![t].row = "FAILED"]
    /\ sweep' = t
    /\ UNCHANGED <<crashes, losses>>

(* ... then handleRevertedRollback undoes the effect of the operation.      *)
RollingBack(t, op) == sweep = t /\ tx[t].op = op

RolledBack == sweep' = 0 /\ UNCHANGED <<tx, crashes, losses>>

(* Fault: a transaction without a receipt counts as mined.                  *)
UnminedIsMined(t, op) == Sweepable(t) /\ tx[t].chain # "reverted" /\ tx[t].op = op

(* Status 1: one database transaction sets the row MINED and repeats the    *)
(* writes the handler would have made.                                      *)
FoundMined(t, op) == Sweepable(t) /\ tx[t].chain = "mined" /\ tx[t].op = op

Replayed(t) ==
    /\ tx' = [tx EXCEPT ![t].row = "MINED"]
    /\ UNCHANGED <<sweep, crashes, losses>>

-----------------------------------------------------------------------------
(* The process stops and starts again: requests, handlers and the rollback  *)
(* in hand are forgotten. The cursor is advanced after the handler, so the  *)
(* events in hand, and some that were handled, are read again.              *)
Crash ==
    /\ crashes < MaxCrashes
    /\ crashes' = crashes + 1
    /\ sweep' = 0
    /\ \E again \in SUBSET {t \in Txs : tx[t].event = "handled"} :
         tx' = [t \in Txs |->
                  [tx[t] EXCEPT !.call = "idle",
                                !.event = IF @ \in {"read", "applied"} \/ t \in again
                                          THEN "ready" ELSE @]]
    /\ UNCHANGED losses

(* The steps of a transaction that leave the domain rows alone              *)
RelayStep(t) == StoreRefused(t) \/ FinalizeTx(t) \/ LoseEvent(t) \/ SweepReverted(t)
=============================================================================
