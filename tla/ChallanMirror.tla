----------------------------- MODULE ChallanMirror -----------------------------
(***************************************************************************)
(* Fines in the database: police and government services, the payment      *)
(* gateway and its webhook, the indexer's handlers of ChallanContract and  *)
(* the sweep. Amounts, and who a fine is about, are left out.              *)
(***************************************************************************)
EXTENDS Relay

CONSTANTS
    MaxFines,   \* bound: challans issued on chain
    MaxRows,    \* bound: Challan rows created
    MaxOrders   \* bound: payment orders handed out

ASSUME FineAssumption == MaxFines \in Nat /\ MaxRows \in Nat /\ MaxOrders \in Nat

VARIABLES
    challan,    \* ChallanContract: what became of each challan
    fine,       \* Challan rows
    checkout,   \* payment orders, as the citizen and the gateway see them
    initiating  \* initiateChallanPayment: rows checked, order not stored yet

fineVars == <<relayVars, challan, fine, checkout, initiating>>

Fines == 1 .. MaxFines
FineRows == 1 .. MaxRows
Orders == 1 .. MaxOrders

NoFine == [status |-> "absent", cid |-> 0, order |-> 0, ref |-> 0]

FineInit ==
    /\ RelayInit
    /\ challan = [c \in Fines |-> "none"]
    /\ fine = [r \in FineRows |-> NoFine]
    /\ checkout = [o \in Orders |-> "none"]
    /\ initiating = {}

FineOps == {"issueChallan", "payChallan", "cancelChallan", "adminCancelChallan"}

FineTx == [op : FineOps \cup {"none"}, id : Fines \cup {0}, by : {0}, link : FineRows \cup {0},
           chain : {"unsent", "pool", "mined", "reverted"}, call : {"idle", "sent"},
           row : {"absent", "PENDING", "MINED", "FAILED"},
           event : {"none", "ready", "read", "applied", "handled", "lost"},
           seen : FineRows \cup {0}]

FineTypeOK ==
    /\ tx \in [Txs -> FineTx]
    /\ sweep \in Txs \cup {0} /\ crashes \in 0 .. MaxCrashes /\ losses \in 0 .. MaxLosses
    /\ challan \in [Fines -> {"none", "open", "paid", "cancelled"}]
    /\ fine \in [FineRows -> [status : {"absent", "deleted", "PENDING", "PAID", "CANCELLED"},
                              cid : Fines \cup {0}, order : Orders \cup {0}, ref : Orders \cup {0}]]
    /\ checkout \in [Orders -> {"none", "open", "collected", "checked"}]
    /\ initiating \subseteq FineRows

-----------------------------------------------------------------------------
(* Rows. challanId and paymentOrderId are unique.                           *)

NextRow(r) == fine[r] = NoFine /\ \A q \in 1 .. r - 1 : fine[q] # NoFine

RowOf(c) == {r \in FineRows : fine[r].cid = c}

Settleable(r) == fine[r].status = "PENDING" /\ fine[r].cid # 0

(* The handler, the replay and their like all write one status.             *)
SetStatus(r, status) == fine' = [fine EXCEPT ![r].status = status]

SetStatusOf(c, status) ==
    fine' = [r \in FineRows |-> IF fine[r].cid = c THEN [fine[r] EXCEPT !.status = status]
                                ELSE fine[r]]

(* ChallanIssued gives the row its on-chain id, whatever its status.        *)
Identified(r, c) == fine' = [fine EXCEPT ![r].status = "PENDING", ![r].cid = c]

-----------------------------------------------------------------------------
(* Services of police and government                                        *)

IssueChallan(t) ==
    /\ SubmitEntityTx(t, "issueChallan", 0, 0, 0)
    /\ UNCHANGED <<challan, fine, checkout, initiating>>

CreateChallanTx(t, r) ==
    /\ Storing(t, "issueChallan") /\ NextRow(r)
    /\ StoreTx(t, r)
    /\ fine' = [fine EXCEPT ![r].status = "PENDING"]
    /\ UNCHANGED <<challan, checkout, initiating>>

(* A gas estimate succeeds while the challan is unsettled on chain.         *)
Accepted(c) == challan[c] = "open"

PoliceChallan(t, r, op) ==
    /\ Settleable(r) /\ Accepted(fine[r].cid)
    /\ SubmitEntityTx(t, op, fine[r].cid, 0, r)
    /\ UNCHANGED <<challan, fine, checkout, initiating>>

PayChallan(t, r) == PoliceChallan(t, r, "payChallan")
CancelChallan(t, r) == PoliceChallan(t, r, "cancelChallan")

(* Fault: the fine is shown as settled at once.                             *)
CreateSettleEarly(t) ==
    /\ Storing(t, "payChallan") \/ Storing(t, "cancelChallan")
    /\ StoreTx(t, tx[t].link)
    /\ SetStatus(tx[t].link, IF tx[t].op = "payChallan" THEN "PAID" ELSE "CANCELLED")
    /\ UNCHANGED <<challan, checkout, initiating>>

(* Of officers and of the webhook                                           *)
CreateSettleTx(t) ==
    /\ Storing(t, "payChallan") \/ Storing(t, "cancelChallan")
    /\ StoreTx(t, tx[t].link)
    /\ UNCHANGED <<challan, fine, checkout, initiating>>

CreatePayChallanTx(t) == tx[t].op = "payChallan" /\ CreateSettleTx(t)
CreateCancelChallanTx(t) == tx[t].op = "cancelChallan" /\ CreateSettleTx(t)

(* adminCancelChallan makes a proposal; the Safe sends it some time later.  *)
AdminCancelChallan(t, r) ==
    /\ Settleable(r)
    /\ SubmitEntityTx(t, "adminCancelChallan", fine[r].cid, 0, 0)
    /\ UNCHANGED <<challan, fine, checkout, initiating>>

(* The worker of the Safe stores the hash, and may read the receipt first.  *)
StoreExecution(t) ==
    /\ Storing(t, "adminCancelChallan") /\ StoreTx(t, 0)
    /\ UNCHANGED <<challan, fine, checkout, initiating>>

ConfirmExecution(t) ==
    /\ FoundMined(t, "adminCancelChallan") /\ Replayed(t)
    /\ UNCHANGED <<challan, fine, checkout, initiating>>

-----------------------------------------------------------------------------
(* Payment                                                                  *)

(* initiateChallanPayment refuses a row that has an order ...               *)
InitiateRead(r) ==
    /\ Settleable(r) /\ fine[r].order = 0
    /\ initiating' = initiating \cup {r}
    /\ UNCHANGED <<relayVars, challan, fine, checkout>>

(* ... and stores a fresh one. The other of two requests that read at once  *)
(* may still do so: the row stays among those read.                         *)
SetPaymentOrderId(r, o) ==
    /\ r \in initiating
    /\ checkout[o] = "none" /\ \A p \in 1 .. o - 1 : checkout[p] # "none"
    /\ fine' = [fine EXCEPT ![r].order = o]
    /\ checkout' = [checkout EXCEPT ![o] = "open"]
    /\ \E rest \in {initiating, initiating \ {r}} : initiating' = rest
    /\ UNCHANGED <<relayVars, challan>>

(* The gateway (external) collects the money of an order it was handed.     *)
Collect(o) ==
    /\ checkout[o] = "open"
    /\ checkout' = [checkout EXCEPT ![o] = "collected"]
    /\ UNCHANGED <<relayVars, challan, fine, initiating>>

(* A webhook, which the gateway may repeat: the row of the order is found,  *)
(* neither PAID nor CANCELLED, and its reference is stored ...              *)
WebhookCheck(o, r) ==
    /\ checkout[o] = "collected"
    /\ fine[r].order = o /\ Settleable(r)
    /\ fine' = [fine EXCEPT ![r].ref = o]
    /\ checkout' = [checkout EXCEPT ![o] = "checked"]
    /\ UNCHANGED <<relayVars, challan, initiating>>

(* ... before payChallan is submitted, or refused by the gas estimate.      *)
WebhookSubmit(o, t, r) ==
    /\ checkout[o] = "checked" /\ fine[r].order = o
    /\ checkout' = [checkout EXCEPT ![o] = "collected"]
    /\ IF Accepted(fine[r].cid) THEN SubmitEntityTx(t, "payChallan", fine[r].cid, 0, r)
       ELSE t = 1 /\ UNCHANGED relayVars
    /\ UNCHANGED <<challan, fine, initiating>>

-----------------------------------------------------------------------------
(* The chain: ChallanContract as its callers, stations and Safe, see it     *)

MineIssue(t, c) ==
    /\ InPool(t, "issueChallan")
    /\ challan[c] = "none" /\ \A b \in 1 .. c - 1 : challan[b] # "none"
    /\ challan' = [challan EXCEPT ![c] = "open"]
    /\ Mined(t, c)
    /\ UNCHANGED <<fine, checkout, initiating>>

Verdict == [payChallan |-> "paid", cancelChallan |-> "cancelled", adminCancelChallan |-> "cancelled"]

MineSettle(t) ==
    /\ tx[t].chain = "pool" /\ tx[t].op \in DOMAIN Verdict /\ Accepted(tx[t].id)
    /\ challan' = [challan EXCEPT ![tx[t].id] = Verdict[tx[t].op]]
    /\ Mined(t, tx[t].id)
    /\ UNCHANGED <<fine, checkout, initiating>>

(* A settled challan refuses; so does any when the station is deactivated.  *)
FineReverts(t) ==
    /\ TxReverts(t)
    /\ UNCHANGED <<challan, fine, checkout, initiating>>

-----------------------------------------------------------------------------
(* The indexer                                                              *)

(* handleChallanIssued looks for the row the service created ...            *)
ChallanIssuedRead(t) ==
    /\ Arrived(t, "issueChallan") /\ ReadBy(t)
    /\ UNCHANGED <<challan, fine, checkout, initiating>>

(* ... and gives it its id, or upserts a row by the id.                     *)
ChallanIssuedWrite(t) ==
    LET c == tx[t].id IN
    /\ tx[t].op = "issueChallan" /\ SeenBy(t) /\ AppliedBy(t)
    /\ \/ tx[t].seen # 0 /\ RowOf(c) \subseteq {tx[t].seen} /\ Identified(tx[t].seen, c)
       \/ tx[t].seen = 0 /\ RowOf(c) # {} /\ SetStatusOf(c, "PENDING")
       \/ tx[t].seen = 0 /\ RowOf(c) = {} /\ \E r \in FineRows : NextRow(r) /\ Identified(r, c)
    /\ UNCHANGED <<challan, checkout, initiating>>

(* The row the service created cannot take an id another row has: the       *)
(* handler logs the error, and the cursor moves on.                         *)
ChallanIssuedFails(t) ==
    /\ tx[t].op = "issueChallan" /\ SeenBy(t) /\ Swallowed(t)
    /\ tx[t].seen # 0 /\ ~(RowOf(tx[t].id) \subseteq {tx[t].seen})
    /\ UNCHANGED <<challan, fine, checkout, initiating>>

HandleChallanPaid(t) ==
    /\ Arrived(t, "payChallan") /\ AppliedBy(t)
    /\ SetStatusOf(tx[t].id, "PAID")
    /\ UNCHANGED <<challan, checkout, initiating>>

HandleChallanCancelled(t) ==
    /\ Arrived(t, "cancelChallan") \/ Arrived(t, "adminCancelChallan")
    /\ AppliedBy(t)
    /\ SetStatusOf(tx[t].id, "CANCELLED")
    /\ UNCHANGED <<challan, checkout, initiating>>

-----------------------------------------------------------------------------
(* The sweep                                                                *)

(* The row of a transaction that finalizeTx created has no link and is      *)
(* MINED: only stored ones are replayed. A second row with the id makes the *)
(* database transaction fail.                                               *)
ReplayIssue(t) ==
    /\ FoundMined(t, "issueChallan") /\ Replayed(t)
    /\ RowOf(tx[t].id) \subseteq {tx[t].link}
    /\ Identified(tx[t].link, tx[t].id)
    /\ UNCHANGED <<challan, checkout, initiating>>

(* Fault: only the transaction's row is updated.                            *)
ReplayPayRowOnly(t) ==
    /\ FoundMined(t, "payChallan") /\ Replayed(t)
    /\ UNCHANGED <<challan, fine, checkout, initiating>>

ReplayPay(t) ==
    /\ FoundMined(t, "payChallan") /\ Replayed(t)
    /\ SetStatus(tx[t].link, "PAID")
    /\ UNCHANGED <<challan, checkout, initiating>>

ReplayCancel(t) ==
    /\ FoundMined(t, "cancelChallan") /\ Replayed(t)
    /\ SetStatus(tx[t].link, "CANCELLED")
    /\ UNCHANGED <<challan, checkout, initiating>>

ReplayAdminCancel(t) ==
    /\ FoundMined(t, "adminCancelChallan") /\ Replayed(t)
    /\ SetStatusOf(tx[t].id, "CANCELLED")
    /\ UNCHANGED <<challan, checkout, initiating>>

RollBackIssue(t) ==
    /\ RollingBack(t, "issueChallan")
    /\ sweep' = 0 /\ tx' = Cascaded({tx[t].link}) /\ UNCHANGED <<crashes, losses>>
    /\ fine' = [fine EXCEPT ![tx[t].link] = [NoFine EXCEPT !.status = "deleted"]]
    /\ UNCHANGED <<challan, checkout, initiating>>

(* Fault: the fine is made payable as if it had never been paid for.        *)
RollBackForgets(t) ==
    /\ RollingBack(t, "payChallan") \/ RollingBack(t, "cancelChallan")
    /\ RolledBack
    /\ fine' = [fine EXCEPT ![tx[t].link].status = "PENDING", ![tx[t].link].ref = 0]
    /\ UNCHANGED <<challan, checkout, initiating>>

(* The reference of a collected payment is kept, the status is not looked at. *)
RollBackSettle(t) ==
    /\ RollingBack(t, "payChallan") \/ RollingBack(t, "cancelChallan")
    /\ RolledBack
    /\ SetStatus(tx[t].link, "PENDING")
    /\ UNCHANGED <<challan, checkout, initiating>>

RollBackExecution(t) ==
    /\ RollingBack(t, "adminCancelChallan") /\ RolledBack
    /\ UNCHANGED <<challan, fine, checkout, initiating>>

-----------------------------------------------------------------------------
FineCrash ==
    /\ Crash
    /\ initiating' = {}
    /\ checkout' = [o \in Orders |-> IF checkout[o] = "checked" THEN "collected" ELSE checkout[o]]
    /\ UNCHANGED <<challan, fine>>

FineRequest(t) ==
    \/ IssueChallan(t)
    \/ \E r \in FineRows : PayChallan(t, r) \/ CancelChallan(t, r) \/ AdminCancelChallan(t, r)
    \/ \E r \in FineRows, o \in Orders : WebhookSubmit(o, t, r)

PaymentStep ==
    \E r \in FineRows :
        InitiateRead(r) \/ \E o \in Orders : SetPaymentOrderId(r, o) \/ Collect(o) \/ WebhookCheck(o, r)

FineStore(t) ==
    \/ CreatePayChallanTx(t) \/ CreateCancelChallanTx(t) \/ StoreExecution(t)
    \/ \E r \in FineRows : CreateChallanTx(t, r)

FineMine(t) == MineSettle(t) \/ FineReverts(t) \/ \E c \in Fines : MineIssue(t, c)

FineHandle(t) ==
    \/ ChallanIssuedRead(t) \/ ChallanIssuedWrite(t) \/ ChallanIssuedFails(t)
    \/ HandleChallanPaid(t) \/ HandleChallanCancelled(t)

FineReplay(t) ==
    \/ ReplayIssue(t) \/ ReplayPay(t) \/ ReplayCancel(t) \/ ReplayAdminCancel(t)
    \/ ConfirmExecution(t)

FineRollBack(t) == RollBackIssue(t) \/ RollBackSettle(t) \/ RollBackExecution(t)

FineNext ==
    \/ \E t \in Txs :
         \/ FineRequest(t) \/ FineStore(t) \/ FineMine(t)
         \/ FineHandle(t) \/ FineReplay(t) \/ FineRollBack(t)
         \/ RelayStep(t) /\ UNCHANGED <<challan, fine, checkout, initiating>>
    \/ PaymentStep
    \/ FineCrash

FineSpec == FineInit /\ [][FineNext]_fineVars

FineSettles(t) ==
    (FinalizeTx(t) \/ SweepReverted(t)) /\ UNCHANGED <<challan, fine, checkout, initiating>>

-----------------------------------------------------------------------------
(* Properties                                                               *)

(* However requests, webhooks, handlers, replays and roll-backs interleave, *)
(* with events lost or handled twice, no fine is shown settled that is not  *)
(* settled that very way on chain.                                          *)
FinesMatchChain ==
    \A r \in FineRows :
        /\ fine[r].status = "PAID" => fine[r].cid # 0 /\ challan[fine[r].cid] = "paid"
        /\ fine[r].status = "CANCELLED" => fine[r].cid # 0 /\ challan[fine[r].cid] = "cancelled"

(* reconciliation.worker.ts:793: the reference of a collected payment is    *)
(* evidence. Neither a roll-back nor a deletion ever loses it.              *)
PaymentKept == [][\A r \in FineRows : fine[r].ref # 0 => fine'[r].ref # 0]_fineVars

(* A settlement stored before the process missed its event is found by the  *)
(* sweep, and the fine is shown as the chain has it.                        *)
MissedSettlementIsReplayed ==
    \A t \in Txs :
        (tx[t].row = "PENDING" /\ tx[t].event = "lost" /\ tx[t].op \in {"payChallan", "cancelChallan"})
        ~> (\E r \in FineRows :
              /\ tx[t].link = r
              /\ fine[r].status = IF tx[t].op = "payChallan" THEN "PAID" ELSE "CANCELLED")

=============================================================================
