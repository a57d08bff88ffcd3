--------------------------- MODULE ChallanMirror_proofs ---------------------------
(***************************************************************************)
(* Proofs about ChallanMirror, for any number of transactions, challans,    *)
(* rows, payment orders, crashes and lost events.                           *)
(***************************************************************************)
EXTENDS ChallanMirror, TLAPS

TxRows == [Txs -> FineTx]
FineTable == [FineRows -> [status : {"absent", "deleted", "PENDING", "PAID", "CANCELLED"},
                           cid : Fines \cup {0}, order : Orders \cup {0}, ref : Orders \cup {0}]]
CheckoutTable == [Orders -> {"none", "open", "collected", "checked"}]

SettleOps == {"payChallan", "cancelChallan"}

(* A row is linked to one transaction that issues it, and has no id but     *)
(* that transaction's; transactions that settle name the id of their row.   *)
LinkSound ==
    \A t \in Txs :
        /\ tx[t].op = "issueChallan" =>
             /\ tx[t].id # 0 <=> tx[t].chain = "mined"
             /\ tx[t].row = "absent" => tx[t].link = 0
             /\ tx[t].seen \in {0, tx[t].link}
             /\ tx[t].chain # "mined" => tx[t].seen = 0
             /\ tx[t].link # 0 =>
                  /\ fine[tx[t].link] # NoFine
                  /\ fine[tx[t].link].cid \in {0, tx[t].id}
                  /\ \A s \in Txs \ {t} : tx[s].op = "issueChallan" => tx[s].link # tx[t].link
        /\ tx[t].op \in SettleOps => tx[t].link = 0 \/ fine[tx[t].link].cid = tx[t].id
        /\ tx[t].op = "adminCancelChallan" => tx[t].link = 0
        /\ tx[t].op \in DOMAIN Verdict => tx[t].id # 0

(* Events are of mined transactions, a challan once settled stays so, and   *)
(* the sweep rolls back what reverted.                                      *)
ChainSound ==
    /\ \A t \in Txs :
         /\ tx[t].event # "none" => tx[t].chain = "mined"
         /\ tx[t].chain = "mined" /\ tx[t].op \in DOMAIN Verdict => challan[tx[t].id] = Verdict[tx[t].op]
    /\ sweep # 0 => tx[sweep].chain = "reverted"

(* Only a row that is on chain is paid for.                                 *)
PaySound ==
    \A r \in FineRows : (fine[r].order # 0 \/ fine[r].ref # 0 \/ r \in initiating) => fine[r].cid # 0

FineInv == FineTypeOK /\ LinkSound /\ ChainSound /\ PaySound /\ FinesMatchChain

RefsKept == \A r \in FineRows : fine[r].ref # 0 => fine'[r].ref # 0

LEMMA Zeros ==
    /\ 0 \notin FineRows /\ 0 \notin Txs /\ 0 \notin Fines /\ 0 \notin Orders
    /\ DOMAIN Verdict = {"payChallan", "cancelChallan", "adminCancelChallan"}
    /\ Verdict["payChallan"] = "paid" /\ Verdict["cancelChallan"] = "cancelled"
    /\ Verdict["adminCancelChallan"] = "cancelled"
BY RelayAssumption, FineAssumption DEF FineRows, Txs, Fines, Orders, Verdict

LEMMA LinkParts ==
    ASSUME FineInv, NEW s \in Txs
    PROVE  /\ tx[s].op \in SettleOps => tx[s].link = 0 \/ fine[tx[s].link].cid = tx[s].id
           /\ tx[s].op = "adminCancelChallan" => tx[s].link = 0
           /\ tx[s].op \in DOMAIN Verdict => tx[s].id # 0
BY DEF FineInv, LinkSound

LEMMA IssueParts ==
    ASSUME FineInv, NEW s \in Txs, tx[s].op = "issueChallan"
    PROVE  /\ tx[s].id # 0 <=> tx[s].chain = "mined"
           /\ tx[s].row = "absent" => tx[s].link = 0
           /\ tx[s].seen \in {0, tx[s].link}
           /\ tx[s].chain # "mined" => tx[s].seen = 0
           /\ tx[s].link # 0 =>
                /\ fine[tx[s].link] # NoFine
                /\ fine[tx[s].link].cid \in {0, tx[s].id}
                /\ \A q \in Txs \ {s} : tx[q].op = "issueChallan" => tx[q].link # tx[s].link
BY DEF FineInv, LinkSound

LEMMA FineInitInv == FineInit => FineInv
<1> SUFFICES ASSUME FineInit PROVE FineInv
  OBVIOUS
<1>1. tx \in TxRows
  BY DEF FineInit, RelayInit, TxRows, FineTx, NoTx
<1>2. fine \in FineTable
  BY DEF FineInit, FineTable, NoFine
<1>3. FineTypeOK
  BY <1>1, <1>2, RelayAssumption DEF FineInit, RelayInit, FineTypeOK, TxRows, FineTable
<1>4. LinkSound /\ ChainSound
  BY Zeros DEF FineInit, RelayInit, NoTx, LinkSound, ChainSound, SettleOps
<1>5. PaySound /\ FinesMatchChain
  BY DEF FineInit, NoFine, PaySound, FinesMatchChain
<1> QED
  BY <1>3, <1>4, <1>5 DEF FineInv

-----------------------------------------------------------------------------
(* STEPS THAT SUBMIT, MINE AND LINK NOTHING                                 *)

(* What such a step may do to the transactions ...                          *)
SteadyTx ==
    /\ tx' \in TxRows
    /\ \A t \in Txs :
         /\ tx'[t].op = tx[t].op /\ tx'[t].id = tx[t].id /\ tx'[t].chain = tx[t].chain
         /\ tx'[t].link \in {tx[t].link, 0}
         /\ tx[t].op = "issueChallan" /\ tx[t].chain = "mined" => tx'[t].link = tx[t].link
         /\ tx'[t].row = "absent" => tx[t].row = "absent" \/ tx'[t].link = 0
         /\ tx'[t].event # "none" => tx[t].event # "none"
         /\ tx'[t].seen # tx[t].seen => tx[t].chain = "mined" /\ tx'[t].seen = tx[t].link
    /\ sweep' \in Txs \cup {0}
    /\ sweep' # 0 => sweep' = sweep \/ tx[sweep'].chain = "reverted"
    /\ crashes' \in 0 .. MaxCrashes /\ losses' \in 0 .. MaxLosses

(* ... and to the rows: an id is kept, or it is that of the transaction     *)
(* that issued the row; what is shown as settled is settled on chain.       *)
SteadyRow(r) ==
    /\ fine[r].cid # 0 => fine'[r].cid = fine[r].cid
    /\ fine[r] # NoFine => fine'[r] # NoFine
    /\ fine'[r].cid # fine[r].cid =>
         \A t \in Txs : tx[t].op = "issueChallan" /\ tx[t].link = r => fine'[r].cid = tx[t].id
    /\ (fine'[r].order # 0 \/ fine'[r].ref # 0) => fine'[r].cid # 0
    /\ fine'[r].status = "PAID" => fine'[r].cid # 0 /\ challan[fine'[r].cid] = "paid"
    /\ fine'[r].status = "CANCELLED" => fine'[r].cid # 0 /\ challan[fine'[r].cid] = "cancelled"
    /\ fine[r].ref # 0 => fine'[r].ref # 0

SteadyRows == fine' \in FineTable /\ \A r \in FineRows : SteadyRow(r)

SteadyPayment ==
    /\ checkout' \in CheckoutTable /\ initiating' \subseteq FineRows
    /\ \A r \in initiating' : fine'[r].cid # 0

LEMMA SteadyInv ==
    ASSUME FineInv, SteadyTx, SteadyRows, SteadyPayment, UNCHANGED challan
    PROVE  FineInv' /\ RefsKept
<1>1. FineTypeOK'
  BY DEF FineInv, FineTypeOK, SteadyTx, SteadyRows, SteadyPayment, TxRows, FineTable, CheckoutTable
<1>2. tx \in TxRows /\ fine \in FineTable
  BY DEF FineInv, FineTypeOK, TxRows, FineTable
<1>3. ASSUME NEW t \in Txs, tx[t].op = "issueChallan"
      PROVE  /\ tx'[t].id # 0 <=> tx'[t].chain = "mined"
             /\ tx'[t].row = "absent" => tx'[t].link = 0
             /\ tx'[t].seen \in {0, tx'[t].link}
             /\ tx'[t].chain # "mined" => tx'[t].seen = 0
             /\ tx'[t].link # 0 =>
                  /\ fine'[tx'[t].link] # NoFine
                  /\ fine'[tx'[t].link].cid \in {0, tx'[t].id}
                  /\ \A s \in Txs \ {t} : tx'[s].op = "issueChallan" => tx'[s].link # tx'[t].link
  <2>1. tx'[t].link \in FineRows \cup {0}
    BY <1>2 DEF SteadyTx, TxRows, FineTx
  <2>2. /\ tx'[t].id # 0 <=> tx'[t].chain = "mined"
        /\ tx'[t].row = "absent" => tx'[t].link = 0
        /\ tx'[t].seen \in {0, tx'[t].link}
        /\ tx'[t].chain # "mined" => tx'[t].seen = 0
    BY <1>3 DEF FineInv, LinkSound, SteadyTx
  <2>3. ASSUME tx'[t].link # 0
        PROVE  /\ fine'[tx'[t].link] # NoFine
               /\ fine'[tx'[t].link].cid \in {0, tx'[t].id}
    BY <1>3, <2>1, <2>3 DEF FineInv, LinkSound, SteadyTx, SteadyRows, SteadyRow
  <2>4. ASSUME tx'[t].link # 0, NEW s \in Txs \ {t}, tx'[s].op = "issueChallan"
        PROVE  tx'[s].link # tx'[t].link
    BY <1>3, <2>4 DEF FineInv, LinkSound, SteadyTx
  <2> QED
    BY <2>2, <2>3, <2>4
<1>4. ASSUME NEW t \in Txs, tx[t].op \in SettleOps
      PROVE  tx'[t].link = 0 \/ fine'[tx'[t].link].cid = tx'[t].id
  <2>1. tx[t].link \in FineRows \cup {0} /\ tx[t].id # 0
    BY <1>2, <1>4, Zeros DEF FineInv, LinkSound, TxRows, FineTx, SettleOps
  <2>2. tx[t].link # 0 => fine[tx[t].link].cid = tx[t].id
    BY <1>4 DEF FineInv, LinkSound
  <2> QED
    BY <2>1, <2>2, Zeros DEF SteadyTx, SteadyRows, SteadyRow
<1>5. \A t \in Txs : /\ tx'[t].op \in DOMAIN Verdict => tx'[t].id # 0
                     /\ tx'[t].op = "adminCancelChallan" => tx'[t].link = 0
  BY DEF FineInv, LinkSound, SteadyTx
<1>6. LinkSound'
  BY <1>3, <1>4, <1>5 DEF LinkSound, SteadyTx
<1>7. ChainSound'
  <2>1. \A t \in Txs :
         /\ tx'[t].event # "none" => tx'[t].chain = "mined"
         /\ tx'[t].chain = "mined" /\ tx'[t].op \in DOMAIN Verdict => challan'[tx'[t].id] = Verdict[tx'[t].op]
    BY DEF FineInv, ChainSound, SteadyTx
  <2>2. sweep' # 0 => tx'[sweep'].chain = "reverted"
    BY DEF FineInv, ChainSound, SteadyTx
  <2> QED
    BY <2>1, <2>2 DEF ChainSound
<1>8. PaySound'
  BY DEF PaySound, SteadyRows, SteadyRow, SteadyPayment
<1>9. FinesMatchChain' /\ RefsKept
  BY DEF FinesMatchChain, RefsKept, SteadyRows, SteadyRow
<1> QED
  BY <1>1, <1>6, <1>7, <1>8, <1>9 DEF FineInv

(* The steps of Relay that are steady.                                      *)
LEMMA RelaySteady ==
    ASSUME FineInv, NEW t \in Txs,
           \/ tx[t].event # "none" /\ (ReadBy(t) \/ AppliedBy(t) \/ Swallowed(t))
           \/ Replayed(t) \/ StoreTx(t, tx[t].link) \/ RolledBack \/ UNCHANGED relayVars
           \/ RelayStep(t)
    PROVE  SteadyTx
<1>1. /\ tx \in TxRows /\ sweep \in Txs \cup {0}
      /\ crashes \in 0 .. MaxCrashes /\ losses \in 0 .. MaxLosses
  BY DEF FineInv, FineTypeOK, TxRows
<1>2. CASE ReadBy(t) /\ tx[t].event # "none"
  <2>1. /\ \A s \in Txs \ {t} : tx'[s] = tx[s]
        /\ tx'[t] = [tx[t] EXCEPT !.event = "read", !.seen = tx[t].link]
        /\ UNCHANGED <<sweep, crashes, losses>> /\ tx[t] \in FineTx
        /\ tx' = [s \in Txs |-> tx'[s]]
    BY <1>1, <1>2 DEF ReadBy, TxRows
  <2>2. /\ tx'[t] \in FineTx /\ tx'[t].op = tx[t].op /\ tx'[t].id = tx[t].id
        /\ tx'[t].link = tx[t].link /\ tx'[t].chain = tx[t].chain /\ tx'[t].row = tx[t].row
        /\ tx'[t].seen = tx[t].link
    BY <2>1 DEF FineTx
  <2>3. tx' \in TxRows
    BY <1>1, <2>1, <2>2 DEF TxRows
  <2> QED
    <3>1. tx[t].chain = "mined" /\ tx'[t].event = "read"
      BY <1>2, <2>1 DEF FineInv, ChainSound, FineTx
    <3> QED
      BY <1>1, <1>2, <2>1, <2>2, <2>3, <3>1 DEF SteadyTx
<1>3. CASE (AppliedBy(t) \/ Swallowed(t)) /\ tx[t].event # "none"
  BY <1>1, <1>3 DEF AppliedBy, Swallowed, SteadyTx, TxRows, FineTx
<1>4. CASE Replayed(t)
  BY <1>1, <1>4 DEF Replayed, SteadyTx, TxRows, FineTx
<1>10. CASE RolledBack \/ UNCHANGED relayVars
  BY <1>1, <1>10 DEF RolledBack, relayVars, SteadyTx
<1>5. CASE StoreTx(t, tx[t].link)
  <2>1. /\ \A s \in Txs \ {t} : tx'[s] = tx[s]
        /\ tx'[t] = [tx[t] EXCEPT !.call = "idle", !.row = "PENDING", !.link = tx[t].link]
        /\ UNCHANGED <<sweep, crashes, losses>> /\ tx[t] \in FineTx
        /\ tx' = [s \in Txs |-> tx'[s]]
    BY <1>1, <1>5 DEF StoreTx, TxRows
  <2>2. /\ tx'[t] \in FineTx /\ tx'[t].op = tx[t].op /\ tx'[t].id = tx[t].id
        /\ tx'[t].link = tx[t].link /\ tx'[t].chain = tx[t].chain /\ tx'[t].row = "PENDING"
        /\ tx'[t].seen = tx[t].seen /\ tx'[t].event = tx[t].event
    BY <2>1 DEF FineTx
  <2>3. tx' \in TxRows
    BY <1>1, <2>1, <2>2 DEF TxRows
  <2> QED
    BY <1>1, <2>1, <2>2, <2>3 DEF SteadyTx
<1>6. CASE StoreRefused(t)
  BY <1>1, <1>6 DEF StoreRefused, SteadyTx, TxRows, FineTx
<1>7. CASE FinalizeTx(t)
  <2>1. /\ \A s \in Txs \ {t} : tx'[s] = tx[s]
        /\ tx'[t] = [tx[t] EXCEPT !.event = "handled", !.row = "MINED",
                                  !.link = IF tx[t].row = "absent" THEN 0 ELSE tx[t].link]
        /\ UNCHANGED <<sweep, crashes, losses>> /\ tx[t] \in FineTx /\ tx[t].event = "applied"
        /\ tx' = [s \in Txs |-> tx'[s]]
    BY <1>1, <1>7 DEF FinalizeTx, TxRows
  <2>2. /\ tx'[t] \in FineTx /\ tx'[t].op = tx[t].op /\ tx'[t].id = tx[t].id
        /\ tx'[t].link = (IF tx[t].row = "absent" THEN 0 ELSE tx[t].link)
        /\ tx'[t].chain = tx[t].chain /\ tx'[t].row = "MINED" /\ tx'[t].seen = tx[t].seen
    BY <2>1 DEF FineTx
  <2>3. tx' \in TxRows
    BY <1>1, <2>1, <2>2 DEF TxRows
  <2>4. tx[t].op = "issueChallan" => tx'[t].link = tx[t].link
    BY <2>2 DEF FineInv, LinkSound
  <2> QED
    BY <1>1, <2>1, <2>2, <2>3, <2>4 DEF SteadyTx
<1>8. CASE LoseEvent(t)
  <2>1. tx' \in TxRows /\ losses' \in 0 .. MaxLosses
    BY <1>1, <1>8, RelayAssumption DEF LoseEvent, TxRows, FineTx
  <2> QED
    BY <1>1, <1>8, <2>1 DEF LoseEvent, SteadyTx, TxRows, FineTx
<1>9. CASE SweepReverted(t)
  <2>1. /\ tx[t].chain = "reverted" /\ sweep' = t /\ UNCHANGED <<crashes, losses>>
        /\ tx' = [tx EXCEPT ![t].row = "FAILED"]
    BY <1>9 DEF SweepReverted, FoundReverted
  <2>2. /\ tx' \in TxRows
        /\ \A s \in Txs : /\ tx'[s].op = tx[s].op /\ tx'[s].id = tx[s].id
                          /\ tx'[s].link = tx[s].link /\ tx'[s].chain = tx[s].chain
                          /\ tx'[s].row \in {tx[s].row, "FAILED"}
                          /\ tx'[s].event = tx[s].event /\ tx'[s].seen = tx[s].seen
    BY <1>1, <2>1 DEF TxRows, FineTx
  <2> QED
    BY <1>1, <2>1, <2>2 DEF SteadyTx
<1> QED
  BY <1>2, <1>3, <1>4, <1>5, <1>6, <1>7, <1>8, <1>9, <1>10 DEF RelayStep

(* A deletion cascades to transactions that are not mined, or settle.       *)
LEMMA CascadeSteady ==
    ASSUME FineInv, NEW gone, tx' = Cascaded(gone), sweep' = 0, UNCHANGED <<crashes, losses>>,
           \A s \in Txs : tx[s].op = "issueChallan" /\ tx[s].chain = "mined" => tx[s].link \notin gone
    PROVE  SteadyTx
<1>1. tx \in TxRows /\ crashes \in 0 .. MaxCrashes /\ losses \in 0 .. MaxLosses
  BY DEF FineInv, FineTypeOK, TxRows
<1>2. ASSUME NEW s \in Txs
      PROVE  /\ tx'[s] \in FineTx /\ tx'[s].op = tx[s].op /\ tx'[s].id = tx[s].id
             /\ tx'[s].chain = tx[s].chain /\ tx'[s].event = tx[s].event /\ tx'[s].seen = tx[s].seen
             /\ \/ tx'[s].link = tx[s].link /\ tx'[s].row = tx[s].row
                \/ tx'[s].link = 0 /\ tx[s].link \in gone
  <2>1. tx[s] \in FineTx
    BY <1>1 DEF TxRows
  <2>2. CASE tx'[s] = tx[s]
    BY <2>1, <2>2
  <2>3. CASE tx'[s] = [tx[s] EXCEPT !.row = "absent", !.link = 0, !.call = "idle"] /\ tx[s].link \in gone
    BY <2>1, <2>3 DEF FineTx
  <2> QED
    BY <2>2, <2>3 DEF Cascaded
<1>3. tx' \in TxRows
  BY <1>2 DEF Cascaded, TxRows
<1> QED
  BY <1>1, <1>2, <1>3 DEF SteadyTx

-----------------------------------------------------------------------------
(* WHAT THE STEADY STEPS WRITE                                              *)

LEMMA Facts ==
    ASSUME FineInv
    PROVE  /\ tx \in TxRows /\ fine \in FineTable /\ checkout \in CheckoutTable
           /\ initiating \subseteq FineRows
           /\ \A r \in FineRows : /\ r # 0
                                  /\ fine[r].status = "PAID" => fine[r].cid # 0 /\ challan[fine[r].cid] = "paid"
                                  /\ fine[r].status = "CANCELLED" => fine[r].cid # 0 /\ challan[fine[r].cid] = "cancelled"
                                  /\ (fine[r].order # 0 \/ fine[r].ref # 0 \/ r \in initiating) => fine[r].cid # 0
BY Zeros DEF FineInv, FineTypeOK, TxRows, FineTable, CheckoutTable, PaySound, FinesMatchChain

(* Steps that leave the rows alone.                                         *)
LEMMA SameRows ==
    ASSUME FineInv, UNCHANGED fine
    PROVE  SteadyRows
BY Facts DEF SteadyRows, SteadyRow

(* The rows of one challan, or one row, get a status the chain confirms.    *)
LEMMA StatusRows ==
    ASSUME FineInv, NEW S, NEW status \in {"PENDING", "PAID", "CANCELLED"},
           fine' = [r \in FineRows |-> IF r \in S THEN [fine[r] EXCEPT !.status = status] ELSE fine[r]],
           \A r \in S \cap FineRows :
             /\ status = "PAID" => fine[r].cid # 0 /\ challan[fine[r].cid] = "paid"
             /\ status = "CANCELLED" => fine[r].cid # 0 /\ challan[fine[r].cid] = "cancelled"
    PROVE  SteadyRows
<1>1. fine' \in FineTable
  BY Facts DEF FineTable
<1>2. ASSUME NEW r \in FineRows, r \in S PROVE SteadyRow(r)
  <2>1. fine'[r] = [fine[r] EXCEPT !.status = status]
    BY <1>2
  <2>2. /\ fine'[r].cid = fine[r].cid /\ fine'[r].order = fine[r].order /\ fine'[r].ref = fine[r].ref
        /\ fine'[r].status = status /\ fine'[r] # NoFine
    BY <2>1, Facts DEF FineTable, NoFine
  <2> QED
    BY <1>2, <2>2, Facts DEF SteadyRow
<1>3. ASSUME NEW r \in FineRows, r \notin S PROVE SteadyRow(r)
  BY <1>3, Facts DEF SteadyRow
<1> QED
  BY <1>1, <1>2, <1>3 DEF SteadyRows

LEMMA SetStatusOfRows ==
    ASSUME FineInv, NEW c \in Fines, NEW status \in {"PENDING", "PAID", "CANCELLED"},
           SetStatusOf(c, status),
           status = "PAID" => challan[c] = "paid", status = "CANCELLED" => challan[c] = "cancelled"
    PROVE  SteadyRows
<1> DEFINE S == {r \in FineRows : fine[r].cid = c}
<1>1. fine' = [r \in FineRows |-> IF r \in S THEN [fine[r] EXCEPT !.status = status] ELSE fine[r]]
  BY DEF SetStatusOf
<1>2. \A r \in S : fine[r].cid # 0 /\ fine[r].cid = c
  BY Zeros
<1> QED
  BY <1>1, <1>2, StatusRows

LEMMA SetStatusRows ==
    ASSUME FineInv, NEW s \in FineRows \cup {0}, NEW status \in {"PENDING", "PAID", "CANCELLED"},
           SetStatus(s, status),
           s # 0 /\ status = "PAID" => fine[s].cid # 0 /\ challan[fine[s].cid] = "paid",
           s # 0 /\ status = "CANCELLED" => fine[s].cid # 0 /\ challan[fine[s].cid] = "cancelled"
    PROVE  SteadyRows
<1> DEFINE S == {s}
<1>1. fine' = [r \in FineRows |-> IF r \in S THEN [fine[r] EXCEPT !.status = status] ELSE fine[r]]
  BY Facts DEF SetStatus, FineTable
<1> QED
  BY <1>1, StatusRows, Zeros

(* A row gets the id of the transaction that issued it.                     *)
LEMMA IdentifiedRows ==
    ASSUME FineInv, NEW r \in FineRows \cup {0}, NEW c \in Fines, Identified(r, c),
           r # 0 => fine[r].cid \in {0, c},
           \A t \in Txs : tx[t].op = "issueChallan" /\ tx[t].link = r /\ r # 0 => tx[t].id = c
    PROVE  SteadyRows
<1>1. CASE r = 0
  BY <1>1, Zeros, Facts, SameRows DEF FineTable, Identified
<1>2. CASE r \in FineRows
  <2>1. /\ \A q \in FineRows \ {r} : fine'[q] = fine[q]
        /\ fine'[r] = [fine[r] EXCEPT !.status = "PENDING", !.cid = c]
        /\ fine' = [q \in FineRows |-> fine'[q]]
    BY <1>2, Facts DEF FineTable, Identified
  <2>2. fine[r] \in [status : {"absent", "deleted", "PENDING", "PAID", "CANCELLED"},
                     cid : Fines \cup {0}, order : Orders \cup {0}, ref : Orders \cup {0}]
    BY <1>2, Facts DEF FineTable
  <2>3. /\ fine'[r].cid = c /\ c # 0 /\ fine'[r].order = fine[r].order /\ fine'[r].ref = fine[r].ref
        /\ fine'[r].status = "PENDING"
        /\ fine'[r] \in [status : {"absent", "deleted", "PENDING", "PAID", "CANCELLED"},
                         cid : Fines \cup {0}, order : Orders \cup {0}, ref : Orders \cup {0}]
    BY <2>1, <2>2, Zeros
  <2>4. fine'[r] # NoFine
    BY <2>3 DEF NoFine
  <2>5. SteadyRow(r)
    BY <1>2, <2>3, <2>4, Facts DEF SteadyRow
  <2>6. \A q \in FineRows \ {r} : SteadyRow(q)
    BY <2>1, Facts DEF SteadyRow
  <2>7. fine' \in FineTable
    <3>1. \A q \in FineRows : fine'[q] \in [status : {"absent", "deleted", "PENDING", "PAID", "CANCELLED"},
                         cid : Fines \cup {0}, order : Orders \cup {0}, ref : Orders \cup {0}]
      BY <2>1, <2>3, Facts DEF FineTable
    <3> QED
      BY <2>1, <3>1 DEF FineTable
  <2> QED
    BY <2>5, <2>6, <2>7 DEF SteadyRows
<1> QED
  BY <1>1, <1>2

-----------------------------------------------------------------------------
(* THE HANDLERS, THE SWEEP, THE REQUESTS THAT STORE AND PAY                 *)

LEMMA SamePayment ==
    ASSUME FineInv, SteadyRows, UNCHANGED <<checkout, initiating>>
    PROVE  SteadyPayment
BY Facts DEF SteadyPayment, SteadyRows, SteadyRow

(* A handled event is of a mined transaction with an id, and the challan    *)
(* it settled is settled that way; so it is for a receipt of status 1.      *)
LEMMA MinedFacts ==
    ASSUME FineInv, NEW t \in Txs, tx[t].op \in FineOps,
           tx[t].event # "none" \/ tx[t].chain = "mined"
    PROVE  /\ tx[t].id \in Fines
           /\ tx[t].op \in DOMAIN Verdict => challan[tx[t].id] = Verdict[tx[t].op]
<1>1. tx[t].chain = "mined"
  BY DEF FineInv, ChainSound
<1>2. tx[t].id \in Fines \cup {0} /\ tx[t].id # 0
  BY <1>1, Facts, Zeros DEF FineInv, LinkSound, TxRows, FineTx, FineOps
<1> QED
  BY <1>1, <1>2 DEF FineInv, ChainSound

LEMMA HandleInv ==
    ASSUME FineInv, NEW t \in Txs, FineHandle(t)
    PROVE  FineInv' /\ RefsKept
<1>1. UNCHANGED <<challan, checkout, initiating>>
  BY DEF FineHandle, ChallanIssuedRead, ChallanIssuedWrite, ChallanIssuedFails, HandleChallanPaid,
         HandleChallanCancelled
<1>2. SteadyTx
  BY RelaySteady DEF FineHandle, ChallanIssuedRead, ChallanIssuedWrite, ChallanIssuedFails,
         HandleChallanPaid, HandleChallanCancelled, Arrived, SeenBy
<1>3. SteadyRows
  <2>1. CASE ChallanIssuedRead(t) \/ ChallanIssuedFails(t)
    BY <2>1, SameRows DEF ChallanIssuedRead, ChallanIssuedFails
  <2>2. CASE ChallanIssuedWrite(t)
    <3>1. tx[t].op = "issueChallan" /\ tx[t].id \in Fines
      BY <2>2, MinedFacts DEF ChallanIssuedWrite, SeenBy, FineOps
    <3>2. ASSUME tx[t].seen # 0, Identified(tx[t].seen, tx[t].id) PROVE SteadyRows
      <4>1. /\ tx[t].seen = tx[t].link /\ tx[t].link \in FineRows
            /\ fine[tx[t].link].cid \in {0, tx[t].id}
            /\ \A s \in Txs \ {t} : tx[s].op = "issueChallan" => tx[s].link # tx[t].link
        BY <3>1, <3>2, Facts DEF FineInv, LinkSound, TxRows, FineTx
      <4> QED
        BY <3>1, <3>2, <4>1, IdentifiedRows
    <3>3. ASSUME SetStatusOf(tx[t].id, "PENDING") PROVE SteadyRows
      BY <3>1, <3>3, SetStatusOfRows
    <3>4. ASSUME NEW r \in FineRows, NextRow(r), Identified(r, tx[t].id) PROVE SteadyRows
      <4>1. fine[r] = NoFine /\ fine[r].cid = 0
        BY <3>4 DEF NextRow, NoFine
      <4>2. \A s \in Txs : tx[s].op = "issueChallan" => tx[s].link # r
        BY <4>1, Zeros DEF FineInv, LinkSound
      <4> QED
        BY <3>1, <3>4, <4>1, <4>2, IdentifiedRows
    <3> QED
      BY <2>2, <3>2, <3>3, <3>4 DEF ChallanIssuedWrite
  <2>3. CASE HandleChallanPaid(t)
    <3>1. tx[t].id \in Fines /\ challan[tx[t].id] = "paid"
      BY <2>3, MinedFacts, Zeros DEF HandleChallanPaid, Arrived, FineOps
    <3> QED
      BY <2>3, <3>1, SetStatusOfRows DEF HandleChallanPaid
  <2>4. CASE HandleChallanCancelled(t)
    <3>1. tx[t].id \in Fines /\ challan[tx[t].id] = "cancelled"
      BY <2>4, MinedFacts, Zeros DEF HandleChallanCancelled, Arrived, FineOps
    <3> QED
      BY <2>4, <3>1, SetStatusOfRows DEF HandleChallanCancelled
  <2> QED
    BY <2>1, <2>2, <2>3, <2>4 DEF FineHandle
<1> QED
  BY <1>1, <1>2, <1>3, SteadyInv, SamePayment

(* The sweep replays what the chain did, and undoes what it did not.        *)
LEMMA LinkFacts ==
    ASSUME FineInv, NEW t \in Txs, tx[t].op \in SettleOps
    PROVE  /\ tx[t].link \in FineRows \cup {0} /\ tx[t].id # 0
           /\ tx[t].link # 0 => fine[tx[t].link].cid = tx[t].id
BY Facts, Zeros DEF FineInv, LinkSound, TxRows, FineTx, SettleOps

LEMMA ReplayInv ==
    ASSUME FineInv, NEW t \in Txs, FineReplay(t)
    PROVE  FineInv' /\ RefsKept
<1>1. UNCHANGED <<challan, checkout, initiating>> /\ Replayed(t) /\ tx[t].chain = "mined"
  BY DEF FineReplay, ReplayIssue, ReplayPay, ReplayCancel, ReplayAdminCancel, ConfirmExecution, FoundMined
<1>2. SteadyTx
  BY <1>1, RelaySteady
<1>3. SteadyRows
  <2>1. CASE ReplayIssue(t)
    <3>1. tx[t].op = "issueChallan" /\ tx[t].id \in Fines /\ Identified(tx[t].link, tx[t].id)
      BY <1>1, <2>1, MinedFacts DEF ReplayIssue, FoundMined, FineOps
    <3>2. /\ tx[t].link \in FineRows \cup {0}
          /\ tx[t].link # 0 => fine[tx[t].link].cid \in {0, tx[t].id}
          /\ tx[t].link # 0 => \A s \in Txs \ {t} : tx[s].op = "issueChallan" => tx[s].link # tx[t].link
      BY <3>1, Facts DEF FineInv, LinkSound, TxRows, FineTx
    <3> QED
      BY <3>1, <3>2, IdentifiedRows
  <2>2. CASE ReplayPay(t)
    <3>1. tx[t].op = "payChallan" /\ challan[tx[t].id] = "paid"
      BY <1>1, <2>2, MinedFacts, Zeros DEF ReplayPay, FoundMined, FineOps
    <3> QED
      BY <2>2, <3>1, LinkFacts, SetStatusRows DEF ReplayPay, SettleOps
  <2>3. CASE ReplayCancel(t)
    <3>1. tx[t].op = "cancelChallan" /\ challan[tx[t].id] = "cancelled"
      BY <1>1, <2>3, MinedFacts, Zeros DEF ReplayCancel, FoundMined, FineOps
    <3> QED
      BY <2>3, <3>1, LinkFacts, SetStatusRows DEF ReplayCancel, SettleOps
  <2>4. CASE ReplayAdminCancel(t)
    <3>1. tx[t].id \in Fines /\ challan[tx[t].id] = "cancelled"
      BY <1>1, <2>4, MinedFacts, Zeros DEF ReplayAdminCancel, FoundMined, FineOps
    <3> QED
      BY <2>4, <3>1, SetStatusOfRows DEF ReplayAdminCancel
  <2>5. CASE ConfirmExecution(t)
    BY <2>5, SameRows DEF ConfirmExecution
  <2> QED
    BY <2>1, <2>2, <2>3, <2>4, <2>5 DEF FineReplay
<1> QED
  BY <1>1, <1>2, <1>3, SteadyInv, SamePayment

LEMMA RollBackInv ==
    ASSUME FineInv, NEW t \in Txs, FineRollBack(t)
    PROVE  FineInv' /\ RefsKept
<1>1. UNCHANGED <<challan, checkout, initiating>> /\ sweep = t /\ tx[t].chain = "reverted"
  BY Zeros DEF FineRollBack, RollBackIssue, RollBackSettle, RollBackExecution, RollingBack,
               FineInv, ChainSound
<1>2. SteadyTx
  <2>1. CASE RollBackIssue(t)
    <3>1. /\ tx[t].op = "issueChallan" /\ tx' = Cascaded({tx[t].link}) /\ sweep' = 0
          /\ UNCHANGED <<crashes, losses>>
      BY <2>1 DEF RollBackIssue, RollingBack
    <3>2. CASE tx[t].link = 0
      <4>1. tx' = [s \in Txs |-> tx[s]]
        BY <3>1, <3>2 DEF Cascaded
      <4>2. tx' = tx
        BY <4>1, Facts DEF TxRows
      <4> QED
        BY <3>1, <4>2, RelaySteady DEF RolledBack
    <3>3. CASE tx[t].link # 0
      <4>1. \A s \in Txs \ {t} : tx[s].op = "issueChallan" => tx[s].link # tx[t].link
        BY <3>1, <3>3, IssueParts
      <4> QED
        BY <1>1, <3>1, <4>1, CascadeSteady
    <3> QED
      BY <3>2, <3>3
  <2>2. CASE RollBackSettle(t) \/ RollBackExecution(t)
    BY <2>2, RelaySteady DEF RollBackSettle, RollBackExecution
  <2> QED
    BY <2>1, <2>2 DEF FineRollBack
<1>3. SteadyRows
  <2>1. CASE RollBackIssue(t)
    <3>1. /\ fine' = [fine EXCEPT ![tx[t].link] = [NoFine EXCEPT !.status = "deleted"]]
          /\ tx[t].op = "issueChallan" /\ tx[t].link \in FineRows \cup {0}
      BY <2>1, Facts DEF RollBackIssue, RollingBack, TxRows, FineTx
    <3>2. tx[t].link # 0 => fine[tx[t].link].cid = 0
      BY <1>1, <3>1, IssueParts
    <3>3. CASE tx[t].link = 0
      BY <3>1, <3>3, Zeros, Facts, SameRows DEF FineTable
    <3>4. CASE tx[t].link \in FineRows
      <4> DEFINE r == tx[t].link
      <4>1. /\ fine'[r] = [status |-> "deleted", cid |-> 0, order |-> 0, ref |-> 0]
            /\ \A q \in FineRows \ {r} : fine'[q] = fine[q]
            /\ fine' \in FineTable
        BY <3>1, <3>4, Facts DEF FineTable, NoFine
      <4>2. fine[r].cid = 0 /\ fine[r].ref = 0
        BY <3>2, <3>4, Facts
      <4>3. SteadyRow(r)
        BY <3>4, <4>1, <4>2 DEF SteadyRow, NoFine
      <4>4. \A q \in FineRows \ {r} : SteadyRow(q)
        BY <4>1, Facts DEF SteadyRow
      <4> QED
        BY <4>1, <4>3, <4>4 DEF SteadyRows
    <3> QED
      BY <3>1, <3>3, <3>4
  <2>2. CASE RollBackSettle(t)
    <3>1. tx[t].op \in SettleOps /\ SetStatus(tx[t].link, "PENDING")
      BY <2>2 DEF RollBackSettle, RollingBack, SettleOps
    <3> QED
      BY <3>1, LinkFacts, SetStatusRows
  <2>3. CASE RollBackExecution(t)
    BY <2>3, SameRows DEF RollBackExecution
  <2> QED
    BY <2>1, <2>2, <2>3 DEF FineRollBack
<1> QED
  BY <1>1, <1>2, <1>3, SteadyInv, SamePayment

LEMMA UnchangedSteady ==
    ASSUME FineInv, UNCHANGED relayVars
    PROVE  SteadyTx
BY Facts DEF relayVars, SteadyTx, FineInv, FineTypeOK

(* An order, or the reference of a payment, only ever of a row on chain.    *)
LEMMA PaymentInv ==
    ASSUME FineInv, PaymentStep
    PROVE  FineInv' /\ RefsKept
<1> DEFINE Row == [status : {"absent", "deleted", "PENDING", "PAID", "CANCELLED"},
                   cid : Fines \cup {0}, order : Orders \cup {0}, ref : Orders \cup {0}]
<1>1. UNCHANGED <<relayVars, challan>>
  BY DEF PaymentStep, InitiateRead, SetPaymentOrderId, Collect, WebhookCheck
<1>2. SteadyTx
  BY <1>1, UnchangedSteady
<1>3. ASSUME NEW r \in FineRows, InitiateRead(r) PROVE SteadyRows /\ SteadyPayment
  <2>1. SteadyRows
    BY <1>3, SameRows DEF InitiateRead
  <2> QED
    BY <1>3, <2>1, Facts DEF InitiateRead, Settleable, SteadyPayment
<1>4. ASSUME NEW o \in Orders, Collect(o) PROVE SteadyRows /\ SteadyPayment
  <2>1. SteadyRows
    BY <1>4, SameRows DEF Collect
  <2>2. checkout' \in CheckoutTable
    BY <1>4, Facts DEF Collect, CheckoutTable
  <2> QED
    BY <1>4, <2>1, <2>2, Facts DEF Collect, SteadyPayment
<1>5. ASSUME NEW r \in FineRows, NEW o \in Orders, SetPaymentOrderId(r, o) \/ WebhookCheck(o, r)
      PROVE  SteadyRows /\ SteadyPayment
  <2>1. fine[r] \in Row /\ fine[r].cid # 0 /\ o # 0
    BY <1>5, Facts, Zeros DEF FineTable, SetPaymentOrderId, WebhookCheck, Settleable
  <2>2. /\ fine'[r] \in {[fine[r] EXCEPT !.order = o], [fine[r] EXCEPT !.ref = o]}
        /\ \A q \in FineRows \ {r} : fine'[q] = fine[q]
        /\ fine' = [q \in FineRows |-> fine'[q]]
    BY <1>5, Facts DEF FineTable, SetPaymentOrderId, WebhookCheck
  <2>3. /\ fine'[r] \in Row /\ fine'[r].cid = fine[r].cid /\ fine'[r].status = fine[r].status
        /\ fine[r].ref # 0 => fine'[r].ref # 0
    BY <2>1, <2>2
  <2>4. SteadyRow(r)
    BY <2>1, <2>3, Facts DEF SteadyRow, NoFine
  <2>5. \A q \in FineRows \ {r} : SteadyRow(q)
    BY <2>2, Facts DEF SteadyRow
  <2>6. \A q \in FineRows : fine'[q] \in Row
    BY <2>2, <2>3, Facts DEF FineTable
  <2>7. SteadyRows
    BY <2>2, <2>4, <2>5, <2>6 DEF SteadyRows, FineTable
  <2>8. checkout' \in CheckoutTable /\ initiating' \subseteq initiating
    BY <1>5, Facts DEF SetPaymentOrderId, WebhookCheck, CheckoutTable
  <2>9. \A q \in initiating' : fine'[q].cid # 0
    BY <2>7, <2>8, Facts DEF SteadyRows, SteadyRow
  <2> QED
    BY <2>7, <2>8, <2>9, Facts DEF SteadyPayment
<1> QED
  BY <1>1, <1>2, <1>3, <1>4, <1>5, SteadyInv DEF PaymentStep

LEMMA CrashInv ==
    ASSUME FineInv, FineCrash
    PROVE  FineInv' /\ RefsKept
<1>1. PICK again : tx' = [t \in Txs |->
                  [tx[t] EXCEPT !.call = "idle",
                                !.event = IF @ \in {"read", "applied"} \/ t \in again
                                          THEN "ready" ELSE @]]
                  /\ again \subseteq {t \in Txs : tx[t].event = "handled"}
  BY DEF FineCrash, Crash
<1>2. ASSUME NEW t \in Txs
      PROVE  /\ tx'[t] \in FineTx /\ tx'[t].op = tx[t].op /\ tx'[t].id = tx[t].id
             /\ tx'[t].link = tx[t].link /\ tx'[t].chain = tx[t].chain /\ tx'[t].row = tx[t].row
             /\ tx'[t].event # "none" => tx[t].event # "none"
             /\ tx'[t].seen = tx[t].seen
  <2>1. tx[t] \in FineTx
    BY Facts DEF TxRows
  <2>2. PICK event \in {tx[t].event, "ready"} :
          /\ tx'[t] = [tx[t] EXCEPT !.call = "idle", !.event = event]
          /\ event = "ready" => tx[t].event # "none"
    BY <1>1, <2>1 DEF FineTx
  <2>3. /\ tx'[t] \in FineTx /\ tx'[t].event = event
        /\ tx'[t].op = tx[t].op /\ tx'[t].id = tx[t].id /\ tx'[t].link = tx[t].link
        /\ tx'[t].chain = tx[t].chain /\ tx'[t].row = tx[t].row /\ tx'[t].seen = tx[t].seen
    <3>1. event \in {"none", "ready", "read", "applied", "handled", "lost"}
      BY <2>1, <2>2 DEF FineTx
    <3> QED
      BY <2>1, <2>2, <3>1 DEF FineTx
  <2> QED
    BY <2>2, <2>3
<1>3. SteadyTx
  <2>1. crashes' \in 0 .. MaxCrashes /\ losses' \in 0 .. MaxLosses /\ sweep' = 0
    <3>1. crashes \in 0 .. MaxCrashes /\ losses \in 0 .. MaxLosses
      BY DEF FineInv, FineTypeOK
    <3>2. crashes < MaxCrashes /\ crashes' = crashes + 1 /\ sweep' = 0 /\ losses' = losses
      BY DEF FineCrash, Crash
    <3> QED
      BY <3>1, <3>2, RelayAssumption
  <2>2. tx' \in TxRows
    BY <1>1, <1>2 DEF TxRows
  <2> QED
    BY <1>2, <2>1, <2>2 DEF SteadyTx
<1>4. SteadyRows /\ SteadyPayment /\ UNCHANGED challan
  <2>1. UNCHANGED <<challan, fine>> /\ initiating' = {}
    BY DEF FineCrash
  <2>2. checkout' \in CheckoutTable
    BY Facts DEF FineCrash, CheckoutTable
  <2> QED
    BY <2>1, <2>2, SameRows DEF SteadyPayment
<1> QED
  BY <1>3, <1>4, SteadyInv

(* Storing a transaction that settles, or the steps of Relay alone          *)
LEMMA StoreInv ==
    ASSUME FineInv, NEW t \in Txs,
           \/ CreatePayChallanTx(t) \/ CreateCancelChallanTx(t) \/ StoreExecution(t)
           \/ RelayStep(t) /\ UNCHANGED <<challan, fine, checkout, initiating>>
    PROVE  FineInv' /\ RefsKept
<1>1. UNCHANGED <<challan, fine, checkout, initiating>>
  BY DEF CreatePayChallanTx, CreateCancelChallanTx, CreateSettleTx, StoreExecution
<1>2. SteadyTx
  <2>1. CASE StoreExecution(t)
    <3>1. tx[t].op = "adminCancelChallan" /\ tx[t].link = 0
      BY <2>1 DEF StoreExecution, Storing, FineInv, LinkSound
    <3> QED
      BY <2>1, <3>1, RelaySteady DEF StoreExecution
  <2> QED
    BY <2>1, RelaySteady DEF CreatePayChallanTx, CreateCancelChallanTx, CreateSettleTx
<1> QED
  BY <1>1, <1>2, SteadyInv, SamePayment, SameRows

-----------------------------------------------------------------------------
(* SUBMITTING, LINKING AND MINING                                           *)

LEMMA NewTxInv ==
    ASSUME FineInv, NEW t \in Txs, NEW op \in FineOps, NEW id \in Fines \cup {0},
           NEW link \in FineRows \cup {0}, SubmitEntityTx(t, op, id, 0, link),
           op = "issueChallan" => id = 0 /\ link = 0,
           op = "adminCancelChallan" => id # 0 /\ link = 0,
           op \in SettleOps => link # 0 /\ fine[link].cid = id /\ id # 0,
           UNCHANGED <<challan, fine, initiating>>, checkout' \in CheckoutTable
    PROVE  FineInv' /\ RefsKept
<1>1. /\ tx[t].op = "none" /\ tx[t].chain = "unsent"
      /\ tx'[t] = [op |-> op, id |-> id, by |-> 0, link |-> link, chain |-> "pool", call |-> "sent",
                   row |-> "absent", event |-> "none", seen |-> 0]
      /\ \A s \in Txs \ {t} : tx'[s] = tx[s]
      /\ tx' = [s \in Txs |-> tx'[s]]
  <2>1. tx[t] = NoTx /\ tx \in TxRows
    BY Facts DEF SubmitEntityTx, NextTx
  <2>2. tx' = [tx EXCEPT ![t] = [op |-> op, id |-> id, by |-> 0, link |-> link, chain |-> "pool",
                                 call |-> "sent", row |-> "absent", event |-> "none", seen |-> 0]]
    BY DEF SubmitEntityTx, Submitted
  <2>3. tx[t].op = "none" /\ tx[t].chain = "unsent"
    BY <2>1 DEF NoTx
  <2> QED
    BY <2>1, <2>2, <2>3 DEF TxRows
<1>2. tx' \in TxRows
  <2>1. tx'[t] \in FineTx
    BY <1>1 DEF FineTx
  <2> QED
    BY <1>1, <2>1, Facts DEF TxRows
<1>3. FineTypeOK'
  BY <1>2 DEF SubmitEntityTx, FineInv, FineTypeOK, TxRows, CheckoutTable
<1>4. LinkSound'
  <2>1. ASSUME NEW s \in Txs, s # t, tx[s].op = "issueChallan"
        PROVE  /\ tx'[s].id # 0 <=> tx'[s].chain = "mined"
               /\ tx'[s].row = "absent" => tx'[s].link = 0
               /\ tx'[s].seen \in {0, tx'[s].link}
               /\ tx'[s].chain # "mined" => tx'[s].seen = 0
               /\ tx'[s].link # 0 =>
                    /\ fine'[tx'[s].link] # NoFine
                    /\ fine'[tx'[s].link].cid \in {0, tx'[s].id}
                    /\ \A q \in Txs \ {s} : tx'[q].op = "issueChallan" => tx'[q].link # tx'[s].link
    BY <1>1, <2>1 DEF FineInv, LinkSound
  <2>2. \A s \in Txs \ {t} :
           /\ tx'[s].op \in SettleOps => tx'[s].link = 0 \/ fine'[tx'[s].link].cid = tx'[s].id
           /\ tx'[s].op = "adminCancelChallan" => tx'[s].link = 0
           /\ tx'[s].op \in DOMAIN Verdict => tx'[s].id # 0
    BY <1>1 DEF FineInv, LinkSound
  <2>3. /\ tx'[t].op = "issueChallan" => tx'[t].id = 0 /\ tx'[t].link = 0
        /\ tx'[t].chain = "pool" /\ tx'[t].seen = 0
        /\ tx'[t].op \in SettleOps => tx'[t].link = 0 \/ fine'[tx'[t].link].cid = tx'[t].id
        /\ tx'[t].op = "adminCancelChallan" => tx'[t].link = 0
        /\ tx'[t].op \in DOMAIN Verdict => tx'[t].id # 0
    BY <1>1, Zeros DEF SettleOps
  <2> QED
    BY <1>1, <2>1, <2>2, <2>3 DEF LinkSound
<1>5. ChainSound'
  BY <1>1 DEF FineInv, FineTypeOK, ChainSound, SubmitEntityTx
<1>6. PaySound' /\ FinesMatchChain' /\ RefsKept
  BY DEF FineInv, PaySound, FinesMatchChain, RefsKept
<1> QED
  BY <1>3, <1>4, <1>5, <1>6 DEF FineInv

LEMMA RequestInv ==
    ASSUME FineInv, NEW t \in Txs, FineRequest(t)
    PROVE  FineInv' /\ RefsKept
<1>1. CASE IssueChallan(t)
  BY <1>1, NewTxInv, Facts DEF IssueChallan, FineOps, SettleOps
<1>2. ASSUME NEW r \in FineRows, NEW op \in SettleOps, PoliceChallan(t, r, op)
      PROVE  FineInv' /\ RefsKept
  <2>1. fine[r].cid \in Fines \cup {0} /\ fine[r].cid # 0 /\ r # 0
    BY <1>2, Facts DEF PoliceChallan, Settleable, FineTable
  <2> QED
    BY <1>2, <2>1, NewTxInv, Facts DEF PoliceChallan, FineOps, SettleOps
<1>3. ASSUME NEW r \in FineRows, AdminCancelChallan(t, r) PROVE FineInv' /\ RefsKept
  <2>1. fine[r].cid \in Fines \cup {0} /\ fine[r].cid # 0
    BY <1>3, Facts DEF AdminCancelChallan, Settleable, FineTable
  <2> QED
    BY <1>3, <2>1, NewTxInv, Facts DEF AdminCancelChallan, FineOps, SettleOps
<1>4. ASSUME NEW r \in FineRows, NEW o \in Orders, WebhookSubmit(o, t, r) PROVE FineInv' /\ RefsKept
  <2>1. fine[r].cid \in Fines \cup {0} /\ fine[r].cid # 0 /\ r # 0
    <3>1. fine[r].order # 0
      BY <1>4, Zeros DEF WebhookSubmit
    <3> QED
      BY <3>1, Facts DEF FineTable
  <2>2. checkout' \in CheckoutTable /\ UNCHANGED <<challan, fine, initiating>>
    BY <1>4, Facts DEF WebhookSubmit, CheckoutTable
  <2>3. CASE SubmitEntityTx(t, "payChallan", fine[r].cid, 0, r)
    BY <2>1, <2>2, <2>3, NewTxInv DEF FineOps, SettleOps
  <2>4. CASE UNCHANGED relayVars
    <3>1. SteadyPayment
      BY <2>2, Facts DEF SteadyPayment
    <3> QED
      BY <2>2, <2>4, <3>1, UnchangedSteady, SameRows, SteadyInv
  <2> QED
    BY <1>4, <2>3, <2>4 DEF WebhookSubmit
<1> QED
  BY <1>1, <1>2, <1>3, <1>4 DEF FineRequest, PayChallan, CancelChallan, SettleOps

(* The new row is linked to the one transaction it was created with.        *)
LEMMA CreateChallanInv ==
    ASSUME FineInv, NEW t \in Txs, NEW r \in FineRows, CreateChallanTx(t, r)
    PROVE  FineInv' /\ RefsKept
<1>1. /\ tx[t].op = "issueChallan" /\ tx[t].row = "absent" /\ tx[t].link = 0 /\ tx[t].seen = 0
      /\ tx'[t] = [tx[t] EXCEPT !.call = "idle", !.row = "PENDING", !.link = r]
      /\ \A s \in Txs \ {t} : tx'[s] = tx[s]
      /\ tx' = [s \in Txs |-> tx'[s]]
  <2>1. tx[t].op = "issueChallan" /\ tx[t].row = "absent"
    BY DEF CreateChallanTx, Storing, StoreTx
  <2>2. tx[t].link = 0 /\ tx[t].seen = 0
    BY <2>1 DEF FineInv, LinkSound
  <2> QED
    BY <2>1, <2>2, Facts DEF CreateChallanTx, StoreTx, TxRows
<1>2. /\ tx'[t] \in FineTx /\ tx'[t].op = tx[t].op /\ tx'[t].id = tx[t].id /\ tx'[t].link = r
      /\ tx'[t].chain = tx[t].chain /\ tx'[t].row = "PENDING" /\ tx'[t].event = tx[t].event
      /\ tx'[t].seen = 0
  <2>1. tx[t] \in FineTx
    BY Facts DEF TxRows
  <2> QED
    BY <1>1, <2>1 DEF FineTx
<1>3. /\ fine[r] = NoFine /\ fine'[r] = [status |-> "PENDING", cid |-> 0, order |-> 0, ref |-> 0]
      /\ \A q \in FineRows \ {r} : fine'[q] = fine[q]
      /\ fine' \in FineTable
  BY Facts DEF CreateChallanTx, NextRow, NoFine, FineTable
<1>4. FineTypeOK'
  <2>1. tx' \in TxRows
    BY <1>1, <1>2, Facts DEF TxRows
  <2> QED
    BY <1>3, <2>1 DEF CreateChallanTx, StoreTx, FineInv, FineTypeOK, TxRows, FineTable
<1>5. ASSUME NEW s \in Txs, s # t, tx[s].op = "issueChallan"
      PROVE  /\ tx'[s].id # 0 <=> tx'[s].chain = "mined"
             /\ tx'[s].row = "absent" => tx'[s].link = 0
             /\ tx'[s].seen \in {0, tx'[s].link}
             /\ tx'[s].chain # "mined" => tx'[s].seen = 0
             /\ tx'[s].link # 0 =>
                  /\ fine'[tx'[s].link] # NoFine
                  /\ fine'[tx'[s].link].cid \in {0, tx'[s].id}
                  /\ \A q \in Txs \ {s} : tx'[q].op = "issueChallan" => tx'[q].link # tx'[s].link
  <2>1. tx'[s].link # r /\ tx'[s].link \in FineRows \cup {0}
    BY <1>1, <1>3, <1>5, Facts, Zeros DEF FineInv, LinkSound, TxRows, FineTx
  <2>2. tx'[s] = tx[s] /\ (tx[s].link # 0 => fine'[tx[s].link] = fine[tx[s].link])
    BY <1>1, <1>3, <1>5, <2>1
  <2>3. ASSUME tx[s].link # 0, NEW q \in Txs \ {s}, tx'[q].op = "issueChallan"
        PROVE  tx'[q].link # tx[s].link
    <3>1. CASE q = t
      BY <1>2, <2>1, <2>2, <3>1
    <3>2. CASE q # t
      BY <1>1, <1>5, <2>3, <3>2, IssueParts
    <3> QED
      BY <3>1, <3>2
  <2> QED
    BY <1>5, <2>2, <2>3 DEF FineInv, LinkSound
<1>6. \A s \in Txs : tx[s].op \in SettleOps => tx[s].link # r /\ (tx[s].link = 0 \/ fine[tx[s].link].cid = tx[s].id)
  <2> SUFFICES ASSUME NEW s \in Txs, tx[s].op \in SettleOps
               PROVE  tx[s].link # r /\ (tx[s].link = 0 \/ fine[tx[s].link].cid = tx[s].id)
    OBVIOUS
  <2>1. tx[s].id # 0 /\ (tx[s].link # 0 => fine[tx[s].link].cid = tx[s].id)
    BY LinkFacts
  <2>2. fine[r].cid = 0 /\ r # 0
    BY <1>3, Facts DEF NoFine
  <2> QED
    BY <2>1, <2>2
<1>7. \A s \in Txs :
         /\ tx'[s].op \in SettleOps => tx'[s].link = 0 \/ fine'[tx'[s].link].cid = tx'[s].id
         /\ tx'[s].op = "adminCancelChallan" => tx'[s].link = 0
         /\ tx'[s].op \in DOMAIN Verdict => tx'[s].id # 0
  <2>1. tx'[t].op = "issueChallan" /\ "issueChallan" \notin SettleOps /\ "issueChallan" \notin DOMAIN Verdict
    BY <1>1, <1>2, Zeros DEF SettleOps
  <2>2. ASSUME NEW s \in Txs \ {t}, tx[s].op \in SettleOps
        PROVE  tx'[s].link = 0 \/ fine'[tx'[s].link].cid = tx'[s].id
    <3>1. tx'[s] = tx[s] /\ tx[s].link \in FineRows \cup {0}
      BY <1>1, <2>2, LinkFacts
    <3>2. tx[s].link # r /\ (tx[s].link = 0 \/ fine[tx[s].link].cid = tx[s].id)
      BY <1>6, <2>2
    <3> QED
      BY <1>3, <3>1, <3>2
  <2>4. ASSUME NEW s \in Txs, s # t
        PROVE  /\ tx'[s].op \in SettleOps => tx'[s].link = 0 \/ fine'[tx'[s].link].cid = tx'[s].id
               /\ tx'[s].op = "adminCancelChallan" => tx'[s].link = 0
               /\ tx'[s].op \in DOMAIN Verdict => tx'[s].id # 0
    <3>1. tx'[s] = tx[s]
      BY <1>1, <2>4
    <3>2. tx'[s].op \in SettleOps => tx'[s].link = 0 \/ fine'[tx'[s].link].cid = tx'[s].id
      <4>1. CASE tx[s].op \in SettleOps
        BY <2>2, <2>4, <4>1
      <4>2. CASE tx[s].op \notin SettleOps
        BY <3>1, <4>2
      <4> QED
        BY <4>1, <4>2
    <3>3. tx[s].op = "adminCancelChallan" => tx[s].link = 0
      BY LinkParts
    <3>4. tx'[s].op = "adminCancelChallan" => tx'[s].link = 0
      BY <3>1, <3>3
    <3>5. tx[s].op \in DOMAIN Verdict => tx[s].id # 0
      BY LinkParts
    <3>6. tx'[s].op \in DOMAIN Verdict => tx'[s].id # 0
      BY <3>1, <3>5
    <3> QED
      BY <3>2, <3>4, <3>6
  <2>5. tx'[t].op # "adminCancelChallan" /\ tx'[t].op \notin SettleOps /\ tx'[t].op \notin DOMAIN Verdict
    BY <2>1
  <2> QED
    BY <2>4, <2>5
<1>8. /\ tx'[t].id # 0 <=> tx'[t].chain = "mined"
      /\ fine'[r] # NoFine /\ fine'[r].cid = 0
      /\ \A q \in Txs \ {t} : tx'[q].op = "issueChallan" => tx'[q].link # r
  <2>1. \A q \in Txs \ {t} : tx'[q].op = "issueChallan" => tx'[q].link # r
    BY <1>1, <1>3, Zeros DEF FineInv, LinkSound
  <2>2. tx'[t].id # 0 <=> tx'[t].chain = "mined"
    BY <1>1, <1>2 DEF FineInv, LinkSound
  <2> QED
    BY <1>3, <2>1, <2>2 DEF NoFine
<1>9. LinkSound'
  <2>1. /\ tx'[t].row = "absent" => tx'[t].link = 0
        /\ tx'[t].seen \in {0, tx'[t].link}
        /\ tx'[t].chain # "mined" => tx'[t].seen = 0
        /\ fine'[tx'[t].link] # NoFine /\ fine'[tx'[t].link].cid \in {0, tx'[t].id}
        /\ \A q \in Txs \ {t} : tx'[q].op = "issueChallan" => tx'[q].link # tx'[t].link
    BY <1>2, <1>8
  <2>2. \A s \in Txs \ {t} : tx'[s].op = tx[s].op
    BY <1>1
  <2> QED
    BY <1>5, <1>7, <1>8, <2>1, <2>2 DEF LinkSound
<1>10. ChainSound'
  BY <1>1, <1>2 DEF CreateChallanTx, StoreTx, FineInv, FineTypeOK, ChainSound
<1>11. PaySound' /\ FinesMatchChain' /\ RefsKept
  BY <1>3 DEF CreateChallanTx, FineInv, PaySound, FinesMatchChain, RefsKept, NoFine
<1> QED
  BY <1>4, <1>9, <1>10, <1>11 DEF FineInv

(* The chain: an issued challan gets its id, a settled one its verdict.     *)
LEMMA MinedTx ==
    ASSUME FineInv, NEW t \in Txs, NEW id \in Fines, Mined(t, id), tx[t].chain = "pool"
    PROVE  /\ tx'[t] = [tx[t] EXCEPT !.chain = "mined", !.event = "ready", !.id = id]
           /\ tx'[t].op = tx[t].op /\ tx'[t].link = tx[t].link /\ tx'[t].row = tx[t].row
           /\ tx'[t].chain = "mined" /\ tx'[t].id = id /\ tx'[t].seen = tx[t].seen
           /\ \A s \in Txs \ {t} : tx'[s] = tx[s]
           /\ tx' \in TxRows /\ sweep # t
<1>1. tx[t] \in FineTx
  BY Facts DEF TxRows
<1>2. /\ tx'[t] = [tx[t] EXCEPT !.chain = "mined", !.event = "ready", !.id = id]
      /\ \A s \in Txs \ {t} : tx'[s] = tx[s]
      /\ tx' = [s \in Txs |-> tx'[s]]
  BY Facts DEF Mined, TxRows
<1>3. /\ tx'[t].op = tx[t].op /\ tx'[t].link = tx[t].link /\ tx'[t].row = tx[t].row
      /\ tx'[t].chain = "mined" /\ tx'[t].id = id /\ tx'[t].seen = tx[t].seen /\ tx'[t] \in FineTx
  BY <1>1, <1>2 DEF FineTx
<1>4. tx' \in TxRows
  BY <1>2, <1>3, Facts DEF TxRows
<1>5. sweep # t
  BY Zeros DEF FineInv, ChainSound
<1> QED
  BY <1>2, <1>3, <1>4, <1>5

LEMMA MineIssueInv ==
    ASSUME FineInv, NEW t \in Txs, NEW c \in Fines, MineIssue(t, c)
    PROVE  FineInv' /\ RefsKept
<1>1. /\ tx[t].op = "issueChallan" /\ tx[t].chain = "pool" /\ Mined(t, c)
      /\ UNCHANGED <<fine, checkout, initiating, sweep, crashes, losses>>
      /\ challan[c] = "none" /\ challan' = [challan EXCEPT ![c] = "open"]
  BY DEF MineIssue, InPool, Mined
<1>2. FineTypeOK'
  BY <1>1, MinedTx DEF FineInv, FineTypeOK, TxRows
<1>3. tx[t].id = 0 /\ \A s \in Txs \ {t} : tx'[s] = tx[s]
  BY <1>1, MinedTx DEF FineInv, LinkSound
<1>4. LinkSound'
  <2>1. ASSUME NEW s \in Txs, s # t, tx[s].op = "issueChallan"
        PROVE  /\ tx'[s].id # 0 <=> tx'[s].chain = "mined"
               /\ tx'[s].row = "absent" => tx'[s].link = 0
               /\ tx'[s].seen \in {0, tx'[s].link}
               /\ tx'[s].chain # "mined" => tx'[s].seen = 0
               /\ tx'[s].link # 0 =>
                    /\ fine'[tx'[s].link] # NoFine
                    /\ fine'[tx'[s].link].cid \in {0, tx'[s].id}
                    /\ \A q \in Txs \ {s} : tx'[q].op = "issueChallan" => tx'[q].link # tx'[s].link
    <3>1. tx'[s] = tx[s] /\ UNCHANGED fine
      BY <1>1, <1>3, <2>1
    <3>2. \A q \in Txs : tx'[q].op = tx[q].op /\ tx'[q].link = tx[q].link
      BY <1>1, <1>3, MinedTx
    <3> QED
      BY <2>1, <3>1, <3>2, IssueParts
  <2>2. /\ tx'[t].id # 0 /\ tx'[t].chain = "mined"
        /\ tx'[t].row = "absent" => tx'[t].link = 0
        /\ tx'[t].seen \in {0, tx'[t].link}
        /\ tx'[t].chain # "mined" => tx'[t].seen = 0
        /\ tx'[t].link # 0 =>
             /\ fine'[tx'[t].link] # NoFine
             /\ fine'[tx'[t].link].cid \in {0, tx'[t].id}
             /\ \A q \in Txs \ {t} : tx'[q].op = "issueChallan" => tx'[q].link # tx'[t].link
    <3>1. /\ tx'[t].id = c /\ c # 0 /\ tx'[t].chain = "mined" /\ UNCHANGED fine
          /\ tx'[t].link = tx[t].link /\ tx'[t].row = tx[t].row /\ tx'[t].seen = tx[t].seen
      BY <1>1, MinedTx, Zeros
    <3>2. /\ tx[t].row = "absent" => tx[t].link = 0
          /\ tx[t].seen \in {0, tx[t].link}
          /\ tx[t].chain # "mined" => tx[t].seen = 0
          /\ tx[t].link # 0 => fine[tx[t].link] # NoFine /\ fine[tx[t].link].cid = 0
      BY <1>1, <1>3, IssueParts
    <3>3. ASSUME tx[t].link # 0, NEW q \in Txs \ {t}, tx'[q].op = "issueChallan"
          PROVE  tx'[q].link # tx[t].link
      BY <1>1, <1>3, <3>3, IssueParts
    <3> QED
      BY <3>1, <3>2, <3>3
  <2>3. tx'[t].op = "issueChallan" /\ "issueChallan" \notin SettleOps /\ "issueChallan" \notin DOMAIN Verdict
    BY <1>1, MinedTx, Zeros DEF SettleOps
  <2>4. \A s \in Txs \ {t} :
           /\ tx'[s].op \in SettleOps => tx'[s].link = 0 \/ fine'[tx'[s].link].cid = tx'[s].id
           /\ tx'[s].op = "adminCancelChallan" => tx'[s].link = 0
           /\ tx'[s].op \in DOMAIN Verdict => tx'[s].id # 0
    BY <1>1, <1>3 DEF FineInv, LinkSound
  <2> QED
    BY <1>3, <2>1, <2>2, <2>3, <2>4 DEF LinkSound
<1>5. ChainSound'
  <2>1. ASSUME NEW s \in Txs \ {t}, tx[s].chain = "mined", tx[s].op \in DOMAIN Verdict
        PROVE  challan'[tx[s].id] = Verdict[tx[s].op]
    <3>1. challan[tx[s].id] = Verdict[tx[s].op]
      BY <2>1 DEF FineInv, ChainSound
    <3>2. tx[s].id # c
      BY <1>1, <2>1, <3>1, Zeros
    <3>3. tx[s].id \in Fines
      BY <2>1, Facts, Zeros DEF FineInv, LinkSound, TxRows, FineTx
    <3> QED
      BY <1>1, <3>1, <3>2, <3>3 DEF FineInv, FineTypeOK
  <2>2. tx'[t].op \notin DOMAIN Verdict /\ tx'[t].chain = "mined"
    BY <1>1, MinedTx, Zeros
  <2>3. sweep' # 0 => tx'[sweep'].chain = "reverted"
    BY <1>1, <1>3, MinedTx DEF FineInv, ChainSound, FineTypeOK
  <2> QED
    BY <1>3, <2>1, <2>2, <2>3 DEF FineInv, ChainSound
<1>6. PaySound' /\ RefsKept
  BY <1>1 DEF FineInv, PaySound, RefsKept
<1>7. FinesMatchChain'
  BY <1>1, Facts DEF FineInv, FinesMatchChain, FineTypeOK, FineTable
<1> QED
  BY <1>2, <1>4, <1>5, <1>6, <1>7 DEF FineInv

LEMMA MineSettleInv ==
    ASSUME FineInv, NEW t \in Txs, MineSettle(t)
    PROVE  FineInv' /\ RefsKept
<1> DEFINE c == tx[t].id
<1>1. /\ tx[t].op \in DOMAIN Verdict /\ tx[t].chain = "pool" /\ Mined(t, c)
      /\ UNCHANGED <<fine, checkout, initiating, sweep, crashes, losses>>
      /\ challan[c] = "open" /\ challan' = [challan EXCEPT ![c] = Verdict[tx[t].op]]
  BY DEF MineSettle, Accepted, Mined
<1>2. c \in Fines
  BY <1>1, Facts, Zeros DEF FineInv, LinkSound, TxRows, FineTx
<1>3. Verdict[tx[t].op] \in {"paid", "cancelled"}
  BY <1>1, Zeros
<1>4. FineTypeOK'
  BY <1>1, <1>2, <1>3, MinedTx DEF FineInv, FineTypeOK, TxRows
<1>5. \A s \in Txs : /\ tx'[s].op = tx[s].op /\ tx'[s].id = tx[s].id /\ tx'[s].link = tx[s].link
                     /\ tx'[s].row = tx[s].row /\ tx'[s].seen = tx[s].seen
                     /\ s # t => tx'[s] = tx[s]
  <2>1. /\ tx'[t].op = tx[t].op /\ tx'[t].id = tx[t].id /\ tx'[t].link = tx[t].link
        /\ tx'[t].row = tx[t].row /\ tx'[t].seen = tx[t].seen
        /\ \A s \in Txs \ {t} : tx'[s] = tx[s]
    <3> HIDE DEF c
    <3>1. c = tx[t].id
      BY DEF c
    <3> QED
      BY <1>1, <1>2, <3>1, MinedTx
  <2> QED
    BY <2>1
<1>6. tx[t].op # "issueChallan"
  BY <1>1, Zeros
<1>7. LinkSound'
  <2>1. ASSUME NEW s \in Txs, tx[s].op = "issueChallan"
        PROVE  /\ tx'[s].id # 0 <=> tx'[s].chain = "mined"
               /\ tx'[s].row = "absent" => tx'[s].link = 0
               /\ tx'[s].seen \in {0, tx'[s].link}
               /\ tx'[s].chain # "mined" => tx'[s].seen = 0
               /\ tx'[s].link # 0 =>
                    /\ fine'[tx'[s].link] # NoFine
                    /\ fine'[tx'[s].link].cid \in {0, tx'[s].id}
                    /\ \A q \in Txs \ {s} : tx'[q].op = "issueChallan" => tx'[q].link # tx'[s].link
    BY <1>1, <1>5, <1>6, <2>1 DEF FineInv, LinkSound
  <2>2. \A s \in Txs :
           /\ tx'[s].op \in SettleOps => tx'[s].link = 0 \/ fine'[tx'[s].link].cid = tx'[s].id
           /\ tx'[s].op = "adminCancelChallan" => tx'[s].link = 0
           /\ tx'[s].op \in DOMAIN Verdict => tx'[s].id # 0
    BY <1>1, <1>5 DEF FineInv, LinkSound
  <2> QED
    BY <1>5, <2>1, <2>2 DEF LinkSound
<1>8. ChainSound'
  <2>1. ASSUME NEW s \in Txs \ {t}, tx[s].chain = "mined", tx[s].op \in DOMAIN Verdict
        PROVE  challan'[tx[s].id] = Verdict[tx[s].op]
    <3>1. challan[tx[s].id] = Verdict[tx[s].op]
      BY <2>1 DEF FineInv, ChainSound
    <3>2. tx[s].id # c
      BY <1>1, <2>1, <3>1, Zeros
    <3>3. tx[s].id \in Fines
      BY <2>1, Facts, Zeros DEF FineInv, LinkSound, TxRows, FineTx
    <3> QED
      BY <1>1, <3>1, <3>2, <3>3 DEF FineInv, FineTypeOK
  <2>2. tx'[t].chain = "mined" /\ challan'[tx'[t].id] = Verdict[tx'[t].op]
    BY <1>1, <1>2, <1>5, MinedTx DEF FineInv, FineTypeOK
  <2>3. sweep' # 0 => tx'[sweep'].chain = "reverted"
    BY <1>1, <1>2, <1>5, MinedTx DEF FineInv, ChainSound, FineTypeOK
  <2> QED
    BY <1>5, <2>1, <2>2, <2>3 DEF FineInv, ChainSound
<1>9. PaySound' /\ RefsKept
  BY <1>1 DEF FineInv, PaySound, RefsKept
<1>10. FinesMatchChain'
  BY <1>1, <1>2, Facts DEF FineInv, FinesMatchChain, FineTypeOK, FineTable
<1> QED
  BY <1>4, <1>7, <1>8, <1>9, <1>10 DEF FineInv

LEMMA RevertInv ==
    ASSUME FineInv, NEW t \in Txs, FineReverts(t)
    PROVE  FineInv' /\ RefsKept
<1>1. /\ tx[t].chain = "pool" /\ tx' = [tx EXCEPT ![t].chain = "reverted"]
      /\ UNCHANGED <<challan, fine, checkout, initiating, sweep, crashes, losses>>
  BY DEF FineReverts, TxReverts
<1>2. /\ tx' \in TxRows /\ tx'[t].chain = "reverted"
      /\ \A s \in Txs : /\ tx'[s].op = tx[s].op /\ tx'[s].id = tx[s].id /\ tx'[s].link = tx[s].link
                        /\ tx'[s].row = tx[s].row /\ tx'[s].seen = tx[s].seen
                        /\ tx'[s].event = tx[s].event
                        /\ s # t => tx'[s].chain = tx[s].chain
  BY <1>1, Facts DEF TxRows, FineTx
<1>3. FineTypeOK'
  BY <1>1, <1>2 DEF FineInv, FineTypeOK, TxRows
<1>4. LinkSound'
  BY <1>1, <1>2 DEF FineInv, LinkSound
<1>5. ChainSound'
  BY <1>1, <1>2 DEF FineInv, FineTypeOK, ChainSound
<1>6. PaySound' /\ FinesMatchChain' /\ RefsKept
  BY <1>1 DEF FineInv, PaySound, FinesMatchChain, RefsKept
<1> QED
  BY <1>3, <1>4, <1>5, <1>6 DEF FineInv

-----------------------------------------------------------------------------
(* THEOREMS                                                                 *)

(* Every step keeps the invariant, and every reference of a payment.        *)
LEMMA FineNextInv == FineInv /\ [FineNext]_fineVars => FineInv' /\ RefsKept
<1> SUFFICES ASSUME FineInv, [FineNext]_fineVars PROVE FineInv' /\ RefsKept
  OBVIOUS
<1>1. ASSUME NEW t \in Txs, FineStore(t) PROVE FineInv' /\ RefsKept
  BY <1>1, StoreInv, CreateChallanInv DEF FineStore
<1>2. ASSUME NEW t \in Txs, FineMine(t) PROVE FineInv' /\ RefsKept
  BY <1>2, MineIssueInv, MineSettleInv, RevertInv DEF FineMine
<1>3. ASSUME NEW t \in Txs, RelayStep(t), UNCHANGED <<challan, fine, checkout, initiating>>
      PROVE  FineInv' /\ RefsKept
  BY <1>3, StoreInv
<1>4. CASE UNCHANGED fineVars
  <2>1. UNCHANGED relayVars /\ UNCHANGED <<challan, fine, checkout, initiating>>
    BY <1>4 DEF fineVars
  <2> QED
    BY <2>1, UnchangedSteady, SameRows, SamePayment, SteadyInv
<1> QED
  BY <1>1, <1>2, <1>3, <1>4, RequestInv, HandleInv, ReplayInv, RollBackInv, PaymentInv, CrashInv
     DEF FineNext

(* However requests, webhooks, handlers, replays, roll-backs and crashes    *)
(* interleave, no fine is shown settled that is not settled that very way   *)
(* on chain.                                                                *)
THEOREM FinesMatchChainAlways == FineSpec => []FinesMatchChain
<1>1. FineInv /\ [FineNext]_fineVars => FineInv'
  BY FineNextInv
<1>2. FineInv => FinesMatchChain
  BY DEF FineInv
<1> QED
  BY FineInitInv, <1>1, <1>2, PTL DEF FineSpec

(* The reference of a collected payment is never lost, whatever is rolled   *)
(* back or deleted.                                                         *)
THEOREM PaymentKeptAlways == FineSpec => PaymentKept
<1>1. FineInv /\ [FineNext]_fineVars => FineInv' /\ [\A r \in FineRows : fine[r].ref # 0 => fine'[r].ref # 0]_fineVars
  BY FineNextInv DEF RefsKept
<1> QED
  BY FineInitInv, <1>1, PTL DEF FineSpec, PaymentKept
=============================================================================
