----------------------------- MODULE Mirrors_proofs -----------------------------
(***************************************************************************)
(* Proofs about the mirrors of trade certificates, of the vehicle and its   *)
(* title, of documents and of loans, for any number of transactions, rows,  *)
(* crashes and lost events. They share what Relay does to transactions.     *)
(***************************************************************************)
EXTENDS TradeCertMirror, TitleMirror, DocumentMirror, LoanMirror, FiniteSetTheorems, TLAPS

-----------------------------------------------------------------------------
(* THE INVARIANTS                                                           *)

(* Events are of mined transactions.                                        *)
EventsSound == \A t \in Txs : tx[t].event # "none" => tx[t].chain = "mined"

(* The sweep rolls back what reverted.                                      *)
SweepSound == sweep # 0 => tx[sweep].chain = "reverted"

(* A certificate that was issued, or may be revoked, has been issued.       *)
CertSound ==
    /\ \A t \in Txs : \/ tx[t].op = "issueTradeCert" /\ tx[t].chain = "mined"
                      \/ tx[t].op = "revokeTradeCert"
                      => permit.issued > 0
    /\ permit.active => permit.issued > 0

CertInv == CertTypeOK /\ EventsSound /\ CertSound /\ CertNotAhead

(* What was mined has happened to the vehicle, and so has what an event     *)
(* says; only a vehicle with an owner is to be scrapped.                    *)
MinedTitle(t) ==
    /\ tx[t].op = "scrapVehicle" => car.owner > 0
    /\ tx[t].chain = "mined" =>
         /\ tx[t].op = "manufacture" => car.status # "none"
         /\ tx[t].op = "assignToDealer" => car.dealer
         /\ tx[t].op = "register" => car.owner > 0
         /\ tx[t].op = "scrapVehicle" => car.status = "SCRAPPED"

EchoSound(e) ==
    /\ e.ev = "StatusChange" => /\ e.to \in {"ACTIVE", "SCRAPPED"} /\ car.owner > 0
                                /\ e.to = "SCRAPPED" => car.status = "SCRAPPED"
    /\ e.ev = "RtoOK" => deed[e.q] = "done"
    /\ e.ev = "XferCancelled" => deed[e.q] = "cancelled"
    /\ e.ev = "XferDone" => e.owner <= car.owner

TitleSound ==
    /\ \A t \in Txs : MinedTitle(t)
    /\ \A e \in echo : EchoSound(e)
    /\ \A q \in Transfers : deed[q] # "none" => car.owner > 0
    /\ car.owner > 0 <=> car.status \in {"ACTIVE", "SCRAPPED"}

TitleInv == TitleTypeOK /\ EventsSound /\ TitleSound /\ TitleNotAhead

(* Only the documents the vehicle's pointers name are valid, and none once  *)
(* it is scrapped; a termination is of a document that was.                 *)
PapersSound ==
    /\ \A d \in Docs : paper[d].valid =>
         paper[d].kind \in Kinds /\ current[paper[d].kind] = d /\ ~scrapped
    /\ \A d \in ending : paper[d].kind # "none" /\ scrapped

(* A row is linked to one transaction that issues it, and has no id but its  *)
(* own, unless a termination took it for another's.                         *)
IssueSound(t) ==
    /\ tx[t].id # 0 <=> tx[t].chain = "mined"
    /\ tx[t].row = "absent" => tx[t].link = 0
    /\ tx[t].seen \in {0, tx[t].link}
    /\ tx[t].chain # "mined" => tx[t].seen = 0
    /\ tx[t].link # 0 =>
         /\ doc[tx[t].link].status # "absent"
         /\ scrapped \/ doc[tx[t].link].did \in {0, tx[t].id}
         /\ \A s \in Txs \ {t} : tx[s].op \in DOMAIN Issues => tx[s].link # tx[t].link

(* A later transaction names the id its row has.                            *)
LaterSound(t) ==
    /\ tx[t].id # 0
    /\ tx[t].link # 0 =>
         /\ doc[tx[t].link].did # 0
         /\ scrapped \/ doc[tx[t].link].did = tx[t].id
    /\ tx[t].op \in DOMAIN Expires /\ tx[t].chain = "mined" => ~paper[tx[t].id].valid

DocTxSound(t) ==
    /\ tx[t].id # 0 => paper[tx[t].id].kind # "none"
    /\ tx[t].op \in DOMAIN Issues => IssueSound(t)
    /\ tx[t].op \in DOMAIN Expires \cup {"fileClaim"} => LaterSound(t)

DocLinks ==
    /\ \A t \in Txs : DocTxSound(t)
    /\ \A r \in DocRows : doc[r].did # 0 => paper[doc[r].did].kind # "none"

(* DocTypeOK but for the claims of a row, which roll-backs take down: how    *)
(* far, ClaimsCounted says below.                                           *)
DocShapes ==
    /\ tx \in [Txs -> DocTx]
    /\ sweep \in Txs \cup {0} /\ crashes \in 0 .. MaxCrashes /\ losses \in 0 .. MaxLosses
    /\ paper \in [Docs -> [kind : Kinds \cup {"none"}, valid : BOOLEAN, passed : BOOLEAN,
                           past : BOOLEAN, claims : 0 .. ClaimCap]]
    /\ current \in [Kinds -> Docs \cup {0}]
    /\ ending \subseteq Docs /\ scrapped \in BOOLEAN
    /\ doc \in [DocRows -> [kind : Kinds \cup {"none"},
                            status : {"absent", "deleted", "ACTIVE", "EXPIRED", "CANCELLED"},
                            did : Docs \cup {0}, passed : BOOLEAN, past : BOOLEAN,
                            claims : Int]]

DocInv ==
    DocShapes /\ EventsSound /\ SweepSound /\ PapersSound /\ DocLinks /\ DocumentsMatchChain

Made(l) == l # 0 /\ loan[l].state # "none"
Closed(l) == l # 0 /\ loan[l].state = "closed"
Standing(r) == record[r].status \notin {"absent", "deleted"}

OneLien == \A l, m \in LoanIds : loan[l].state = "active" /\ loan[m].state = "active" => l = m

(* A row is linked to one transaction that registers it, and has no id but   *)
(* that loan's.                                                             *)
RegSound(t) ==
    /\ tx[t].id # 0 => tx[t].chain = "mined"
    /\ tx[t].event = "read" => tx[t].id # 0
    /\ tx[t].row = "absent" => tx[t].link = 0
    /\ tx[t].chain # "mined" => tx[t].seen = 0
    /\ tx[t].seen # 0 => tx[t].seen = tx[t].link \/ record[tx[t].seen].status = "deleted"
    /\ tx[t].link # 0 =>
         /\ record[tx[t].link].lid \in {0, tx[t].id}
         /\ \A s \in Txs \ {t} : tx[s].op = "registerLoan" => tx[s].link # tx[t].link

(* A NOC or a refinancing closed the loan it met, and with it every loan     *)
(* before: that of the row it was asked for, too.                           *)
ClearSound(t) ==
    /\ tx[t].id # 0 => Closed(tx[t].id)
    /\ tx[t].chain = "mined" => tx[t].id # 0
    /\ tx[t].link # 0 =>
         /\ Made(record[tx[t].link].lid)
         /\ tx[t].chain = "mined" => Closed(record[tx[t].link].lid)
    /\ tx[t].op = "refinanceLoan" /\ tx[t].chain = "mined" =>
         /\ Made(reg[t].new)
         /\ tx[t].link # 0 => record[tx[t].link].lid # reg[t].new

LoanTxSound(t) ==
    /\ tx[t].id # 0 => Made(tx[t].id)
    /\ tx[t].link # 0 => Standing(tx[t].link)
    /\ reg[t].due => Made(reg[t].new)
    /\ tx[t].op = "registerLoan" => RegSound(t)
    /\ tx[t].op \in {"issueNOC", "refinanceLoan"} => ClearSound(t)
    /\ tx[t].op = "approveTransfer" => tx[t].id # 0

LoanLinks ==
    /\ \A t \in Txs : LoanTxSound(t)
    /\ \A r \in LoanRows : record[r].lid # 0 => Made(record[r].lid) /\ Standing(r)

LoanInv == LenderTypeOK /\ EventsSound /\ OneLien /\ LoanLinks /\ LoansMatchChain

-----------------------------------------------------------------------------
(* STEPS OF RELAY                                                           *)

(* The transactions of a mirror: functions, ids, accounts, links, links     *)
(* read.                                                                    *)
TxOf(O, I, B, L, S) ==
    [op : O, id : I, by : B, link : L, chain : {"unsent", "pool", "mined", "reverted"},
     call : {"idle", "sent"}, row : {"absent", "PENDING", "MINED", "FAILED"},
     event : {"none", "ready", "read", "applied", "handled", "lost"}, seen : S]

(* What a step that submits, links and mines nothing may do to the others:  *)
(* links to rows that go vanish, and so does that of a row finalizeTx makes. *)
RelayedTx(s, gone) ==
    /\ tx'[s].op = tx[s].op /\ tx'[s].id = tx[s].id /\ tx'[s].by = tx[s].by
    /\ tx'[s].chain = "mined" <=> tx[s].chain = "mined"
    /\ tx[s].chain = "reverted" => tx'[s].chain = "reverted"
    /\ tx'[s].event # "none" => tx[s].event # "none"
    /\ \/ tx'[s].link = tx[s].link
       \/ tx'[s].link = 0 /\ (tx[s].row = "absent" \/ tx[s].link \in gone)
    /\ tx'[s].link # 0 => tx'[s].link \notin gone
    /\ tx'[s].row = "absent" => tx[s].row = "absent" \/ tx'[s].link = 0
    /\ tx'[s].seen = tx[s].seen \/ (tx[s].event # "none" /\ tx'[s].seen = tx[s].link)

Relayed(gone) == \A s \in Txs : RelayedTx(s, gone)

RelayCounters ==
    sweep \in Txs \cup {0} /\ crashes \in 0 .. MaxCrashes /\ losses \in 0 .. MaxLosses

SweepMoves == sweep' # 0 => sweep' = sweep \/ tx[sweep'].chain = "reverted"

(* One transaction changes, in the fields named.                            *)
LEMMA OneTx ==
    ASSUME NEW T, tx \in [Txs -> T], NEW t \in Txs, NEW x \in T, tx' = [tx EXCEPT ![t] = x]
    PROVE  tx' \in [Txs -> T] /\ tx'[t] = x /\ \A s \in Txs \ {t} : tx'[s] = tx[s]
OBVIOUS

(* What such a step may make of its own transaction.                        *)
Fits(t, x) ==
    /\ x.op = tx[t].op /\ x.id = tx[t].id /\ x.by = tx[t].by
    /\ x.chain = "mined" <=> tx[t].chain = "mined"
    /\ tx[t].chain = "reverted" => x.chain = "reverted"
    /\ x.event # "none" => tx[t].event # "none"
    /\ x.link = tx[t].link \/ (x.link = 0 /\ tx[t].row = "absent")
    /\ x.row = "absent" => tx[t].row = "absent"
    /\ x.seen = tx[t].seen \/ (tx[t].event # "none" /\ x.seen = tx[t].link)

LEMMA OneRelayed ==
    ASSUME NEW T, tx \in [Txs -> T], NEW t \in Txs, NEW x \in T, tx' = [tx EXCEPT ![t] = x],
           Fits(t, x)
    PROVE  tx' \in [Txs -> T] /\ Relayed({})
BY OneTx DEF Relayed, RelayedTx, Fits

(* The steps of a handler, of the sweep, of a request that stores what it    *)
(* was to, of a transaction that reverts.                                   *)
LEMMA RelaySteps ==
    ASSUME NEW O, NEW I, NEW B, NEW L, NEW S, 0 \in L,
           tx \in [Txs -> TxOf(O, I, B, L, S)], RelayCounters, NEW t \in Txs,
           \/ tx[t].event # "none" /\ (AppliedBy(t) \/ Swallowed(t) \/ (ReadBy(t) /\ L \subseteq S))
           \/ Replayed(t) \/ StoreTx(t, tx[t].link) \/ TxReverts(t) \/ RelayStep(t)
    PROVE  tx' \in [Txs -> TxOf(O, I, B, L, S)] /\ Relayed({}) /\ RelayCounters' /\ SweepMoves
<1>1. tx[t] \in TxOf(O, I, B, L, S)
  OBVIOUS
<1>2. CASE (AppliedBy(t) \/ Swallowed(t)) /\ tx[t].event # "none"
  <2>1. PICK event \in {"applied", "lost"} : tx' = [tx EXCEPT ![t].event = event]
    BY <1>2 DEF AppliedBy, Swallowed
  <2>2. PICK x : x = [tx[t] EXCEPT !.event = event]
    OBVIOUS
  <2>3. x \in TxOf(O, I, B, L, S) /\ tx' = [tx EXCEPT ![t] = x] /\ Fits(t, x)
    BY <1>1, <1>2, <2>1, <2>2 DEF TxOf, Fits
  <2>4. tx' \in [Txs -> TxOf(O, I, B, L, S)] /\ Relayed({})
    BY <2>3, OneRelayed
  <2> QED
    BY <1>2, <2>4 DEF AppliedBy, Swallowed, RelayCounters, SweepMoves
<1>3. CASE ReadBy(t) /\ tx[t].event # "none" /\ L \subseteq S
  <2>1. PICK x : x = [tx[t] EXCEPT !.event = "read", !.seen = tx[t].link]
    OBVIOUS
  <2>2. x \in TxOf(O, I, B, L, S) /\ tx' = [tx EXCEPT ![t] = x] /\ Fits(t, x)
    BY <1>1, <1>3, <2>1 DEF TxOf, ReadBy, Fits
  <2>3. tx' \in [Txs -> TxOf(O, I, B, L, S)] /\ Relayed({})
    BY <2>2, OneRelayed
  <2> QED
    BY <1>3, <2>3 DEF ReadBy, RelayCounters, SweepMoves
<1>4. CASE Replayed(t)
  <2>1. PICK x : x = [tx[t] EXCEPT !.row = "MINED"]
    OBVIOUS
  <2>2. x \in TxOf(O, I, B, L, S) /\ tx' = [tx EXCEPT ![t] = x] /\ Fits(t, x)
    BY <1>1, <1>4, <2>1 DEF TxOf, Replayed, Fits
  <2>3. tx' \in [Txs -> TxOf(O, I, B, L, S)] /\ Relayed({})
    BY <2>2, OneRelayed
  <2> QED
    BY <1>4, <2>3 DEF Replayed, RelayCounters, SweepMoves
<1>5. CASE StoreTx(t, tx[t].link)
  <2>1. PICK x : x = [tx[t] EXCEPT !.call = "idle", !.row = "PENDING", !.link = tx[t].link]
    OBVIOUS
  <2>2. x \in TxOf(O, I, B, L, S) /\ tx' = [tx EXCEPT ![t] = x] /\ Fits(t, x)
    BY <1>1, <1>5, <2>1 DEF TxOf, StoreTx, Fits
  <2>3. tx' \in [Txs -> TxOf(O, I, B, L, S)] /\ Relayed({})
    BY <2>2, OneRelayed
  <2> QED
    BY <1>5, <2>3 DEF StoreTx, RelayCounters, SweepMoves
<1>6. CASE TxReverts(t)
  <2>1. PICK x : x = [tx[t] EXCEPT !.chain = "reverted"]
    OBVIOUS
  <2>2. x \in TxOf(O, I, B, L, S) /\ tx' = [tx EXCEPT ![t] = x] /\ Fits(t, x)
    BY <1>1, <1>6, <2>1 DEF TxOf, TxReverts, Fits
  <2>3. tx' \in [Txs -> TxOf(O, I, B, L, S)] /\ Relayed({})
    BY <2>2, OneRelayed
  <2> QED
    BY <1>6, <2>3 DEF TxReverts, RelayCounters, SweepMoves
<1>7. CASE StoreRefused(t)
  <2>1. PICK x : x = [tx[t] EXCEPT !.call = "idle"]
    OBVIOUS
  <2>2. x \in TxOf(O, I, B, L, S) /\ tx' = [tx EXCEPT ![t] = x] /\ Fits(t, x)
    BY <1>1, <1>7, <2>1 DEF TxOf, StoreRefused, Fits
  <2>3. tx' \in [Txs -> TxOf(O, I, B, L, S)] /\ Relayed({})
    BY <2>2, OneRelayed
  <2> QED
    BY <1>7, <2>3 DEF StoreRefused, RelayCounters, SweepMoves
<1>8. CASE FinalizeTx(t)
  <2>1. PICK x : x = [tx[t] EXCEPT !.event = "handled", !.row = "MINED",
                                   !.link = IF tx[t].row = "absent" THEN 0 ELSE tx[t].link]
    OBVIOUS
  <2>2. x \in TxOf(O, I, B, L, S) /\ tx' = [tx EXCEPT ![t] = x] /\ Fits(t, x)
    BY <1>1, <1>8, <2>1 DEF TxOf, FinalizeTx, Fits
  <2>3. tx' \in [Txs -> TxOf(O, I, B, L, S)] /\ Relayed({})
    BY <2>2, OneRelayed
  <2> QED
    BY <1>8, <2>3 DEF FinalizeTx, RelayCounters, SweepMoves
<1>9. CASE LoseEvent(t)
  <2>1. PICK x : x = [tx[t] EXCEPT !.event = "lost"]
    OBVIOUS
  <2>2. x \in TxOf(O, I, B, L, S) /\ tx' = [tx EXCEPT ![t] = x] /\ Fits(t, x)
    BY <1>1, <1>9, <2>1 DEF TxOf, LoseEvent, Fits
  <2>3. tx' \in [Txs -> TxOf(O, I, B, L, S)] /\ Relayed({})
    BY <2>2, OneRelayed
  <2> QED
    BY <1>9, <2>3, RelayAssumption DEF LoseEvent, RelayCounters, SweepMoves
<1>10. CASE SweepReverted(t)
  <2>1. PICK x : x = [tx[t] EXCEPT !.row = "FAILED"]
    OBVIOUS
  <2>2. x \in TxOf(O, I, B, L, S) /\ tx' = [tx EXCEPT ![t] = x] /\ Fits(t, x)
    BY <1>1, <1>10, <2>1 DEF TxOf, SweepReverted, Fits
  <2>3. tx' \in [Txs -> TxOf(O, I, B, L, S)] /\ Relayed({})
    BY <2>2, OneRelayed
  <2> QED
    BY <1>10, <2>3 DEF SweepReverted, FoundReverted, RelayCounters, SweepMoves
<1> QED
  BY <1>2, <1>3, <1>4, <1>5, <1>6, <1>7, <1>8, <1>9, <1>10 DEF RelayStep

(* A roll-back that leaves the transactions alone, and a step without one   *)
LEMMA NoTxStep ==
    ASSUME NEW T, tx \in [Txs -> T], RelayCounters,
           RolledBack \/ UNCHANGED relayVars
    PROVE  tx' \in [Txs -> T] /\ Relayed({}) /\ RelayCounters' /\ SweepMoves
BY DEF RolledBack, relayVars, Relayed, RelayedTx, RelayCounters, SweepMoves

(* The process stops and starts again.                                      *)
LEMMA CrashStep ==
    ASSUME NEW O, NEW I, NEW B, NEW L, NEW S,
           tx \in [Txs -> TxOf(O, I, B, L, S)], RelayCounters, Crash
    PROVE  tx' \in [Txs -> TxOf(O, I, B, L, S)] /\ Relayed({}) /\ RelayCounters' /\ SweepMoves
<1>1. PICK again : /\ again \subseteq {t \in Txs : tx[t].event = "handled"}
                   /\ tx' = [t \in Txs |->
                        [tx[t] EXCEPT !.call = "idle",
                                      !.event = IF @ \in {"read", "applied"} \/ t \in again
                                                THEN "ready" ELSE @]]
  BY DEF Crash
<1>2. ASSUME NEW s \in Txs
      PROVE  /\ tx'[s] \in TxOf(O, I, B, L, S)
             /\ tx'[s].op = tx[s].op /\ tx'[s].id = tx[s].id /\ tx'[s].by = tx[s].by
             /\ tx'[s].chain = tx[s].chain /\ tx'[s].link = tx[s].link
             /\ tx'[s].row = tx[s].row /\ tx'[s].seen = tx[s].seen
             /\ tx'[s].event # "none" => tx[s].event # "none"
  <2>1. tx[s] \in TxOf(O, I, B, L, S)
    OBVIOUS
  <2>2. PICK event : /\ event \in {tx[s].event, "ready"} /\ (event # "none" => tx[s].event # "none")
                     /\ tx'[s] = [tx[s] EXCEPT !.call = "idle", !.event = event]
    BY <1>1, <2>1 DEF TxOf
  <2> QED
    BY <2>1, <2>2 DEF TxOf
<1>3. tx' \in [Txs -> TxOf(O, I, B, L, S)] /\ Relayed({})
  BY <1>1, <1>2 DEF Relayed, RelayedTx
<1>4. crashes < MaxCrashes /\ crashes' = crashes + 1 /\ sweep' = 0 /\ losses' = losses
  BY Zenon DEF Crash
<1> QED
  BY <1>3, <1>4, RelayAssumption DEF RelayCounters, SweepMoves

(* A deletion cascades.                                                     *)
LEMMA CascadedTx ==
    ASSUME NEW O, NEW I, NEW B, NEW L, NEW S, 0 \in L,
           tx \in [Txs -> TxOf(O, I, B, L, S)], NEW gone, NEW s \in Txs, NEW x, x = Cascaded(gone)[s]
    PROVE  /\ x \in TxOf(O, I, B, L, S)
           /\ x.op = tx[s].op /\ x.id = tx[s].id /\ x.by = tx[s].by
           /\ x.chain = tx[s].chain /\ x.event = tx[s].event /\ x.seen = tx[s].seen
           /\ \/ x.link = tx[s].link /\ x.row = tx[s].row /\ (tx[s].link # 0 => tx[s].link \notin gone)
              \/ x.link = 0 /\ tx[s].link \in gone
<1>1. tx[s] \in TxOf(O, I, B, L, S)
  OBVIOUS
<1>2. CASE tx[s].link # 0 /\ tx[s].link \in gone
  <2>1. x = [tx[s] EXCEPT !.row = "absent", !.link = 0, !.call = "idle"]
    BY <1>2 DEF Cascaded
  <2> QED
    BY <1>1, <1>2, <2>1 DEF TxOf
<1>3. CASE ~(tx[s].link # 0 /\ tx[s].link \in gone)
  <2>1. x = tx[s]
    BY <1>3 DEF Cascaded
  <2> QED
    BY <1>1, <1>3, <2>1
<1> QED
  BY <1>2, <1>3

LEMMA CascadeStep ==
    ASSUME NEW O, NEW I, NEW B, NEW L, NEW S, 0 \in L,
           tx \in [Txs -> TxOf(O, I, B, L, S)], NEW gone, tx' = Cascaded(gone)
    PROVE  tx' \in [Txs -> TxOf(O, I, B, L, S)] /\ Relayed(gone)
<1>1. \A s \in Txs : tx'[s] \in TxOf(O, I, B, L, S) /\ RelayedTx(s, gone)
  BY CascadedTx DEF RelayedTx
<1>2. tx' \in [Txs -> TxOf(O, I, B, L, S)]
  BY <1>1 DEF Cascaded
<1> QED
  BY <1>1, <1>2 DEF Relayed

(* A handler that deletes rows does so before it is done with its event.    *)
LEMMA CascadeHandled ==
    ASSUME NEW O, NEW I, NEW B, NEW L, NEW S, 0 \in L,
           tx \in [Txs -> TxOf(O, I, B, L, S)], NEW gone, NEW t \in Txs, tx[t].event # "none",
           tx' = [Cascaded(gone) EXCEPT ![t].event = "applied"]
    PROVE  tx' \in [Txs -> TxOf(O, I, B, L, S)] /\ Relayed(gone)
<1>1. PICK x : x = Cascaded(gone)[t]
  OBVIOUS
<1>2. PICK y : y = [x EXCEPT !.event = "applied"]
  OBVIOUS
<1>3. /\ x \in TxOf(O, I, B, L, S)
      /\ x.op = tx[t].op /\ x.id = tx[t].id /\ x.by = tx[t].by
      /\ x.chain = tx[t].chain /\ x.seen = tx[t].seen
      /\ \/ x.link = tx[t].link /\ x.row = tx[t].row /\ (tx[t].link # 0 => tx[t].link \notin gone)
         \/ x.link = 0 /\ tx[t].link \in gone
  BY <1>1, CascadedTx
<1>4. /\ y \in TxOf(O, I, B, L, S)
      /\ y.op = x.op /\ y.id = x.id /\ y.by = x.by /\ y.chain = x.chain /\ y.seen = x.seen
      /\ y.link = x.link /\ y.row = x.row
  BY <1>2, <1>3 DEF TxOf
<1>5. tx'[t] = y /\ \A s \in Txs \ {t} : tx'[s] = Cascaded(gone)[s]
  BY <1>1, <1>2 DEF Cascaded
<1>6. ASSUME NEW s \in Txs PROVE tx'[s] \in TxOf(O, I, B, L, S) /\ RelayedTx(s, gone)
  <2>1. CASE s = t
    BY <1>3, <1>4, <1>5, <2>1 DEF RelayedTx
  <2>2. CASE s # t
    BY <1>5, <2>2, CascadedTx DEF RelayedTx
  <2> QED
    BY <2>1, <2>2
<1>7. tx' \in [Txs -> TxOf(O, I, B, L, S)]
  BY <1>6 DEF Cascaded
<1> QED
  BY <1>6, <1>7 DEF Relayed

(* Events stay of mined transactions, and roll-backs of reverted ones.      *)
LEMMA RelayedSound ==
    ASSUME NEW gone, Relayed(gone), EventsSound
    PROVE  /\ EventsSound'
           /\ SweepSound /\ RelayCounters' /\ SweepMoves => SweepSound'
BY DEF Relayed, RelayedTx, EventsSound, SweepSound, RelayCounters, SweepMoves

(* None of these steps but ReadBy is a handler's reading.                   *)
LEMMA NoRead ==
    ASSUME NEW O, NEW I, NEW B, NEW L, NEW S, tx \in [Txs -> TxOf(O, I, B, L, S)],
           \/ \E t \in Txs : \/ AppliedBy(t) \/ Swallowed(t) \/ Replayed(t) \/ StoreTx(t, tx[t].link)
                            \/ TxReverts(t) \/ RelayStep(t)
           \/ RolledBack \/ UNCHANGED relayVars \/ Crash
    PROVE  \A s \in Txs : tx'[s].event = "read" => tx[s].event = "read"
<1>0. \A s \in Txs : tx[s] \in TxOf(O, I, B, L, S)
  OBVIOUS
<1>1. ASSUME NEW t \in Txs, AppliedBy(t) \/ Swallowed(t), NEW s \in Txs, tx'[s].event = "read"
      PROVE  tx[s].event = "read"
  <2>1. PICK event \in {"applied", "lost"} : tx' = [tx EXCEPT ![t].event = event]
    BY <1>1 DEF AppliedBy, Swallowed
  <2> QED
    BY <1>0, <1>1, <2>1 DEF TxOf
<1>2. ASSUME NEW t \in Txs, Replayed(t) \/ StoreTx(t, tx[t].link) \/ TxReverts(t), NEW s \in Txs
      PROVE  tx'[s].event = tx[s].event
  <2>1. CASE Replayed(t)
    BY <1>0, <2>1 DEF Replayed, TxOf
  <2>2. CASE StoreTx(t, tx[t].link)
    BY <1>0, <2>2 DEF StoreTx, TxOf
  <2>3. CASE TxReverts(t)
    BY <1>0, <2>3 DEF TxReverts, TxOf
  <2> QED
    BY <1>2, <2>1, <2>2, <2>3
<1>3. ASSUME NEW t \in Txs, RelayStep(t), NEW s \in Txs, tx'[s].event = "read"
      PROVE  tx[s].event = "read"
  <2>1. CASE StoreRefused(t)
    BY <1>0, <1>3, <2>1 DEF StoreRefused, TxOf
  <2>2. CASE FinalizeTx(t)
    BY <1>0, <1>3, <2>2 DEF FinalizeTx, TxOf
  <2>3. CASE LoseEvent(t)
    BY <1>0, <1>3, <2>3 DEF LoseEvent, TxOf
  <2>4. CASE SweepReverted(t)
    BY <1>0, <1>3, <2>4 DEF SweepReverted, TxOf
  <2> QED
    BY <1>3, <2>1, <2>2, <2>3, <2>4 DEF RelayStep
<1>4. CASE RolledBack \/ UNCHANGED relayVars
  BY <1>4 DEF RolledBack, relayVars
<1>5. CASE Crash
  <2>1. PICK again : tx' = [t \in Txs |->
                        [tx[t] EXCEPT !.call = "idle",
                                      !.event = IF @ \in {"read", "applied"} \/ t \in again
                                                THEN "ready" ELSE @]]
    BY <1>5 DEF Crash
  <2>2. ASSUME NEW s \in Txs, tx'[s].event = "read" PROVE tx[s].event = "read"
    <3>1. PICK event : /\ event = IF tx[s].event \in {"read", "applied"} \/ s \in again
                                  THEN "ready" ELSE tx[s].event
                       /\ tx'[s] = [tx[s] EXCEPT !.call = "idle", !.event = event]
      BY <2>1, <1>0 DEF TxOf
    <3>2. tx'[s].event = event
      BY <1>0, <3>1 DEF TxOf
    <3> QED
      BY <2>2, <3>1, <3>2
  <2> QED
    BY <2>2
<1> QED
  BY <1>1, <1>2, <1>3, <1>4, <1>5

(* A new transaction ...                                                    *)
LEMMA SubmitStep ==
    ASSUME NEW O, NEW I, NEW B, NEW L, NEW S, 0 \in S, tx \in [Txs -> TxOf(O, I, B, L, S)],
           RelayCounters, NEW t \in Txs, NEW op \in O, NEW id \in I, NEW by \in B, NEW link \in L,
           SubmitEntityTx(t, op, id, by, link)
    PROVE  /\ tx[t] = NoTx
           /\ tx'[t] = [op |-> op, id |-> id, by |-> by, link |-> link, chain |-> "pool",
                        call |-> "sent", row |-> "absent", event |-> "none", seen |-> 0]
           /\ \A s \in Txs \ {t} : tx'[s] = tx[s]
           /\ tx' \in [Txs -> TxOf(O, I, B, L, S)] /\ RelayCounters' /\ sweep' = sweep
<1>1. PICK x : x = [op |-> op, id |-> id, by |-> by, link |-> link, chain |-> "pool",
                    call |-> "sent", row |-> "absent", event |-> "none", seen |-> 0]
  OBVIOUS
<1>2. x \in TxOf(O, I, B, L, S)
  BY <1>1 DEF TxOf
<1> QED
  BY <1>1, <1>2, OneTx DEF SubmitEntityTx, NextTx, Submitted, RelayCounters

(* ... is mined ...                                                         *)
LEMMA MinedStep ==
    ASSUME NEW O, NEW I, NEW B, NEW L, NEW S, tx \in [Txs -> TxOf(O, I, B, L, S)],
           RelayCounters, NEW t \in Txs, NEW id \in I, Mined(t, id)
    PROVE  /\ tx'[t].op = tx[t].op /\ tx'[t].id = id /\ tx'[t].by = tx[t].by
           /\ tx'[t].link = tx[t].link /\ tx'[t].chain = "mined" /\ tx'[t].row = tx[t].row
           /\ tx'[t].event = "ready" /\ tx'[t].seen = tx[t].seen
           /\ \A s \in Txs \ {t} : tx'[s] = tx[s]
           /\ tx' \in [Txs -> TxOf(O, I, B, L, S)] /\ RelayCounters' /\ sweep' = sweep
<1>1. PICK x : x = [tx[t] EXCEPT !.chain = "mined", !.event = "ready", !.id = id]
  OBVIOUS
<1>2. tx[t] \in TxOf(O, I, B, L, S)
  OBVIOUS
<1>3. x \in TxOf(O, I, B, L, S) /\ tx' = [tx EXCEPT ![t] = x]
  BY <1>1, <1>2 DEF TxOf, Mined
<1>4. /\ x.op = tx[t].op /\ x.id = id /\ x.by = tx[t].by /\ x.link = tx[t].link
      /\ x.chain = "mined" /\ x.row = tx[t].row /\ x.event = "ready" /\ x.seen = tx[t].seen
  BY <1>1, <1>2 DEF TxOf
<1> QED
  BY <1>3, <1>4, OneTx DEF Mined, RelayCounters

(* ... and stored with the row it is linked to.                             *)
LEMMA StoreStep ==
    ASSUME NEW O, NEW I, NEW B, NEW L, NEW S, tx \in [Txs -> TxOf(O, I, B, L, S)],
           RelayCounters, NEW t \in Txs, NEW link \in L, StoreTx(t, link)
    PROVE  /\ tx[t].row = "absent"
           /\ tx'[t].op = tx[t].op /\ tx'[t].id = tx[t].id /\ tx'[t].by = tx[t].by
           /\ tx'[t].link = link /\ tx'[t].chain = tx[t].chain /\ tx'[t].row = "PENDING"
           /\ tx'[t].event = tx[t].event /\ tx'[t].seen = tx[t].seen
           /\ \A s \in Txs \ {t} : tx'[s] = tx[s]
           /\ tx' \in [Txs -> TxOf(O, I, B, L, S)] /\ RelayCounters' /\ sweep' = sweep
<1>1. PICK x : x = [tx[t] EXCEPT !.call = "idle", !.row = "PENDING", !.link = link]
  OBVIOUS
<1>2. tx[t] \in TxOf(O, I, B, L, S)
  OBVIOUS
<1>3. x \in TxOf(O, I, B, L, S) /\ tx' = [tx EXCEPT ![t] = x]
  BY <1>1, <1>2 DEF TxOf, StoreTx
<1>4. /\ x.op = tx[t].op /\ x.id = tx[t].id /\ x.by = tx[t].by /\ x.link = link
      /\ x.chain = tx[t].chain /\ x.row = "PENDING" /\ x.event = tx[t].event
      /\ x.seen = tx[t].seen
  BY <1>1, <1>2 DEF TxOf
<1> QED
  BY <1>3, <1>4, OneTx DEF StoreTx, RelayCounters
-----------------------------------------------------------------------------
(* TRADE CERTIFICATES                                                       *)

CertTxs == TxOf({"none", "issueTradeCert", "revokeTradeCert"}, {0}, {0}, {0, 1}, {0, 1})

LEMMA CertTyping == CertTx = CertTxs
BY DEF CertTx, CertTxs, TxOf

(* Requests, handlers and the sweep show a certificate only where one has   *)
(* been issued.                                                             *)
LEMMA CertSteady ==
    ASSUME CertInv, tx' \in [Txs -> CertTx], Relayed({}), RelayCounters', permit' = permit,
           cert' \in [made : BOOLEAN, active : BOOLEAN], cert'.active => permit.issued > 0
    PROVE  CertInv'
<1>1. EventsSound'
  BY RelayedSound DEF CertInv
<1>2. CertSound'
  BY DEF CertInv, CertSound, Relayed, RelayedTx
<1> QED
  BY <1>1, <1>2 DEF CertInv, CertTypeOK, RelayCounters, CertNotAhead

(* What a step of Relay does when it leaves the certificates' part alone.   *)
LEMMA CertRelay ==
    ASSUME CertInv,
           \/ \E t \in Txs :
                \/ tx[t].event # "none" /\ AppliedBy(t)
                \/ Replayed(t) \/ TxReverts(t) \/ RelayStep(t)
           \/ RolledBack \/ Crash
    PROVE  tx' \in [Txs -> CertTx] /\ Relayed({}) /\ RelayCounters'
<1>1. tx \in [Txs -> CertTxs] /\ RelayCounters
  BY CertTyping DEF CertInv, CertTypeOK, RelayCounters
<1>2. tx' \in [Txs -> CertTxs] /\ Relayed({}) /\ RelayCounters'
  BY <1>1, RelaySteps, NoTxStep, CrashStep DEF CertTxs
<1> QED
  BY <1>2, CertTyping

LEMMA CertRequestStep ==
    ASSUME CertInv, NEW t \in Txs, IssueTradeCert(t) \/ RevokeTradeCert(t)
    PROVE  CertInv'
<1>1. tx \in [Txs -> CertTxs] /\ RelayCounters
  BY CertTyping DEF CertInv, CertTypeOK, RelayCounters
<1>2. PICK op \in {"issueTradeCert", "revokeTradeCert"} :
        SubmitEntityTx(t, op, 0, 0, 1) /\ permit' = permit /\ cert' = cert /\ CertAccepts(op)
  BY DEF IssueTradeCert, RevokeTradeCert, certRest
<1>3. /\ tx'[t] = [op |-> op, id |-> 0, by |-> 0, link |-> 1, chain |-> "pool", call |-> "sent",
                   row |-> "absent", event |-> "none", seen |-> 0]
      /\ \A s \in Txs \ {t} : tx'[s] = tx[s]
      /\ tx' \in [Txs -> CertTxs] /\ RelayCounters'
  BY <1>1, <1>2, SubmitStep DEF CertTxs
<1>4. EventsSound'
  BY <1>3 DEF CertInv, EventsSound
<1>5. op = "revokeTradeCert" => permit.issued > 0
  BY <1>2 DEF CertInv, CertSound, CertAccepts
<1>6. CertSound'
  BY <1>2, <1>3, <1>5 DEF CertInv, CertSound
<1> QED
  BY <1>2, <1>3, <1>4, <1>6, CertTyping DEF CertInv, CertTypeOK, RelayCounters, CertNotAhead

LEMMA CertMineStep ==
    ASSUME CertInv, NEW t \in Txs, MineCert(t)
    PROVE  CertInv'
<1>1. tx \in [Txs -> CertTxs] /\ RelayCounters
  BY CertTyping DEF CertInv, CertTypeOK, RelayCounters
<1>2. Mined(t, 0) /\ cert' = cert
  BY DEF MineCert
<1>3. /\ tx'[t].op = tx[t].op /\ tx'[t].chain = "mined"
      /\ \A s \in Txs \ {t} : tx'[s] = tx[s]
      /\ tx' \in [Txs -> CertTxs] /\ RelayCounters'
  BY <1>1, <1>2, MinedStep DEF CertTxs
<1>4. EventsSound'
  BY <1>3 DEF CertInv, EventsSound
<1>5. /\ permit' \in [issued : 0 .. MaxIssues, active : BOOLEAN]
      /\ permit.issued \in Nat /\ permit'.issued >= permit.issued
      /\ permit'.active => permit'.issued > 0
      /\ tx[t].op = "issueTradeCert" => permit'.issued > 0
      /\ tx[t].op = "revokeTradeCert" => permit.issued > 0
  <2>1. /\ permit \in [issued : 0 .. MaxIssues, active : BOOLEAN] /\ permit.issued \in 0 .. MaxIssues
        /\ permit.active => permit.issued > 0
        /\ tx[t].op = "revokeTradeCert" => permit.issued > 0
    BY DEF CertInv, CertTypeOK, CertSound
  <2>2. CASE /\ tx[t].op = "issueTradeCert" /\ permit.issued < MaxIssues
             /\ permit' = [issued |-> permit.issued + 1, active |-> TRUE]
    BY <2>1, <2>2, TradeCertAssumption
  <2>3. CASE /\ tx[t].op = "revokeTradeCert" /\ permit' = [permit EXCEPT !.active = FALSE]
    <3>1. permit' = [issued |-> permit.issued, active |-> FALSE]
      BY <2>1, <2>3
    <3>2. permit'.issued = permit.issued /\ permit'.active = FALSE
      BY <3>1
    <3>3. permit' \in [issued : 0 .. MaxIssues, active : BOOLEAN]
      BY <2>1, <3>1
    <3> QED
      BY <2>1, <2>3, <3>2, <3>3, TradeCertAssumption
  <2> QED
    BY <2>2, <2>3 DEF MineCert
<1>6. CertSound'
  BY <1>3, <1>5 DEF CertInv, CertSound, CertTypeOK
<1> QED
  BY <1>2, <1>3, <1>4, <1>5, <1>6, CertTyping
     DEF CertInv, CertTypeOK, RelayCounters, CertNotAhead

LEMMA CertOtherStep ==
    ASSUME CertInv, NEW t \in Txs,
           \/ CertStore(t) \/ CertTxReverts(t) \/ HandleTradeCertIssued(t)
           \/ HandleTradeCertRevoked(t) \/ CertReplay(t) \/ CertRollBack(t)
           \/ RelayStep(t) /\ UNCHANGED certRest
    PROVE  CertInv'
<1> DEFINE Rows == [made : BOOLEAN, active : BOOLEAN]
           Shown == permit' = permit /\ cert' \in Rows /\ (cert'.active => permit.issued > 0)
           On == cert' = [made |-> TRUE, active |-> TRUE] \/ Show(TRUE)
<1>0. cert \in Rows /\ (cert.active => permit.issued > 0)
  BY DEF CertInv, CertTypeOK, CertNotAhead
<1>a. /\ [made |-> TRUE, active |-> TRUE] \in Rows
      /\ [cert EXCEPT !.active = TRUE] \in Rows /\ [cert EXCEPT !.active = FALSE] \in Rows
      /\ [cert EXCEPT !.active = FALSE].active = FALSE
      /\ [made |-> TRUE, active |-> FALSE] \in Rows
      /\ [made |-> TRUE, active |-> FALSE].active = FALSE
  BY <1>0
<1>b. permit' = permit /\ On /\ permit.issued > 0 => Shown
  BY <1>a DEF Show
<1>c. permit' = permit /\ Show(FALSE) => Shown
  BY <1>a DEF Show
<1>1. CASE CertStore(t)
  <2>0. StoreTx(t, 1) /\ permit' = permit
        /\ (cert' = [made |-> TRUE, active |-> FALSE] \/ cert' = cert)
    BY <1>1 DEF CertStore, CreateTradeCertTx, CreateRevokeTradeCertTx, certRest
  <2>1. Shown
    BY <1>0, <1>a, <2>0
  <2>2. /\ tx' \in [Txs -> CertTxs] /\ RelayCounters'
        /\ \A s \in Txs : /\ tx'[s].op = tx[s].op /\ tx'[s].chain = tx[s].chain
                          /\ tx'[s].event = tx[s].event
    <3>1. tx \in [Txs -> CertTxs] /\ RelayCounters
      BY CertTyping DEF CertInv, CertTypeOK, RelayCounters
    <3> QED
      BY <2>0, <3>1, StoreStep DEF CertTxs
  <2>3. EventsSound' /\ CertSound'
    BY <2>1, <2>2 DEF CertInv, EventsSound, CertSound
  <2> QED
    BY <2>1, <2>2, <2>3, CertTyping DEF CertInv, CertTypeOK, RelayCounters, CertNotAhead
<1>2. CASE CertTxReverts(t)
  BY <1>0, <1>2, CertRelay, CertSteady DEF CertTxReverts, certRest
<1>3. CASE HandleTradeCertIssued(t) \/ HandleTradeCertRevoked(t)
  <2>1. /\ tx[t].event # "none" /\ AppliedBy(t) /\ permit' = permit
        /\ (On /\ tx[t].op = "issueTradeCert") \/ Show(FALSE)
    BY <1>3 DEF HandleTradeCertIssued, HandleTradeCertRevoked, Arrived
  <2>2. tx[t].op = "issueTradeCert" => permit.issued > 0
    BY <2>1 DEF CertInv, CertSound, EventsSound
  <2>3. Shown
    BY <1>b, <1>c, <2>1, <2>2
  <2> QED
    BY <2>1, <2>3, CertRelay, CertSteady
<1>4. CASE CertReplay(t)
  <2>1. /\ Replayed(t) /\ permit' = permit /\ tx[t].chain = "mined"
        /\ (On /\ tx[t].op = "issueTradeCert") \/ Show(FALSE)
    BY <1>4 DEF CertReplay, ReplayCertIssue, ReplayCertRevoke, FoundMined
  <2>2. tx[t].op = "issueTradeCert" => permit.issued > 0
    BY <2>1 DEF CertInv, CertSound
  <2>3. Shown
    BY <1>b, <1>c, <2>1, <2>2
  <2> QED
    BY <2>1, <2>3, CertRelay, CertSteady
<1>5. CASE CertRollBack(t)
  <2>1. /\ RolledBack /\ permit' = permit
        /\ (On /\ tx[t].op = "revokeTradeCert") \/ Show(FALSE)
    BY <1>5 DEF CertRollBack, RollBackCertIssue, RollBackCertRevoke, RollingBack
  <2>2. tx[t].op = "revokeTradeCert" => permit.issued > 0
    BY <2>1 DEF CertInv, CertSound
  <2>3. Shown
    BY <1>b, <1>c, <2>1, <2>2
  <2> QED
    BY <2>1, <2>3, CertRelay, CertSteady
<1>6. CASE RelayStep(t) /\ UNCHANGED certRest
  BY <1>0, <1>6, CertRelay, CertSteady DEF certRest
<1> QED
  BY <1>1, <1>2, <1>3, <1>4, <1>5, <1>6

(* Events are of mined transactions, a revocation is only asked for of a    *)
(* certificate that was issued: the invariant is kept.                      *)
LEMMA CertInductive ==
    /\ CertInit => CertInv
    /\ CertInv /\ [CertNext]_certVars => CertInv'
<1>1. CertInit => CertInv
  BY RelayAssumption, TradeCertAssumption
     DEF CertInit, RelayInit, NoTx, CertInv, CertTypeOK, CertTx, EventsSound, CertSound, CertNotAhead
<1>2. ASSUME CertInv, UNCHANGED certVars PROVE CertInv'
  BY <1>2 DEF certVars, relayVars, CertInv, CertTypeOK, EventsSound, CertSound, CertNotAhead
<1>3. ASSUME CertInv, CertNext PROVE CertInv'
  <2>1. ASSUME Crash, UNCHANGED certRest PROVE CertInv'
    <3>1. tx' \in [Txs -> CertTx] /\ Relayed({}) /\ RelayCounters'
      BY <1>3, <2>1, CertRelay
    <3>2. /\ permit' = permit /\ cert' \in [made : BOOLEAN, active : BOOLEAN]
          /\ cert'.active => permit.issued > 0
      BY <1>3, <2>1 DEF certRest, CertInv, CertTypeOK, CertNotAhead
    <3> QED
      BY <1>3, <3>1, <3>2, CertSteady
  <2>2. ASSUME NEW t \in Txs,
               \/ CertStore(t) \/ CertTxReverts(t) \/ HandleTradeCertIssued(t)
               \/ HandleTradeCertRevoked(t) \/ CertReplay(t) \/ CertRollBack(t)
               \/ RelayStep(t) /\ UNCHANGED certRest
        PROVE  CertInv'
    BY <1>3, <2>2, CertOtherStep
  <2> QED
    BY <1>3, <2>1, <2>2, CertRequestStep, CertMineStep DEF CertNext
<1> QED
  BY <1>1, <1>2, <1>3

(* A dealer shown as certified has been certified on chain, whatever is      *)
(* replayed, rolled back, lost or handled twice, however often (the          *)
(* handlers of TradeCertIssued and TradeCertRevoked, the sweep). It may      *)
(* have been revoked since.                                                 *)
THEOREM CertNotAheadAlways == CertSpec => []CertNotAhead
<1>1. CertInv => CertNotAhead
  BY DEF CertInv
<1> QED
  BY CertInductive, <1>1, PTL DEF CertSpec
-----------------------------------------------------------------------------
(* THE VEHICLE AND ITS TITLE                                                *)

TitleNames == TitleOps \cup {"none"}
TitleTxs == TxOf(TitleNames, {0}, {0}, {0, 1}, {0})

LEMMA TitleTyping == TitleTx = TitleTxs
BY DEF TitleTx, TitleTxs, TitleNames, TxOf

CarValues == [status : CarStatus, dealer : BOOLEAN, consent : BOOLEAN, owner : 0 .. MaxOwners]
VehicleRows == [status : CarStatus, dvp : BOOLEAN, dealer : {"none", "lower", "mixed"},
                allowed : BOOLEAN]
TitleRows == [made : BOOLEAN, active : BOOLEAN, owner : 0 .. MaxOwners,
              wallet : {"none", "lower", "mixed"}]
DealRows == [status : {"absent", "PENDING", "BUYER_ACCEPTED", "RTO_APPROVED", "CANCELLED"},
             sellerOK : BOOLEAN, buyerOK : BOOLEAN]

(* TitleNotAhead, of one row each                                           *)
VehicleSound(v) ==
    /\ v \in VehicleRows
    /\ v.dvp => car.status # "none"
    /\ v.dealer # "none" => car.dealer
    /\ v.status = "ACTIVE" => car.owner > 0
    /\ v.status = "SCRAPPED" => car.status = "SCRAPPED"

OwnerSound(w) ==
    /\ w \in TitleRows
    /\ w.made => car.owner > 0
    /\ w.made /\ ~w.active => car.status = "SCRAPPED"
    /\ w.owner <= car.owner

AskedSound(a) == a \in {"absent", "PENDING", "APPROVED"} /\ (a = "APPROVED" => car.owner > 0)

DealsSound(d) ==
    /\ d \in [Transfers -> DealRows]
    /\ \A q \in Transfers : /\ d[q].status = "RTO_APPROVED" => deed[q] = "done"
                            /\ d[q].status = "CANCELLED" => deed[q] = "cancelled"

LEMMA RowsSound ==
    ASSUME TitleInv
    PROVE  /\ VehicleSound(vehicle) /\ OwnerSound(title) /\ AskedSound(asked) /\ DealsSound(deal)
           /\ tx \in [Txs -> TitleTxs] /\ RelayCounters /\ car \in CarValues
BY TitleTyping DEF TitleInv, TitleTypeOK, TitleNotAhead, VehicleSound, OwnerSound, AskedSound,
   DealsSound, VehicleRows, TitleRows, DealRows, RelayCounters, CarValues

LEMMA VehicleWritten ==
    ASSUME NEW s \in CarStatus, NEW d \in BOOLEAN, NEW w \in {"none", "lower", "mixed"},
           NEW a \in BOOLEAN,
           d => car.status # "none", w # "none" => car.dealer,
           s = "ACTIVE" => car.owner > 0, s = "SCRAPPED" => car.status = "SCRAPPED"
    PROVE  VehicleSound([status |-> s, dvp |-> d, dealer |-> w, allowed |-> a])
BY DEF VehicleSound, VehicleRows

(* A step that leaves contracts and transactions as they are, but perhaps    *)
(* stores one, takes events and writes rows that are not ahead of the chain. *)
LEMMA TitleSteady ==
    ASSUME TitleInv, tx' \in [Txs -> TitleTxs], RelayCounters',
           \A s \in Txs : /\ tx'[s].op = tx[s].op
                          /\ tx'[s].chain = "mined" <=> tx[s].chain = "mined"
                          /\ tx'[s].event # "none" => tx[s].event # "none",
           car' = car, deed' = deed, echo' \subseteq echo,
           VehicleSound(vehicle'), OwnerSound(title'), AskedSound(asked'), DealsSound(deal')
    PROVE  TitleInv'
<1>1. EventsSound'
  BY DEF TitleInv, EventsSound
<1>2. TitleSound'
  <2>1. ASSUME NEW s \in Txs PROVE MinedTitle(s)'
    BY <2>1 DEF TitleInv, TitleSound, MinedTitle
  <2>2. ASSUME NEW e \in echo' PROVE EchoSound(e)'
    BY <2>2 DEF TitleInv, TitleSound, EchoSound
  <2>3. /\ \A q \in Transfers : deed[q] # "none" => car.owner > 0
        /\ car.owner > 0 <=> car.status \in {"ACTIVE", "SCRAPPED"}
    BY DEF TitleInv, TitleSound
  <2> QED
    BY <2>1, <2>2, <2>3 DEF TitleSound
<1>3. TitleTypeOK'
  BY TitleTyping DEF TitleInv, TitleTypeOK, VehicleSound, OwnerSound, AskedSound,
     DealsSound, VehicleRows, TitleRows, DealRows, RelayCounters
<1>4. TitleNotAhead'
  BY DEF TitleNotAhead, VehicleSound, OwnerSound, AskedSound, DealsSound
<1> QED
  BY <1>1, <1>2, <1>3, <1>4 DEF TitleInv

(* The contracts move on: nothing that happened to the vehicle is undone.   *)
Onward ==
    /\ car' \in CarValues
    /\ deed' \in [Transfers -> {"none", "asked", "accepted", "done", "cancelled"}]
    /\ car'.owner >= car.owner
    /\ car.status # "none" => car'.status # "none"
    /\ car.dealer => car'.dealer
    /\ car.status = "SCRAPPED" => car'.status = "SCRAPPED"
    /\ car'.owner > 0 <=> car'.status \in {"ACTIVE", "SCRAPPED"}
    /\ \A q \in Transfers : /\ deed[q] \in {"done", "cancelled"} => deed'[q] = deed[q]
                            /\ deed'[q] # "none" => car'.owner > 0

LEMMA MinedKept ==
    ASSUME TitleInv, Onward, NEW s \in Txs, tx'[s].op = tx[s].op,
           tx'[s].chain = "mined" => tx[s].chain = "mined"
    PROVE  MinedTitle(s)'
BY RowsSound DEF TitleInv, TitleSound, MinedTitle, Onward, CarValues

LEMMA TitleOnward ==
    ASSUME TitleInv, Onward, tx' \in [Txs -> TitleTxs], RelayCounters', EventsSound',
           \A s \in Txs : MinedTitle(s)',
           vehicle' = vehicle, title' = title, asked' = asked, deal' = deal,
           echo' \subseteq Echoes, \A e \in echo' \ echo : EchoSound(e)'
    PROVE  TitleInv'
<1>1. ASSUME NEW e \in echo PROVE EchoSound(e)'
  <2>1. EchoSound(e) /\ e \in Echoes
    BY DEF TitleInv, TitleSound, TitleTypeOK
  <2>2. e.ev \in {"RtoOK", "XferCancelled"} => e.q \in Transfers
    BY <2>1 DEF Echoes
  <2>3. car.owner \in Int /\ car'.owner \in Int /\ (e.ev = "XferDone" => e.owner \in Int)
    BY <2>1, RowsSound, TitleMirrorAssumption DEF CarValues, Onward, Echoes
  <2> QED
    BY <2>1, <2>2, <2>3 DEF EchoSound, Onward
<1>2. TitleSound'
  BY <1>1 DEF TitleSound, Onward
<1>3. TitleTypeOK'
  BY TitleTyping DEF TitleInv, TitleTypeOK, Onward, CarValues, RelayCounters
<1>4. TitleNotAhead'
  <2>1. /\ car.owner \in Int /\ car'.owner \in Int /\ car'.owner >= car.owner
        /\ title.owner \in Int /\ title.owner <= car.owner
    BY RowsSound, TitleMirrorAssumption DEF CarValues, Onward, OwnerSound, TitleRows
  <2> QED
    BY <2>1 DEF TitleInv, TitleNotAhead, Onward
<1> QED
  BY <1>2, <1>3, <1>4 DEF TitleInv

(* Requests: only a vehicle with an owner is to be scrapped.                *)
LEMMA TitleRequestStep ==
    ASSUME TitleInv, NEW t \in Txs, TitleRequest(t)
    PROVE  TitleInv'
<1>1. PICK op \in TitleOps, link \in {0, 1} :
        TitleAccepts(op) /\ SubmitEntityTx(t, op, 0, 0, link) /\ UNCHANGED titleRest
  BY DEF TitleRequest, ManufactureVehicle, AssignToDealer, RegisterVehicle, ScrapVehicle,
         RequestTitle, TitleOps
<1>2. tx \in [Txs -> TitleTxs] /\ RelayCounters
  BY RowsSound
<1>3. /\ tx'[t] = [op |-> op, id |-> 0, by |-> 0, link |-> link, chain |-> "pool", call |-> "sent",
                   row |-> "absent", event |-> "none", seen |-> 0]
      /\ \A s \in Txs \ {t} : tx'[s] = tx[s]
      /\ tx' \in [Txs -> TitleTxs] /\ RelayCounters'
  <2>1. op \in TitleNames
    BY DEF TitleNames
  <2> QED
    BY <1>1, <1>2, <2>1, SubmitStep DEF TitleTxs
<1>4. EventsSound'
  BY <1>3 DEF TitleInv, EventsSound
<1>5. /\ car' = car /\ deed' = deed /\ echo' = echo /\ vehicle' = vehicle /\ title' = title
      /\ asked' = asked /\ deal' = deal
  BY <1>1 DEF titleRest
<1>6. Onward
  BY <1>5, RowsSound DEF Onward, TitleInv, TitleTypeOK, TitleSound, CarValues
<1>7. op = "scrapVehicle" => car.owner > 0
  BY <1>1 DEF TitleAccepts, TitleOps, TitleInv, TitleSound
<1>8. ASSUME NEW s \in Txs PROVE MinedTitle(s)'
  <2>1. CASE s = t
    BY <1>3, <1>5, <1>7, <2>1 DEF MinedTitle
  <2>2. CASE s # t
    BY <1>3, <1>6, <2>2, MinedKept
  <2> QED
    BY <2>1, <2>2
<1> QED
  BY <1>3, <1>4, <1>5, <1>6, <1>8, TitleOnward DEF TitleInv, TitleTypeOK

LEMMA TitleChecks ==
    /\ TitleAccepts("manufacture") => car.status = "none"
    /\ TitleAccepts("register") => car.status = "NOT_REG"
    /\ TitleAccepts("scrapVehicle") => car.status = "ACTIVE"
BY DEF TitleAccepts

LEMMA TitleMineStep ==
    ASSUME TitleInv, NEW t \in Txs, MineTitle(t)
    PROVE  TitleInv'
<1>1. tx \in [Txs -> TitleTxs] /\ RelayCounters /\ car \in CarValues
  BY RowsSound
<1>2. /\ Mined(t, 0) /\ deed' = deed /\ vehicle' = vehicle /\ title' = title
      /\ asked' = asked /\ deal' = deal
  BY DEF MineTitle
<1>3. /\ tx'[t].op = tx[t].op /\ tx'[t].chain = "mined"
      /\ \A s \in Txs \ {t} : tx'[s] = tx[s]
      /\ tx' \in [Txs -> TitleTxs] /\ RelayCounters'
  BY <1>1, <1>2, MinedStep DEF TitleTxs
<1>4. EventsSound'
  BY <1>3 DEF TitleInv, EventsSound
<1>5. /\ car.owner > 0 <=> car.status \in {"ACTIVE", "SCRAPPED"}
      /\ \A q \in Transfers : deed[q] # "none" => car.owner > 0
      /\ deed \in [Transfers -> {"none", "asked", "accepted", "done", "cancelled"}]
      /\ car.owner \in Int /\ car.owner >= 0 /\ car.status \in CarStatus
      /\ TitleAccepts(tx[t].op)
  BY <1>1, TitleMirrorAssumption DEF TitleInv, TitleSound, TitleTypeOK, MineTitle, CarValues
<1>a. /\ tx[t].op = "manufacture" => car.status = "none"
      /\ tx[t].op = "register" => car.status = "NOT_REG"
      /\ tx[t].op = "scrapVehicle" => car.status = "ACTIVE"
  BY <1>5, TitleChecks
<1> DEFINE Done == /\ Onward /\ MinedTitle(t)'
                   /\ echo' \subseteq Echoes /\ \A e \in echo' \ echo : EchoSound(e)'
<1>6. ASSUME tx[t].op = "manufacture", car' = [car EXCEPT !.status = "NOT_REG"], echo' = echo
      PROVE  Done
  <2>1. car.status = "none"
    BY <1>a, <1>6
  <2>2. car' \in CarValues /\ car'.status = "NOT_REG" /\ car'.dealer = car.dealer
        /\ car'.owner = car.owner
    BY <1>1, <1>6 DEF CarValues, CarStatus
  <2>4. Onward
    BY <1>2, <1>5, <2>1, <2>2 DEF Onward
  <2>5. MinedTitle(t)'
    BY <1>3, <1>6, <2>1, <2>2 DEF MinedTitle
  <2>6. echo' \subseteq Echoes /\ \A e \in echo' \ echo : EchoSound(e)'
    BY <1>6 DEF TitleInv, TitleSound, TitleTypeOK
  <2> QED
    BY <2>4, <2>5, <2>6
<1>7. ASSUME tx[t].op = "assignToDealer", car' = [car EXCEPT !.dealer = TRUE], echo' = echo
      PROVE  Done
  <2>1. car' \in CarValues /\ car'.status = car.status /\ car'.dealer /\ car'.owner = car.owner
    BY <1>1, <1>7 DEF CarValues
  <2>4. Onward
    BY <1>2, <1>5, <2>1 DEF Onward
  <2>5. MinedTitle(t)'
    BY <1>3, <1>7, <2>1 DEF MinedTitle
  <2>6. echo' \subseteq Echoes /\ \A e \in echo' \ echo : EchoSound(e)'
    BY <1>7 DEF TitleInv, TitleSound, TitleTypeOK
  <2> QED
    BY <2>4, <2>5, <2>6
<1>8. ASSUME tx[t].op = "register", car' = [car EXCEPT !.status = "ACTIVE", !.owner = 1],
             echo' = echo \cup {StatusSaid("ACTIVE")}
      PROVE  Done
  <2>1. car.status = "NOT_REG"
    BY <1>a, <1>8
  <2>2. car' \in CarValues /\ car'.status = "ACTIVE" /\ car'.dealer = car.dealer /\ car'.owner = 1
    <3>1. 1 \in 0 .. MaxOwners
      BY TitleMirrorAssumption
    <3> QED
      BY <1>1, <1>8, <3>1 DEF CarValues, CarStatus
  <2>3. StatusSaid("ACTIVE") \in Echoes /\ EchoSound(StatusSaid("ACTIVE"))'
    BY <2>2 DEF StatusSaid, Said, Echoes, CarStatus, EchoSound
  <2>4. Onward
    BY <1>2, <1>5, <2>1, <2>2 DEF Onward
  <2>5. MinedTitle(t)'
    BY <1>3, <1>8, <2>1, <2>2 DEF MinedTitle
  <2>6. echo' \subseteq Echoes /\ \A e \in echo' \ echo : EchoSound(e)'
    BY <1>8, <2>3 DEF TitleInv, TitleTypeOK
  <2> QED
    BY <2>4, <2>5, <2>6
<1>9. ASSUME tx[t].op = "scrapVehicle",
             car' = [car EXCEPT !.status = "SCRAPPED", !.consent = FALSE],
             echo' = echo \cup {StatusSaid("SCRAPPED")}
      PROVE  Done
  <2>1. car.status = "ACTIVE" /\ car.owner > 0
    BY <1>a, <1>5, <1>9
  <2>2. car' \in CarValues /\ car'.status = "SCRAPPED" /\ car'.dealer = car.dealer
        /\ car'.owner = car.owner
    BY <1>1, <1>9 DEF CarValues, CarStatus
  <2>3. StatusSaid("SCRAPPED") \in Echoes /\ EchoSound(StatusSaid("SCRAPPED"))'
    BY <2>1, <2>2 DEF StatusSaid, Said, Echoes, CarStatus, EchoSound
  <2>4. Onward
    BY <1>2, <1>5, <2>1, <2>2 DEF Onward
  <2>5. MinedTitle(t)'
    BY <1>3, <1>9, <2>1, <2>2 DEF MinedTitle
  <2>6. echo' \subseteq Echoes /\ \A e \in echo' \ echo : EchoSound(e)'
    BY <1>9, <2>3 DEF TitleInv, TitleTypeOK
  <2> QED
    BY <2>4, <2>5, <2>6
<1>10. Done
  BY <1>6, <1>7, <1>8, <1>9 DEF MineTitle
<1>11. ASSUME NEW s \in Txs PROVE MinedTitle(s)'
  <2>1. CASE s # t
    BY <1>3, <1>10, <2>1, MinedKept
  <2> QED
    BY <1>10, <2>1
<1> QED
  BY <1>2, <1>3, <1>4, <1>10, <1>11, TitleOnward

(* What the owner's wallet does, and the RTO's for the last approval        *)
LEMMA TitleWalletStep ==
    ASSUME TitleInv, CitizenStep
    PROVE  TitleInv'
<1>1. /\ tx \in [Txs -> TitleTxs] /\ RelayCounters /\ car \in CarValues
      /\ VehicleSound(vehicle) /\ OwnerSound(title) /\ AskedSound(asked) /\ DealsSound(deal)
  BY RowsSound
<1>2. /\ car.owner > 0 <=> car.status \in {"ACTIVE", "SCRAPPED"}
      /\ \A q \in Transfers : deed[q] # "none" => car.owner > 0
      /\ deed \in [Transfers -> {"none", "asked", "accepted", "done", "cancelled"}]
      /\ car.owner \in 0 .. MaxOwners /\ car.status \in CarStatus
      /\ \A s \in Txs : MinedTitle(s)
  BY <1>1 DEF TitleInv, TitleSound, TitleTypeOK, CarValues
<1>3. CASE CreateSaleRequest
  <2>1. /\ tx' = tx /\ sweep' = sweep /\ crashes' = crashes /\ losses' = losses /\ car' = car
        /\ deed' = deed /\ echo' = echo /\ vehicle' = vehicle /\ title' = title /\ deal' = deal
        /\ asked' = "PENDING"
    BY <1>3 DEF CreateSaleRequest, relayVars
  <2>2. RelayCounters' /\ AskedSound(asked')
    BY <1>1, <2>1 DEF RelayCounters, AskedSound
  <2> QED
    BY <1>1, <2>1, <2>2, TitleSteady
<1>4. ASSUME NEW said, WalletSays(said), said \subseteq Echoes, Onward,
             \A e \in said : EchoSound(e)'
      PROVE  TitleInv'
  <2>1. /\ tx' = tx /\ sweep' = sweep /\ crashes' = crashes /\ losses' = losses
        /\ vehicle' = vehicle /\ title' = title /\ asked' = asked /\ deal' = deal
        /\ echo' = echo \cup said
    BY <1>4 DEF WalletSays, relayVars
  <2>2. RelayCounters' /\ EventsSound' /\ echo' \subseteq Echoes
    BY <1>1, <1>4, <2>1 DEF RelayCounters, TitleInv, TitleTypeOK, EventsSound
  <2>3. ASSUME NEW s \in Txs PROVE MinedTitle(s)'
    BY <1>4, <2>1, MinedKept
  <2> QED
    BY <1>1, <1>4, <2>1, <2>2, <2>3, TitleOnward
<1>5. ASSUME NEW q \in Transfers PROVE /\ Said("XferInit", q, 0) \in Echoes
                                       /\ Said("SellerOK", q, 0) \in Echoes
                                       /\ Said("BuyerOK", q, 0) \in Echoes
                                       /\ Said("RtoOK", q, 0) \in Echoes
                                       /\ Said("XferCancelled", q, 0) \in Echoes
                                       /\ \A o \in 0 .. MaxOwners : Said("XferDone", q, o) \in Echoes
  BY <1>5, TitleMirrorAssumption DEF Said, Echoes
<1>6. CASE AuthorizeScrap
  <2>1. /\ car' = [car EXCEPT !.consent = TRUE] /\ deed' = deed
        /\ WalletSays({Said("ScrapAuthorized", 0, 0)})
    BY <1>6 DEF AuthorizeScrap
  <2>2. /\ car' \in CarValues /\ car'.status = car.status /\ car'.dealer = car.dealer
        /\ car'.owner = car.owner
    BY <1>1, <2>1 DEF CarValues
  <2>3. Onward
    BY <1>2, <2>1, <2>2, TitleMirrorAssumption DEF Onward
  <2>4. Said("ScrapAuthorized", 0, 0) \in Echoes /\ EchoSound(Said("ScrapAuthorized", 0, 0))'
    BY DEF Said, Echoes, EchoSound
  <2> QED
    BY <1>4, <2>1, <2>3, <2>4
<1>7. ASSUME NEW q \in Transfers, InitTransfer(q) PROVE TitleInv'
  <2>1. /\ car' = car /\ deed' = [deed EXCEPT ![q] = "asked"] /\ deed[q] = "none"
        /\ car.status = "ACTIVE"
        /\ WalletSays({Said("XferInit", q, 0), Said("SellerOK", q, 0)})
    BY <1>7 DEF InitTransfer
  <2>2. Onward
    BY <1>1, <1>2, <2>1, TitleMirrorAssumption DEF Onward
  <2>3. EchoSound(Said("XferInit", q, 0))' /\ EchoSound(Said("SellerOK", q, 0))'
    BY DEF Said, EchoSound
  <2> QED
    BY <1>4, <1>5, <2>1, <2>2, <2>3
<1>8. ASSUME NEW q \in Transfers, AcceptTransfer(q) PROVE TitleInv'
  <2>1. /\ car' = car /\ deed' = [deed EXCEPT ![q] = "accepted"] /\ deed[q] = "asked"
        /\ WalletSays({Said("BuyerOK", q, 0)})
    BY <1>8 DEF AcceptTransfer
  <2>2. Onward
    BY <1>1, <1>2, <2>1, TitleMirrorAssumption DEF Onward
  <2>3. EchoSound(Said("BuyerOK", q, 0))'
    BY DEF Said, EchoSound
  <2> QED
    BY <1>4, <1>5, <2>1, <2>2, <2>3
<1>9. ASSUME NEW q \in Transfers, CancelTransfer(q) PROVE TitleInv'
  <2>1. /\ car' = car /\ deed' = [deed EXCEPT ![q] = "cancelled"]
        /\ deed[q] \in {"asked", "accepted"} /\ WalletSays({Said("XferCancelled", q, 0)})
    BY <1>9 DEF CancelTransfer, OpenTransfers
  <2>2. Onward
    BY <1>1, <1>2, <2>1, TitleMirrorAssumption DEF Onward
  <2>3. EchoSound(Said("XferCancelled", q, 0))'
    BY <1>2, <2>1 DEF Said, EchoSound
  <2> QED
    BY <1>4, <1>5, <2>1, <2>2, <2>3
<1>10. ASSUME NEW q \in Transfers, CompleteTransfer(q) PROVE TitleInv'
  <2>1. /\ car' = [car EXCEPT !.owner = car.owner + 1] /\ deed' = [deed EXCEPT ![q] = "done"]
        /\ deed[q] = "accepted" /\ car.owner < MaxOwners
        /\ WalletSays({Said("RtoOK", q, 0), Said("XferDone", q, car'.owner)})
    BY <1>10 DEF CompleteTransfer
  <2>2. /\ car' \in CarValues /\ car'.status = car.status /\ car'.dealer = car.dealer
        /\ car'.owner = car.owner + 1 /\ car'.owner \in 0 .. MaxOwners
    BY <1>1, <1>2, <2>1, TitleMirrorAssumption DEF CarValues
  <2>3. Onward
    BY <1>1, <1>2, <2>1, <2>2, TitleMirrorAssumption DEF Onward
  <2>4. PICK o \in 0 .. MaxOwners : o = car'.owner
    BY <2>2
  <2>5. EchoSound(Said("RtoOK", q, 0))' /\ EchoSound(Said("XferDone", q, o))'
    BY <1>2, <2>1, <2>4, TitleMirrorAssumption DEF Said, EchoSound
  <2> QED
    BY <1>4, <1>5, <2>1, <2>3, <2>4, <2>5
<1> QED
  BY <1>3, <1>6, <1>7, <1>8, <1>9, <1>10 DEF CitizenStep

(* Steps of transactions that submit and mine none                          *)
TitleAlike ==
    /\ tx' \in [Txs -> TitleTxs] /\ RelayCounters'
    /\ \A s \in Txs : /\ tx'[s].op = tx[s].op
                      /\ tx'[s].chain = "mined" <=> tx[s].chain = "mined"
                      /\ tx'[s].event # "none" => tx[s].event # "none"

LEMMA TitleRelay ==
    ASSUME TitleInv,
           \/ \E t \in Txs :
                \/ tx[t].event # "none" /\ AppliedBy(t)
                \/ Replayed(t) \/ StoreTx(t, tx[t].link) \/ StoreTx(t, 1)
                \/ TxReverts(t) \/ RelayStep(t)
           \/ UNCHANGED relayVars \/ Crash
    PROVE  TitleAlike
<1>1. tx \in [Txs -> TitleTxs] /\ RelayCounters
  BY RowsSound
<1>2. CASE \E t \in Txs : StoreTx(t, 1)
  BY <1>1, <1>2, StoreStep DEF TitleTxs, TitleAlike
<1>3. CASE ~\E t \in Txs : StoreTx(t, 1)
  <2>1. tx' \in [Txs -> TitleTxs] /\ Relayed({}) /\ RelayCounters'
    BY <1>1, <1>3, RelaySteps, NoTxStep, CrashStep DEF TitleTxs
  <2> QED
    BY <2>1 DEF Relayed, RelayedTx, TitleAlike
<1> QED
  BY <1>2, <1>3

LEMMA TitleStoreStep ==
    ASSUME TitleInv, NEW t \in Txs, TitleStore(t)
    PROVE  TitleInv'
<1>1. /\ VehicleSound(vehicle) /\ OwnerSound(title) /\ AskedSound(asked) /\ DealsSound(deal)
      /\ tx \in [Txs -> TitleTxs] /\ RelayCounters
  BY RowsSound
<1>2. CASE CreateDraftVehicle(t)
  <2>1. /\ StoreTx(t, 1) /\ car' = car /\ deed' = deed /\ echo' = echo /\ title' = title
        /\ asked' = asked /\ deal' = deal
        /\ vehicle' = [NoVehicle EXCEPT !.status = "NOT_REG"]
    BY <1>2 DEF CreateDraftVehicle
  <2>2. vehicle' = [status |-> "NOT_REG", dvp |-> FALSE, dealer |-> "none", allowed |-> FALSE]
    BY <2>1 DEF NoVehicle
  <2>3. VehicleSound(vehicle')
    BY <2>2, VehicleWritten DEF CarStatus
  <2>4. TitleAlike
    BY <2>1, TitleRelay
  <2> QED
    BY <1>1, <2>1, <2>3, <2>4, TitleSteady DEF TitleAlike
<1>3. CASE DraftRefused(t)
  <2>1. /\ tx' = [tx EXCEPT ![t].call = "idle"] /\ sweep' = sweep /\ crashes' = crashes
        /\ losses' = losses /\ car' = car /\ deed' = deed /\ echo' = echo /\ vehicle' = vehicle
        /\ title' = title /\ asked' = asked /\ deal' = deal
    BY <1>3 DEF DraftRefused, titleRest
  <2>2. PICK x : x = [tx[t] EXCEPT !.call = "idle"]
    OBVIOUS
  <2>3. tx[t] \in TitleTxs
    BY <1>1
  <2>4. x \in TitleTxs /\ tx' = [tx EXCEPT ![t] = x] /\ Fits(t, x)
    BY <2>1, <2>2, <2>3 DEF TitleTxs, TxOf, Fits
  <2>5. tx' \in [Txs -> TitleTxs] /\ Relayed({})
    BY <1>1, <2>4, OneRelayed
  <2>6. TitleAlike
    BY <1>1, <2>1, <2>5 DEF TitleAlike, Relayed, RelayedTx, RelayCounters
  <2> QED
    BY <1>1, <2>1, <2>6, TitleSteady DEF TitleAlike
<1>4. CASE CreateTitleTx(t)
  <2>1. /\ StoreTx(t, tx[t].link) /\ car' = car /\ deed' = deed /\ echo' = echo
        /\ vehicle' = vehicle /\ title' = title /\ asked' = asked /\ deal' = deal
    BY <1>4 DEF CreateTitleTx, titleRest
  <2>2. TitleAlike
    BY <2>1, TitleRelay
  <2> QED
    BY <1>1, <2>1, <2>2, TitleSteady DEF TitleAlike
<1> QED
  BY <1>2, <1>3, <1>4
     DEF TitleStore, CreateAssignmentTx, CreateVehicleRegTx, CreatePendingScrapTx

(* Handlers and replays of transactions: what they write has happened.      *)
LEMMA TitleWrites ==
    ASSUME TitleInv, NEW t \in Txs, tx[t].chain = "mined",
           TitleAlike, car' = car, deed' = deed, echo' = echo, deal' = deal,
           \/ /\ tx[t].op = "manufacture" /\ title' = title /\ asked' = asked
              /\ \/ vehicle' = [NoVehicle EXCEPT !.status = "NOT_REG", !.dvp = TRUE]
                 \/ vehicle' = [vehicle EXCEPT !.dvp = TRUE]
                 \/ vehicle' = [vehicle EXCEPT !.dvp = TRUE, !.status = "NOT_REG"]
           \/ /\ tx[t].op = "assignToDealer" /\ title' = title /\ asked' = asked
              /\ \E wallet \in {"lower", "mixed", vehicle.dealer} :
                    vehicle' = [vehicle EXCEPT !.dealer = wallet]
           \/ /\ tx[t].op = "register"
              /\ vehicle' = [vehicle EXCEPT !.status = "ACTIVE"]
              /\ \E wallet \in {"lower", "mixed"} :
                    \/ title' = [made |-> TRUE, owner |-> 1, wallet |-> wallet,
                                 active |-> title.made => title.active]
                    \/ title' = [made |-> TRUE, owner |-> 1, wallet |-> wallet,
                                 active |-> TRUE]
              /\ asked' \in {"APPROVED", asked}
           \/ /\ tx[t].op = "scrapVehicle" /\ asked' = asked
              /\ \E a \in {FALSE, vehicle.allowed} :
                    vehicle' = [vehicle EXCEPT !.status = "SCRAPPED", !.allowed = a]
              /\ title' = [title EXCEPT !.active = FALSE]
    PROVE  TitleInv'
<1>1. /\ VehicleSound(vehicle) /\ OwnerSound(title) /\ AskedSound(asked) /\ DealsSound(deal)
  BY RowsSound
<1>2. /\ tx[t].op = "manufacture" => car.status # "none"
      /\ tx[t].op = "assignToDealer" => car.dealer
      /\ tx[t].op = "register" => car.owner > 0
      /\ tx[t].op = "scrapVehicle" => car.status = "SCRAPPED" /\ car.owner > 0
      /\ car.owner \in Int
  BY RowsSound, TitleMirrorAssumption DEF TitleInv, TitleSound, MinedTitle, CarValues
<1>3. /\ vehicle \in VehicleRows /\ vehicle.status \in CarStatus /\ vehicle.dvp \in BOOLEAN
      /\ vehicle.dealer \in {"none", "lower", "mixed"} /\ vehicle.allowed \in BOOLEAN
      /\ vehicle.dvp => car.status # "none"
      /\ vehicle.dealer # "none" => car.dealer
      /\ vehicle.status = "ACTIVE" => car.owner > 0
      /\ vehicle.status = "SCRAPPED" => car.status = "SCRAPPED"
      /\ {"NOT_REG", "ACTIVE", "SCRAPPED"} \subseteq CarStatus
  BY <1>1 DEF VehicleSound, VehicleRows, CarStatus
<1>4. VehicleSound(vehicle')
  <2>1. CASE tx[t].op = "manufacture"
    <3>1. \/ vehicle' = [status |-> "NOT_REG", dvp |-> TRUE, dealer |-> "none", allowed |-> FALSE]
          \/ vehicle' = [status |-> vehicle.status, dvp |-> TRUE, dealer |-> vehicle.dealer,
                         allowed |-> vehicle.allowed]
          \/ vehicle' = [status |-> "NOT_REG", dvp |-> TRUE, dealer |-> vehicle.dealer,
                         allowed |-> vehicle.allowed]
      BY <1>3, <2>1 DEF NoVehicle, VehicleRows
    <3>2. PICK s \in {"NOT_REG", vehicle.status}, w \in {"none", vehicle.dealer},
               a \in {FALSE, vehicle.allowed} :
            vehicle' = [status |-> s, dvp |-> TRUE, dealer |-> w, allowed |-> a]
      BY <3>1
    <3>3. /\ s \in CarStatus /\ w \in {"none", "lower", "mixed"} /\ a \in BOOLEAN
          /\ w # "none" => car.dealer
          /\ s = "ACTIVE" => car.owner > 0
          /\ s = "SCRAPPED" => car.status = "SCRAPPED"
      BY <1>3
    <3> QED
      BY <1>2, <2>1, <3>2, <3>3, VehicleWritten
  <2>2. CASE tx[t].op = "assignToDealer"
    <3>1. PICK wallet \in {"lower", "mixed", vehicle.dealer} :
                    vehicle' = [vehicle EXCEPT !.dealer = wallet]
      BY <2>2
    <3>2. vehicle' = [status |-> vehicle.status, dvp |-> vehicle.dvp, dealer |-> wallet,
                      allowed |-> vehicle.allowed]
      BY <1>3, <3>1 DEF VehicleRows
    <3>3. wallet \in {"none", "lower", "mixed"} /\ car.dealer
      BY <1>2, <1>3, <2>2, <3>1
    <3> QED
      BY <1>3, <3>2, <3>3, VehicleWritten
  <2>3. CASE tx[t].op = "register"
    <3>1. vehicle' = [status |-> "ACTIVE", dvp |-> vehicle.dvp, dealer |-> vehicle.dealer,
                      allowed |-> vehicle.allowed]
      BY <1>3, <2>3 DEF VehicleRows
    <3> QED
      BY <1>2, <1>3, <2>3, <3>1, VehicleWritten
  <2>4. CASE tx[t].op = "scrapVehicle"
    <3>1. PICK a \in {FALSE, vehicle.allowed} :
                    vehicle' = [vehicle EXCEPT !.status = "SCRAPPED", !.allowed = a]
      BY <2>4
    <3>2. vehicle' = [status |-> "SCRAPPED", dvp |-> vehicle.dvp, dealer |-> vehicle.dealer,
                      allowed |-> a]
      BY <1>3, <3>1 DEF VehicleRows
    <3>3. a \in BOOLEAN
      BY <1>3, <3>1
    <3> QED
      BY <1>2, <1>3, <2>4, <3>2, <3>3, VehicleWritten
  <2> QED
    BY <2>1, <2>2, <2>3, <2>4
<1>5. OwnerSound(title')
  <2>1. CASE tx[t].op = "register"
    <3>1. PICK wallet \in {"lower", "mixed"} :
            \/ title' = [made |-> TRUE, owner |-> 1, wallet |-> wallet,
                         active |-> title.made => title.active]
            \/ title' = [made |-> TRUE, owner |-> 1, wallet |-> wallet, active |-> TRUE]
      BY <2>1
    <3>2. title.made /\ ~title.active => car.status = "SCRAPPED"
      BY <1>1 DEF OwnerSound
    <3> DEFINE Fresh == /\ title'.owner = 1 /\ (~title'.active => title.made /\ ~title.active)
                        /\ title' \in TitleRows
    <3>a. 1 \in 0 .. MaxOwners /\ (title.made => title.active) \in BOOLEAN
      BY TitleMirrorAssumption
    <3>b. ASSUME title' = [made |-> TRUE, owner |-> 1, wallet |-> wallet,
                           active |-> title.made => title.active]
          PROVE  Fresh
      <4>1. title' \in TitleRows
        BY <3>a, <3>b DEF TitleRows
      <4>2. title'.owner = 1 /\ (~title'.active => title.made /\ ~title.active)
        BY <3>b
      <4> QED
        BY <4>1, <4>2
    <3>c. ASSUME title' = [made |-> TRUE, owner |-> 1, wallet |-> wallet, active |-> TRUE]
          PROVE  Fresh
      <4>1. title' \in TitleRows
        BY <3>a, <3>c DEF TitleRows
      <4>2. title'.owner = 1 /\ title'.active
        BY <3>c
      <4> QED
        BY <4>1, <4>2
    <3>3. Fresh
      BY <3>1, <3>b, <3>c
    <3>5. car.owner > 0 /\ title'.owner <= car.owner
      BY <1>2, <2>1, <3>3
    <3> QED
      BY <3>2, <3>3, <3>5 DEF OwnerSound
  <2>2. CASE tx[t].op = "scrapVehicle"
    <3>1. title' \in TitleRows /\ title'.made = title.made /\ title'.owner = title.owner
      BY <1>1, <2>2 DEF OwnerSound, TitleRows
    <3> QED
      BY <1>1, <1>2, <2>2, <3>1 DEF OwnerSound
  <2>3. CASE title' = title
    BY <1>1, <2>3
  <2> QED
    BY <2>1, <2>2, <2>3
<1>6. AskedSound(asked')
  BY <1>1, <1>2 DEF AskedSound
<1> QED
  BY <1>1, <1>4, <1>5, <1>6, TitleSteady DEF TitleAlike

LEMMA TitleHandleStep ==
    ASSUME TitleInv, NEW t \in Txs, TitleHandle(t)
    PROVE  TitleInv'
<1>1. /\ tx[t].event # "none" /\ AppliedBy(t)
      /\ car' = car /\ deed' = deed /\ echo' = echo /\ deal' = deal
  BY DEF TitleHandle, HandleVehicleMfg, HandleVehicleAssigned, HandleVehicleReg,
         HandleVehicleScrapped, Reads, Arrived
<1>2. TitleAlike /\ tx[t].chain = "mined"
  BY <1>1, TitleRelay DEF TitleInv, EventsSound
<1>3. CASE vehicle' = vehicle /\ title' = title /\ asked' = asked
  BY <1>1, <1>2, <1>3, RowsSound, TitleSteady DEF TitleAlike
<1>4. CASE HandleVehicleMfg(t)
  <2>1. /\ tx[t].op = "manufacture" /\ title' = title /\ asked' = asked
        /\ \/ vehicle' = [NoVehicle EXCEPT !.status = "NOT_REG", !.dvp = TRUE]
           \/ vehicle' = [vehicle EXCEPT !.dvp = TRUE]
    BY <1>4 DEF HandleVehicleMfg, Reads, Arrived
  <2> QED
    BY <1>1, <1>2, <2>1, TitleWrites
<1>5. CASE HandleVehicleAssigned(t)
  <2>1. /\ tx[t].op = "assignToDealer" /\ title' = title /\ asked' = asked
        /\ \E wallet \in {"lower", "mixed", vehicle.dealer} :
             vehicle' = [vehicle EXCEPT !.dealer = wallet]
    BY <1>5 DEF HandleVehicleAssigned, Reads, Arrived
  <2> QED
    BY <1>1, <1>2, <2>1, TitleWrites
<1>6. CASE HandleVehicleReg(t) /\ vehicle.dvp
  <2>1. /\ tx[t].op = "register"
        /\ vehicle' = [vehicle EXCEPT !.status = "ACTIVE"]
        /\ title' = [made |-> TRUE, owner |-> 1, wallet |-> "lower",
                     active |-> title.made => title.active]
        /\ asked' \in {"APPROVED", asked}
    BY <1>6 DEF HandleVehicleReg, Reads, Arrived
  <2> QED
    BY <1>1, <1>2, <2>1, TitleWrites
<1>7. CASE HandleVehicleReg(t) /\ ~vehicle.dvp
  BY <1>3, <1>7 DEF HandleVehicleReg
<1>8. CASE HandleVehicleScrapped(t) /\ vehicle.dvp
  <2>1. /\ tx[t].op = "scrapVehicle" /\ asked' = asked
        /\ \E a \in {FALSE, vehicle.allowed} :
              vehicle' = [vehicle EXCEPT !.status = "SCRAPPED", !.allowed = a]
        /\ title' = [title EXCEPT !.active = FALSE]
    BY <1>8 DEF HandleVehicleScrapped, Reads, Arrived
  <2> QED
    BY <1>1, <1>2, <2>1, TitleWrites
<1>9. CASE HandleVehicleScrapped(t) /\ ~vehicle.dvp
  BY <1>3, <1>9 DEF HandleVehicleScrapped
<1> QED
  BY <1>4, <1>5, <1>6, <1>7, <1>8, <1>9 DEF TitleHandle

LEMMA TitleReplayStep ==
    ASSUME TitleInv, NEW t \in Txs, TitleReplay(t)
    PROVE  TitleInv'
<1>1. /\ tx[t].chain = "mined" /\ Replayed(t)
      /\ car' = car /\ deed' = deed /\ echo' = echo /\ deal' = deal
  BY DEF TitleReplay, ReplayMint, ReplayAssign, ReplayRegister, ReplayScrap, Sweeps, FoundMined
<1>2. TitleAlike
  BY <1>1, TitleRelay
<1>3. CASE ReplayMint(t)
  <2>1. /\ tx[t].op = "manufacture" /\ title' = title /\ asked' = asked
        /\ vehicle' = [vehicle EXCEPT !.dvp = TRUE, !.status = "NOT_REG"]
    BY <1>3 DEF ReplayMint, Sweeps, FoundMined
  <2> QED
    BY <1>1, <1>2, <2>1, TitleWrites
<1>4. CASE ReplayAssign(t)
  <2>1. /\ tx[t].op = "assignToDealer" /\ title' = title /\ asked' = asked
        /\ vehicle' = [vehicle EXCEPT !.dealer = "mixed"]
    BY <1>4 DEF ReplayAssign, Sweeps, FoundMined
  <2> QED
    BY <1>1, <1>2, <2>1, TitleWrites
<1>5. CASE ReplayRegister(t)
  <2>1. /\ tx[t].op = "register"
        /\ vehicle' = [vehicle EXCEPT !.status = "ACTIVE"]
        /\ title' = [made |-> TRUE, active |-> TRUE, owner |-> 1, wallet |-> "mixed"]
        /\ asked' \in {"APPROVED", asked}
    BY <1>5 DEF ReplayRegister, Sweeps, FoundMined
  <2>2. title' = [made |-> TRUE, owner |-> 1, wallet |-> "mixed", active |-> TRUE]
    BY <2>1
  <2> QED
    BY <1>1, <1>2, <2>1, <2>2, TitleWrites
<1>6. CASE ReplayScrap(t)
  <2>1. /\ tx[t].op = "scrapVehicle" /\ asked' = asked
        /\ vehicle' = [vehicle EXCEPT !.status = "SCRAPPED"]
        /\ title' = [title EXCEPT !.active = FALSE]
    BY <1>6 DEF ReplayScrap, Sweeps, FoundMined
  <2>2. vehicle' = [vehicle EXCEPT !.status = "SCRAPPED", !.allowed = vehicle.allowed]
    BY <2>1, RowsSound DEF VehicleSound, VehicleRows
  <2> QED
    BY <1>1, <1>2, <2>1, <2>2, TitleWrites
<1> QED
  BY <1>3, <1>4, <1>5, <1>6 DEF TitleReplay

(* What a roll-back undoes never made the row go ahead.                     *)
LEMMA TitleRollBackStep ==
    ASSUME TitleInv, NEW t \in Txs, TitleRollBack(t)
    PROVE  TitleInv'
<1>1. /\ VehicleSound(vehicle) /\ OwnerSound(title) /\ AskedSound(asked) /\ DealsSound(deal)
      /\ tx \in [Txs -> TitleTxs] /\ RelayCounters /\ car \in CarValues
  BY RowsSound
<1>2. /\ sweep' = 0 /\ crashes' = crashes /\ losses' = losses
      /\ car' = car /\ deed' = deed /\ echo' = echo
  BY DEF TitleRollBack, RollBackMint, RollBackAssign, RollBackRegister, RollBackScrap, RollsBack
<1>3. RelayCounters'
  BY <1>1, <1>2 DEF RelayCounters
<1>4. /\ vehicle \in VehicleRows /\ vehicle.status \in CarStatus /\ vehicle.dvp \in BOOLEAN
      /\ vehicle.dealer \in {"none", "lower", "mixed"} /\ vehicle.allowed \in BOOLEAN
      /\ vehicle.dvp => car.status # "none"
      /\ vehicle.dealer # "none" => car.dealer
      /\ vehicle.status = "ACTIVE" => car.owner > 0
      /\ vehicle.status = "SCRAPPED" => car.status = "SCRAPPED"
      /\ "ACTIVE" \in CarStatus
  BY <1>1 DEF VehicleSound, VehicleRows, CarStatus
<1>5. CASE RollBackMint(t)
  <2>1. /\ vehicle' = NoVehicle /\ title' = NoTitle /\ asked' = "absent"
        /\ deal' = [q \in Transfers |-> NoDeal] /\ tx' = Cascaded({1})
    BY <1>5 DEF RollBackMint
  <2>2. tx' \in [Txs -> TitleTxs] /\ Relayed({1})
    BY <1>1, <2>1, CascadeStep DEF TitleTxs
  <2>3. TitleAlike
    BY <1>3, <2>2 DEF TitleAlike, Relayed, RelayedTx
  <2>4. VehicleSound(vehicle') /\ AskedSound(asked') /\ DealsSound(deal')
    BY <2>1 DEF NoVehicle, NoDeal, VehicleSound, VehicleRows, CarStatus, AskedSound,
       DealsSound, DealRows
  <2>5. OwnerSound(title')
    BY <1>1, <2>1, TitleMirrorAssumption DEF NoTitle, OwnerSound, TitleRows, CarValues
  <2> QED
    BY <1>2, <2>3, <2>4, <2>5, TitleSteady DEF TitleAlike
<1>6. CASE ~RollBackMint(t)
  <2>1. tx' = tx /\ title' = title /\ asked' = asked /\ deal' = deal
    BY <1>6 DEF TitleRollBack, RollBackAssign, RollBackRegister, RollBackScrap
  <2>2. TitleAlike
    BY <1>1, <1>3, <2>1 DEF TitleAlike
  <2>3. VehicleSound(vehicle')
    <3>1. CASE RollBackAssign(t)
      <4>1. vehicle' = [status |-> vehicle.status, dvp |-> vehicle.dvp, dealer |-> "none",
                        allowed |-> vehicle.allowed]
        BY <1>4, <3>1 DEF RollBackAssign, VehicleRows
      <4> QED
        BY <1>4, <4>1, VehicleWritten
    <3>2. CASE RollBackScrap(t)
      <4>1. vehicle' = [status |-> "ACTIVE", dvp |-> vehicle.dvp, dealer |-> vehicle.dealer,
                        allowed |-> vehicle.allowed]
        BY <1>4, <3>2 DEF RollBackScrap, VehicleRows
      <4>2. car.owner > 0
        BY <3>2 DEF RollBackScrap, RollsBack, RollingBack, TitleInv, TitleSound, MinedTitle
      <4> QED
        BY <1>4, <4>1, <4>2, VehicleWritten
    <3>3. CASE RollBackRegister(t)
      BY <1>1, <3>3 DEF RollBackRegister
    <3> QED
      BY <1>6, <3>1, <3>2, <3>3 DEF TitleRollBack
  <2> QED
    BY <1>1, <1>2, <2>1, <2>2, <2>3, TitleSteady DEF TitleAlike
<1> QED
  BY <1>5, <1>6

(* Events of citizens' transactions                                         *)
LEMMA TitleEchoStep ==
    ASSUME TitleInv, EchoHandle
    PROVE  TitleInv'
<1>1. PICK e \in echo :
        \/ HandleStatusChange(e) \/ HandleScrapAuthorized(e) \/ HandleXferInit(e)
        \/ HandleXferApproved(e) \/ HandleXferCancelled(e) \/ HandleXferDone(e)
        \/ LoseEcho(e)
  BY DEF EchoHandle
<1>2. /\ VehicleSound(vehicle) /\ OwnerSound(title) /\ AskedSound(asked) /\ DealsSound(deal)
      /\ tx \in [Txs -> TitleTxs] /\ RelayCounters /\ car \in CarValues
      /\ e \in Echoes /\ EchoSound(e)
  BY RowsSound DEF TitleInv, TitleSound, TitleTypeOK
<1>3. /\ vehicle \in VehicleRows /\ vehicle.status \in CarStatus /\ vehicle.dvp \in BOOLEAN
      /\ vehicle.dealer \in {"none", "lower", "mixed"} /\ vehicle.allowed \in BOOLEAN
      /\ vehicle.dvp => car.status # "none"
      /\ vehicle.dealer # "none" => car.dealer
      /\ vehicle.status = "ACTIVE" => car.owner > 0
      /\ vehicle.status = "SCRAPPED" => car.status = "SCRAPPED"
  BY <1>2 DEF VehicleSound, VehicleRows
<1>4. CASE LoseEcho(e)
  <2>1. /\ tx' = tx /\ sweep' = sweep /\ crashes' = crashes /\ losses' = losses + 1
        /\ losses < MaxLosses /\ car' = car /\ deed' = deed /\ echo' \subseteq echo
        /\ vehicle' = vehicle /\ title' = title /\ asked' = asked /\ deal' = deal
    BY <1>4 DEF LoseEcho
  <2>2. RelayCounters'
    BY <1>2, <2>1, RelayAssumption DEF RelayCounters
  <2> QED
    BY <1>2, <2>1, <2>2, TitleSteady
<1>5. ASSUME NEW ev, Hears(e, ev), VehicleSound(vehicle'), OwnerSound(title'), DealsSound(deal')
      PROVE  TitleInv'
  <2>1. /\ UNCHANGED relayVars /\ car' = car /\ deed' = deed /\ asked' = asked
        /\ echo' \subseteq echo
    BY <1>5 DEF Hears
  <2>2. TitleAlike
    BY <2>1, TitleRelay
  <2> QED
    BY <1>2, <1>5, <2>1, <2>2, TitleSteady DEF TitleAlike
<1>6. CASE HandleStatusChange(e)
  <2>1. /\ Hears(e, "StatusChange") /\ e.ev = "StatusChange" /\ title' = title /\ deal' = deal
        /\ vehicle' = [vehicle EXCEPT !.status = IF vehicle.dvp THEN e.to ELSE vehicle.status]
    BY <1>6 DEF HandleStatusChange, Hears
  <2>2. /\ e.to \in CarStatus
        /\ e.to = "ACTIVE" => car.owner > 0
        /\ e.to = "SCRAPPED" => car.status = "SCRAPPED"
    BY <1>2, <2>1 DEF EchoSound, CarStatus
  <2>3. PICK s \in {e.to, vehicle.status} :
          vehicle' = [status |-> s, dvp |-> vehicle.dvp, dealer |-> vehicle.dealer,
                      allowed |-> vehicle.allowed]
    BY <1>3, <2>1 DEF VehicleRows
  <2>4. /\ s \in CarStatus
        /\ s = "ACTIVE" => car.owner > 0
        /\ s = "SCRAPPED" => car.status = "SCRAPPED"
    BY <1>3, <2>2
  <2>5. VehicleSound(vehicle')
    BY <1>3, <2>3, <2>4, VehicleWritten
  <2> QED
    BY <1>2, <1>5, <2>1, <2>5
<1>7. CASE HandleScrapAuthorized(e)
  <2>1. /\ Hears(e, "ScrapAuthorized") /\ title' = title /\ deal' = deal
        /\ vehicle' = [vehicle EXCEPT !.allowed = vehicle.dvp]
    BY <1>7 DEF HandleScrapAuthorized
  <2>2. vehicle' = [status |-> vehicle.status, dvp |-> vehicle.dvp, dealer |-> vehicle.dealer,
                    allowed |-> vehicle.dvp]
    BY <1>3, <2>1 DEF VehicleRows
  <2>3. VehicleSound(vehicle')
    BY <1>3, <2>2, VehicleWritten
  <2> QED
    BY <1>2, <1>5, <2>1, <2>3
<1>8. ASSUME NEW ev, Hears(e, ev), NEW q \in Transfers, vehicle' = vehicle, title' = title,
             NEW s \in {"absent", "PENDING", "BUYER_ACCEPTED", "RTO_APPROVED", "CANCELLED"},
             deal' = [deal EXCEPT ![q].status = s],
             s # deal[q].status => /\ s = "RTO_APPROVED" => deed[q] = "done"
                                   /\ s = "CANCELLED" => deed[q] = "cancelled"
      PROVE  TitleInv'
  <2>1. deal[q] \in DealRows /\ deal \in [Transfers -> DealRows]
    BY <1>2, <1>8 DEF DealsSound
  <2>2. PICK row : row = [deal[q] EXCEPT !.status = s]
    OBVIOUS
  <2>3. row \in DealRows /\ row.status = s /\ deal' = [deal EXCEPT ![q] = row]
    <3>1. row \in DealRows /\ row.status = s
      BY <1>8, <2>1, <2>2 DEF DealRows
    <3>2. deal' = [deal EXCEPT ![q] = row]
      BY <1>8, <2>2
    <3> QED
      BY <3>1, <3>2
  <2>4. DealsSound(deal')
    BY <1>2, <1>8, <2>1, <2>3 DEF DealsSound
  <2> QED
    BY <1>2, <1>5, <1>8, <2>4
<1>9. /\ e.ev \in {"XferInit", "SellerOK", "BuyerOK", "RtoOK", "XferCancelled", "XferDone"} =>
           e.q \in Transfers /\ e.owner \in 0 .. MaxOwners
      /\ \A q \in Transfers : deal[q].status \in
           {"absent", "PENDING", "BUYER_ACCEPTED", "RTO_APPROVED", "CANCELLED"}
  BY <1>2 DEF Echoes, DealsSound, DealRows
<1>10. CASE HandleXferInit(e)
  <2>1. /\ Hears(e, "XferInit") /\ e.ev = "XferInit" /\ vehicle' = vehicle /\ title' = title
        /\ deal' = [deal EXCEPT ![e.q].status = IF title.made THEN "PENDING" ELSE deal[e.q].status]
    BY <1>10 DEF HandleXferInit, Hears
  <2>2. PICK s \in {"PENDING", deal[e.q].status} : deal' = [deal EXCEPT ![e.q].status = s]
    BY <2>1
  <2> QED
    BY <1>8, <1>9, <2>1, <2>2
<1>11. CASE HandleXferApproved(e)
  <2>1. /\ e.ev \in {"SellerOK", "BuyerOK", "RtoOK"} /\ Hears(e, e.ev)
        /\ vehicle' = vehicle /\ title' = title
        /\ deal' = [deal EXCEPT ![e.q].status = IF deal[e.q].status = "absent" THEN deal[e.q].status
                                                ELSE DealStatus[e.ev]]
    BY <1>11 DEF HandleXferApproved, DealStatus
  <2>2. /\ DealStatus[e.ev] \in {"PENDING", "BUYER_ACCEPTED", "RTO_APPROVED"}
        /\ DealStatus[e.ev] = "RTO_APPROVED" => e.ev = "RtoOK"
    BY <2>1 DEF DealStatus
  <2>3. PICK s \in {DealStatus[e.ev], deal[e.q].status} : deal' = [deal EXCEPT ![e.q].status = s]
    BY <2>1
  <2>4. e.ev = "RtoOK" => deed[e.q] = "done"
    BY <1>2 DEF EchoSound
  <2> QED
    BY <1>8, <1>9, <2>1, <2>2, <2>3, <2>4
<1>12. CASE HandleXferCancelled(e)
  <2>1. /\ e.ev = "XferCancelled" /\ Hears(e, "XferCancelled")
        /\ vehicle' = vehicle /\ title' = title
        /\ deal' = [deal EXCEPT ![e.q].status = IF deal[e.q].status = "absent" THEN deal[e.q].status
                                                ELSE "CANCELLED"]
    BY <1>12 DEF HandleXferCancelled, Hears
  <2>2. PICK s \in {"CANCELLED", deal[e.q].status} : deal' = [deal EXCEPT ![e.q].status = s]
    BY <2>1
  <2>3. deed[e.q] = "cancelled"
    BY <1>2, <2>1 DEF EchoSound
  <2> QED
    BY <1>8, <1>9, <2>1, <2>2, <2>3
<1>13. CASE HandleXferDone(e)
  <2>1. /\ e.ev = "XferDone" /\ Hears(e, "XferDone") /\ vehicle' = vehicle /\ deal' = deal
        /\ title' = IF title.made THEN [title EXCEPT !.owner = e.owner, !.wallet = "lower"]
                    ELSE title
    BY <1>13 DEF HandleXferDone, Hears
  <2>2. e.owner <= car.owner /\ e.owner \in 0 .. MaxOwners
    BY <1>2, <1>9, <2>1 DEF EchoSound
  <2>3. CASE title.made
    <3>1. title' = [made |-> title.made, active |-> title.active, owner |-> e.owner,
                    wallet |-> "lower"]
      BY <1>2, <2>1, <2>3 DEF OwnerSound, TitleRows
    <3>2. title' \in TitleRows
      BY <1>2, <2>2, <3>1 DEF OwnerSound, TitleRows
    <3>3. title'.made = title.made /\ title'.active = title.active /\ title'.owner = e.owner
      BY <3>1
    <3>4. OwnerSound(title')
      BY <1>2, <2>2, <3>2, <3>3 DEF OwnerSound
    <3> QED
      BY <1>2, <1>5, <2>1, <3>4
  <2>4. CASE ~title.made
    BY <1>2, <1>5, <2>1, <2>4
  <2> QED
    BY <2>3, <2>4
<1> QED
  BY <1>1, <1>4, <1>6, <1>7, <1>10, <1>11, <1>12, <1>13

LEMMA TitleInitial == TitleInit => TitleInv
<1> SUFFICES ASSUME TitleInit PROVE TitleInv
  OBVIOUS
<1>1. /\ tx \in [Txs -> TitleTx] /\ RelayCounters
      /\ \A s \in Txs : tx[s].op = "none" /\ tx[s].chain = "unsent" /\ tx[s].event = "none"
  BY RelayAssumption DEF TitleInit, RelayInit, NoTx, TitleTx, RelayCounters
<1>2. 0 \in 0 .. MaxOwners /\ 1 \in 0 .. MaxOwners
  BY TitleMirrorAssumption
<1>3. deed = [q \in Transfers |-> "none"] /\ echo = {} /\ deal = [q \in Transfers |-> NoDeal]
  BY DEF TitleInit
<1>4. /\ car \in CarValues /\ VehicleSound(vehicle) /\ OwnerSound(title) /\ AskedSound(asked)
      /\ car.owner > 0 <=> car.status \in {"ACTIVE", "SCRAPPED"}
  <2>1. CASE /\ car = [status |-> "none", dealer |-> FALSE, consent |-> FALSE, owner |-> 0]
             /\ vehicle = NoVehicle /\ title = NoTitle /\ asked = "absent"
    BY <1>2, <2>1 DEF CarValues, CarStatus, NoVehicle, NoTitle, VehicleSound, VehicleRows,
       OwnerSound, TitleRows, AskedSound
  <2>2. ASSUME NEW d \in BOOLEAN,
               car = [status |-> "NOT_REG", dealer |-> d, consent |-> FALSE, owner |-> 0],
               vehicle = [status |-> "NOT_REG", dvp |-> TRUE, allowed |-> FALSE,
                          dealer |-> IF d THEN "lower" ELSE "none"],
               title = NoTitle, asked = "absent"
        PROVE  /\ car \in CarValues /\ VehicleSound(vehicle) /\ OwnerSound(title) /\ AskedSound(asked)
               /\ car.owner > 0 <=> car.status \in {"ACTIVE", "SCRAPPED"}
    BY <1>2, <2>2 DEF CarValues, CarStatus, NoVehicle, NoTitle, VehicleSound, VehicleRows,
       OwnerSound, TitleRows, AskedSound
  <2>3. CASE /\ car = [status |-> "ACTIVE", dealer |-> TRUE, consent |-> FALSE, owner |-> 1]
             /\ vehicle = [status |-> "ACTIVE", dvp |-> TRUE, dealer |-> "lower",
                           allowed |-> FALSE]
             /\ title = [made |-> TRUE, active |-> TRUE, owner |-> 1, wallet |-> "lower"]
             /\ asked = "APPROVED"
    BY <1>2, <2>3 DEF CarValues, CarStatus, VehicleSound, VehicleRows,
       OwnerSound, TitleRows, AskedSound
  <2> QED
    BY <2>1, <2>2, <2>3 DEF TitleInit
<1>5. DealsSound(deal)
  BY <1>3 DEF NoDeal, DealsSound, DealRows
<1>6. TitleTypeOK
  BY <1>1, <1>3, <1>4, <1>5 DEF TitleTypeOK, RelayCounters, CarValues, VehicleSound,
     VehicleRows, OwnerSound, TitleRows, AskedSound, DealsSound, DealRows
<1>7. TitleNotAhead
  BY <1>4, <1>5 DEF TitleNotAhead, VehicleSound, OwnerSound, AskedSound, DealsSound
<1>8. EventsSound /\ TitleSound
  BY <1>1, <1>3, <1>4 DEF EventsSound, TitleSound, MinedTitle
<1> QED
  BY <1>6, <1>7, <1>8 DEF TitleInv

LEMMA TitleInductive == TitleInv /\ [TitleNext]_titleVars => TitleInv'
<1>1. ASSUME TitleInv, UNCHANGED titleVars PROVE TitleInv'
  <2>1. UNCHANGED relayVars
    BY <1>1 DEF titleVars
  <2>2. /\ car' = car /\ deed' = deed /\ echo' = echo /\ vehicle' = vehicle /\ title' = title
        /\ asked' = asked /\ deal' = deal
    BY <1>1 DEF titleVars, titleRest
  <2> QED
    BY <1>1, <2>1, <2>2, RowsSound, TitleRelay, TitleSteady DEF TitleAlike
<1>2. ASSUME TitleInv, UNCHANGED titleRest,
             Crash \/ \E t \in Txs : TxReverts(t) \/ RelayStep(t)
      PROVE  TitleInv'
  <2>1. /\ car' = car /\ deed' = deed /\ echo' = echo /\ vehicle' = vehicle /\ title' = title
        /\ asked' = asked /\ deal' = deal
    BY <1>2 DEF titleRest
  <2>2. TitleAlike
    BY <1>2, TitleRelay
  <2> QED
    BY <1>2, <2>1, <2>2, RowsSound, TitleSteady DEF TitleAlike
<1>3. ASSUME TitleInv, TitleNext PROVE TitleInv'
  BY <1>2, <1>3, TitleRequestStep, TitleStoreStep, TitleMineStep, TitleHandleStep,
     TitleReplayStep, TitleRollBackStep, TitleWalletStep, TitleEchoStep
     DEF TitleNext, TitleTxReverts
<1> QED
  BY <1>1, <1>3

(* No row of the vehicle, its title, its registration or its transfers shows *)
(* a step of its life that has not happened on chain, in whatever order      *)
(* events are handled, however often, and whatever is lost, replayed or      *)
(* rolled back.                                                              *)
THEOREM TitleNotAheadAlways == TitleSpec => []TitleNotAhead
<1>1. TitleInv => TitleNotAhead
  BY DEF TitleInv
<1> QED
  BY TitleInitial, TitleInductive, <1>1, PTL DEF TitleSpec
-----------------------------------------------------------------------------
(* DOCUMENTS                                                                *)

IssueOps == {"issuePolicy", "issuePUC", "issueFailedPUC"}
LaterOps == {"expirePolicy", "expirePUC", "fileClaim"}

LEMMA DocOps ==
    DOMAIN Issues = IssueOps /\ DOMAIN Expires \cup {"fileClaim"} = LaterOps
    /\ DOMAIN Expires = {"expirePolicy", "expirePUC"}
BY DEF Issues, Expires, IssueOps, LaterOps

DocNames == IssueOps \cup LaterOps \cup {"none"}
DocIds == Docs \cup {0}
DocRefs == DocRows \cup {0}
DocBys == 0 .. ClaimCap
DocTxs == TxOf(DocNames, DocIds, DocBys, DocRefs, DocRefs)
Papers == [kind : Kinds \cup {"none"}, valid : BOOLEAN, passed : BOOLEAN, past : BOOLEAN,
           claims : 0 .. ClaimCap]
DocRecords == [kind : Kinds \cup {"none"},
               status : {"absent", "deleted", "ACTIVE", "EXPIRED", "CANCELLED"},
               did : Docs \cup {0}, passed : BOOLEAN, past : BOOLEAN, claims : Int]

LEMMA DocTyping == DocTx = DocTxs
<1>1. DOMAIN Issues \cup DOMAIN Expires \cup {"fileClaim", "none"} = DocNames
  BY DocOps DEF DocNames, LaterOps
<1> QED
  BY <1>1 DEF DocTx, DocTxs, TxOf, DocIds, DocRefs, DocBys

LEMMA DocShape ==
    ASSUME DocShapes
    PROVE  /\ tx \in [Txs -> DocTxs] /\ RelayCounters
           /\ paper \in [Docs -> Papers] /\ doc \in [DocRows -> DocRecords]
           /\ current \in [Kinds -> Docs \cup {0}] /\ ending \subseteq Docs /\ scrapped \in BOOLEAN
           /\ \A t \in Txs : /\ tx[t] \in DocTxs /\ tx[t].op \in DocNames
                             /\ tx[t].id \in Docs \cup {0} /\ tx[t].link \in DocRows \cup {0}
                             /\ tx[t].seen \in DocRows \cup {0} /\ tx[t].by \in 0 .. ClaimCap
           /\ \A d \in Docs : paper[d] \in Papers
           /\ \A r \in DocRows : /\ doc[r] \in DocRecords /\ doc[r].did \in Docs \cup {0}
                                 /\ doc[r].claims \in Int
           /\ 0 \notin Docs /\ 0 \notin DocRows
<1>1. tx \in [Txs -> DocTxs]
  BY DocTyping DEF DocShapes
<1>2. \A t \in Txs : tx[t] \in DocTxs
  BY <1>1
<1>3. \A t \in Txs : /\ tx[t].op \in DocNames
                     /\ tx[t].id \in Docs \cup {0} /\ tx[t].link \in DocRows \cup {0}
                     /\ tx[t].seen \in DocRows \cup {0} /\ tx[t].by \in 0 .. ClaimCap
  BY <1>2 DEF DocTxs, TxOf, DocIds, DocRefs, DocBys
<1>4. 0 \notin Docs /\ 0 \notin DocRows
  BY DEF Docs, DocRows
<1>5. doc \in [DocRows -> DocRecords] /\ paper \in [Docs -> Papers]
  BY DEF DocShapes, DocRecords, Papers
<1>6. \A r \in DocRows : doc[r] \in DocRecords /\ doc[r].did \in Docs \cup {0} /\ doc[r].claims \in Int
  BY <1>5 DEF DocRecords
<1> QED
  BY <1>1, <1>2, <1>3, <1>4, <1>5, <1>6 DEF DocShapes, RelayCounters

(* Documents stay what they are, and do not become valid again.             *)
DocOnward ==
    /\ \A d \in Docs : paper[d].kind # "none" =>
         paper'[d].kind # "none" /\ (paper'[d].valid => paper[d].valid)
    /\ scrapped => scrapped'

(* What a step may do to a row: delete it, give it the id of the transaction *)
(* that issues it (any, after a scrapping), end it when its document has.   *)
RowKept(r, gone) ==
    \/ r \in gone /\ doc'[r].did = 0 /\ doc'[r].status = "deleted"
    \/ /\ doc'[r].status = "absent" => doc[r].status = "absent"
       /\ \/ doc'[r].did = doc[r].did
          \/ /\ doc'[r].did # 0 /\ paper'[doc'[r].did].kind # "none"
             /\ \/ scrapped'
                \/ /\ doc[r].did = 0
                   /\ \A s \in Txs : tx[s].op \in IssueOps /\ tx[s].link = r => tx[s].id = doc'[r].did
       /\ doc'[r].status \in {"EXPIRED", "CANCELLED"} =>
             doc'[r].did # 0 /\ ~paper'[doc'[r].did].valid

LEMMA RowUntouched ==
    ASSUME DocInv, DocOnward, NEW r \in DocRows, NEW gone, doc'[r].did = doc[r].did,
           doc'[r].status \in {doc[r].status, "ACTIVE"}
    PROVE  RowKept(r, gone)
<1>1. doc[r].did \in Docs \cup {0}
  BY DocShape DEF DocInv
<1>2. doc'[r].status \in {"EXPIRED", "CANCELLED"} => doc'[r].did # 0 /\ ~paper'[doc'[r].did].valid
  BY <1>1 DEF DocInv, DocumentsMatchChain, DocLinks, DocOnward
<1> QED
  BY <1>2 DEF RowKept

LEMMA DocTxKept ==
    ASSUME DocInv, DocOnward, NEW gone, \A r \in DocRows : RowKept(r, gone),
           NEW s \in Txs, RelayedTx(s, gone), DocShapes',
           tx[s].op \in IssueOps /\ tx[s].link # 0 /\ tx[s].link \in gone => tx[s].chain # "mined",
           \A q \in Txs \ {s} : tx[s].op \in IssueOps /\ tx'[q].op \in IssueOps /\ tx[s].link # 0 =>
                                  tx'[q].link # tx[s].link
    PROVE  DocTxSound(s)'
<1>1. /\ tx[s].id \in Docs \cup {0} /\ tx[s].link \in DocRows \cup {0}
      /\ DocTxSound(s) /\ (tx[s].event # "none" => tx[s].chain = "mined")
  BY DocShape DEF DocInv, DocLinks, EventsSound
<1>2. tx'[s].id # 0 => paper'[tx'[s].id].kind # "none"
  BY <1>1 DEF RelayedTx, DocOnward, DocTxSound
<1>3. /\ tx'[s].op = tx[s].op /\ tx'[s].id = tx[s].id
      /\ tx'[s].link # 0 => tx'[s].link = tx[s].link /\ tx[s].link \notin gone
  BY DEF RelayedTx
<1>4. ASSUME tx[s].op \in IssueOps PROVE IssueSound(s)'
  <2>1. IssueSound(s)
    BY <1>1, <1>4, DocOps DEF DocTxSound
  <2>2. /\ tx'[s].id # 0 <=> tx'[s].chain = "mined"
        /\ tx'[s].row = "absent" => tx'[s].link = 0
        /\ tx'[s].seen \in {0, tx'[s].link}
        /\ tx'[s].chain # "mined" => tx'[s].seen = 0
    BY <1>1, <1>4, <2>1 DEF IssueSound, RelayedTx
  <2>3. ASSUME tx'[s].link # 0
        PROVE  /\ doc'[tx'[s].link].status # "absent"
               /\ scrapped' \/ doc'[tx'[s].link].did \in {0, tx'[s].id}
    <3>1. /\ tx[s].link \in DocRows /\ doc[tx[s].link].status # "absent"
          /\ scrapped \/ doc[tx[s].link].did \in {0, tx[s].id}
          /\ RowKept(tx[s].link, gone)
      BY <1>1, <1>3, <2>1, <2>3 DEF IssueSound
    <3> QED
      BY <1>3, <1>4, <2>3, <3>1 DEF RowKept, DocOnward
  <2>4. ASSUME tx'[s].link # 0, NEW q \in Txs \ {s}, tx'[q].op \in DOMAIN Issues
        PROVE  tx'[q].link # tx'[s].link
    BY <1>3, <1>4, <2>4, DocOps
  <2> QED
    BY <2>2, <2>3, <2>4 DEF IssueSound
<1>5. ASSUME tx[s].op \in LaterOps PROVE LaterSound(s)'
  <2>1. LaterSound(s)
    BY <1>1, <1>5, DocOps DEF DocTxSound
  <2>2. tx'[s].id # 0
    BY <1>3, <2>1 DEF LaterSound
  <2>3. ASSUME tx'[s].link # 0
        PROVE  /\ doc'[tx'[s].link].did # 0
               /\ scrapped' \/ doc'[tx'[s].link].did = tx'[s].id
    <3>1. /\ tx[s].link \in DocRows /\ doc[tx[s].link].did # 0
          /\ scrapped \/ doc[tx[s].link].did = tx[s].id
          /\ RowKept(tx[s].link, gone)
      BY <1>1, <1>3, <2>1, <2>3 DEF LaterSound
    <3> QED
      BY <1>3, <2>3, <3>1 DEF RowKept, DocOnward
  <2>4. tx'[s].op \in DOMAIN Expires /\ tx'[s].chain = "mined" => ~paper'[tx'[s].id].valid
    BY <1>1, <1>3, <2>1 DEF LaterSound, RelayedTx, DocOnward, DocTxSound
  <2> QED
    BY <2>2, <2>3, <2>4 DEF LaterSound
<1> QED
  BY <1>2, <1>3, <1>4, <1>5, DocOps DEF DocTxSound

(* The invariant from its parts                                             *)
LEMMA DocKept ==
    ASSUME DocInv, DocShapes', EventsSound', SweepSound', PapersSound', DocOnward, NEW gone,
           \A r \in DocRows : RowKept(r, gone), \A s \in Txs : DocTxSound(s)'
    PROVE  DocInv'
<1>1. ASSUME NEW r \in DocRows, doc'[r].did # 0 PROVE paper'[doc'[r].did].kind # "none"
  <2>1. doc[r].did \in Docs \cup {0} /\ RowKept(r, gone)
    BY <1>1, DocShape DEF DocInv
  <2> QED
    BY <1>1, <2>1 DEF RowKept, DocOnward, DocInv, DocLinks
<1>2. DocLinks'
  BY <1>1 DEF DocLinks
<1>3. ASSUME NEW r \in DocRows, doc'[r].status \in {"EXPIRED", "CANCELLED"}
      PROVE  doc'[r].did # 0 /\ ~paper'[doc'[r].did].valid
  BY <1>3 DEF RowKept
<1>4. DocumentsMatchChain'
  BY <1>3 DEF DocumentsMatchChain
<1> QED
  BY <1>2, <1>4 DEF DocInv

(* A step that leaves the contracts alone and does not store a new row      *)
LEMMA DocSteady ==
    ASSUME DocInv, NEW gone, Relayed(gone), tx' \in [Txs -> DocTxs], RelayCounters', SweepMoves,
           paper' = paper, current' = current, scrapped' = scrapped, ending' \subseteq ending,
           doc' \in [DocRows -> DocRecords], \A r \in DocRows : RowKept(r, gone),
           \A s \in Txs : tx[s].op \in IssueOps /\ tx[s].link # 0 /\ tx[s].link \in gone =>
                            tx[s].chain # "mined"
    PROVE  DocInv'
<1>1. DocShapes'
  BY DocTyping DEF DocInv, DocShapes, RelayCounters, DocRecords
<1>2. EventsSound' /\ SweepSound'
  BY RelayedSound DEF DocInv
<1>3. PapersSound'
  BY DEF DocInv, PapersSound
<1>4. DocOnward
  BY DEF DocOnward
<1>5. ASSUME NEW s \in Txs PROVE DocTxSound(s)'
  <2>1. RelayedTx(s, gone) /\ \A q \in Txs : RelayedTx(q, gone)
    BY DEF Relayed
  <2>2. ASSUME NEW q \in Txs \ {s}, tx[s].op \in IssueOps, tx'[q].op \in IssueOps, tx[s].link # 0
        PROVE  tx'[q].link # tx[s].link
    <3>1. tx[q].op \in IssueOps /\ tx'[q].link \in {0, tx[q].link}
      BY <2>1, <2>2 DEF RelayedTx
    <3>2. IssueSound(s)
      BY <2>2, DocOps DEF DocInv, DocLinks, DocTxSound
    <3> QED
      BY <2>2, <3>1, <3>2, DocOps DEF IssueSound
  <2> QED
    BY <1>1, <1>4, <2>1, <2>2, DocTxKept
<1> QED
  BY <1>1, <1>2, <1>3, <1>4, <1>5, DocKept

(* Steps of transactions that submit, mine and link none                    *)
DocAlike == /\ Relayed({}) /\ tx' \in [Txs -> DocTxs] /\ RelayCounters' /\ SweepMoves

LEMMA DocRelay ==
    ASSUME DocInv,
           \/ \E t \in Txs :
                \/ tx[t].event # "none" /\ (AppliedBy(t) \/ Swallowed(t) \/ ReadBy(t))
                \/ Replayed(t) \/ StoreTx(t, tx[t].link) \/ TxReverts(t) \/ RelayStep(t)
           \/ RolledBack \/ UNCHANGED relayVars \/ Crash
    PROVE  DocAlike
<1>1. tx \in [Txs -> DocTxs] /\ RelayCounters
  BY DocShape DEF DocInv
<1>2. 0 \in DocRefs /\ DocRefs \subseteq DocRefs
  BY DEF DocRefs
<1> QED
  BY <1>1, <1>2, RelaySteps, NoTxStep, CrashStep DEF DocTxs, DocAlike

(* One row is written.                                                      *)
LEMMA DocWritten ==
    ASSUME DocInv, DocAlike, paper' = paper, current' = current, scrapped' = scrapped,
           ending' \subseteq ending, NEW q \in DocRows, NEW row \in DocRecords,
           doc' = [doc EXCEPT ![q] = row], RowKept(q, {})
    PROVE  DocInv'
<1>1. doc \in [DocRows -> DocRecords]
  BY DocShape DEF DocInv
<1>2. doc' \in [DocRows -> DocRecords] /\ doc'[q] = row /\ \A r \in DocRows \ {q} : doc'[r] = doc[r]
  BY <1>1
<1>3. DocOnward
  BY DEF DocOnward
<1>4. ASSUME NEW r \in DocRows PROVE RowKept(r, {})
  <2>1. CASE r # q
    BY <1>2, <1>3, <2>1, RowUntouched
  <2> QED
    BY <2>1
<1> QED
  BY <1>2, <1>4, DocSteady DEF DocAlike

(* No row is written, or what the rows show of documents stays.             *)
LEMMA DocUntouched ==
    ASSUME DocInv, DocAlike, paper' = paper, current' = current, scrapped' = scrapped,
           ending' \subseteq ending, doc' \in [DocRows -> DocRecords],
           \A r \in DocRows : /\ doc'[r].did = doc[r].did
                              /\ doc'[r].status \in {doc[r].status, "ACTIVE"}
    PROVE  DocInv'
<1>1. DocOnward
  BY DEF DocOnward
<1>2. \A r \in DocRows : RowKept(r, {})
  BY <1>1, RowUntouched
<1> QED
  BY <1>2, DocSteady DEF DocAlike

(* A row takes the id of the transaction that issues it ...                 *)
LEMMA DocIdentified ==
    ASSUME DocInv, NEW t \in Txs, tx[t].op \in IssueOps, tx[t].chain = "mined",
           tx[t].link \in DocRows, doc' = [doc EXCEPT ![tx[t].link].did = tx[t].id,
                                                      ![tx[t].link].status = "ACTIVE"],
           DocAlike, paper' = paper, current' = current, scrapped' = scrapped, ending' = ending
    PROVE  DocInv'
<1> DEFINE r == tx[t].link
           d == tx[t].id
<1>1. /\ IssueSound(t) /\ d # 0 /\ d \in Docs /\ paper[d].kind # "none"
      /\ doc[r] \in DocRecords /\ doc[r].did \in Docs \cup {0} /\ r # 0
  BY DocOps, DocShape DEF DocInv, DocLinks, DocTxSound, IssueSound
<1>2. PICK row : row = [doc[r] EXCEPT !.did = d, !.status = "ACTIVE"]
  OBVIOUS
<1>3. row \in DocRecords /\ row.did = d /\ row.status = "ACTIVE"
  BY <1>1, <1>2 DEF DocRecords
<1>4. doc' = [doc EXCEPT ![r] = row]
  BY <1>2
<1>5. doc'[r] = row
  BY <1>4, DocShape DEF DocInv
<1>6. ASSUME NEW s \in Txs, tx[s].op \in IssueOps, tx[s].link = r PROVE tx[s].id = d
  BY <1>1, <1>6, DocOps DEF IssueSound
<1>7. doc[r].did = d \/ scrapped \/ doc[r].did = 0
  BY <1>1 DEF IssueSound
<1>8. RowKept(r, {})
  BY <1>1, <1>3, <1>5, <1>6, <1>7 DEF RowKept
<1> QED
  BY <1>3, <1>4, <1>8, DocWritten

(* ... and rows of a document that is not valid are ended.                  *)
LEMMA DocEnded ==
    ASSUME DocInv, DocAlike, paper' = paper, current' = current, scrapped' = scrapped,
           ending' = ending, NEW rows, doc' = DocMarked(rows, "EXPIRED"),
           \A r \in DocRows : r \in rows => doc[r].did # 0 /\ ~paper[doc[r].did].valid
    PROVE  DocInv'
<1>1. ASSUME NEW r \in DocRows
      PROVE  /\ doc'[r] \in DocRecords /\ doc'[r].did = doc[r].did
             /\ \/ doc'[r].status = doc[r].status
                \/ doc'[r].status = "EXPIRED" /\ doc[r].did # 0 /\ ~paper[doc[r].did].valid
  <2>1. doc[r] \in DocRecords
    BY DocShape DEF DocInv
  <2>2. CASE r \in rows
    <3>1. doc'[r] = [doc[r] EXCEPT !.status = "EXPIRED"]
      BY <2>2 DEF DocMarked
    <3> QED
      BY <2>1, <2>2, <3>1 DEF DocRecords
  <2>3. CASE r \notin rows
    <3>1. doc'[r] = doc[r]
      BY <2>3 DEF DocMarked
    <3> QED
      BY <2>1, <3>1
  <2> QED
    BY <2>2, <2>3
<1>2. doc' \in [DocRows -> DocRecords]
  <2>1. doc' = [r \in DocRows |-> doc'[r]]
    BY DEF DocMarked
  <2> QED
    BY <1>1, <2>1
<1>3. DocOnward
  BY DEF DocOnward
<1>4. ASSUME NEW r \in DocRows PROVE RowKept(r, {})
  <2>1. CASE doc'[r].status = doc[r].status
    BY <1>1, <1>3, <2>1, RowUntouched
  <2>2. CASE doc'[r].status # doc[r].status
    BY <1>1, <2>2 DEF RowKept
  <2> QED
    BY <2>1, <2>2
<1> QED
  BY <1>2, <1>4, DocSteady DEF DocAlike

LEMMA DocHandleStep ==
    ASSUME DocInv, NEW t \in Txs, DocHandle(t)
    PROVE  DocInv'
<1>0. /\ tx[t] \in DocTxs /\ tx[t].id \in Docs \cup {0} /\ tx[t].by \in Int
      /\ tx[t].link \in DocRows \cup {0} /\ tx[t].seen \in DocRows \cup {0} /\ 0 \notin DocRows
      /\ tx[t].event # "none" => tx[t].chain = "mined"
      /\ doc \in [DocRows -> DocRecords]
      /\ \A r \in DocRows : doc[r] \in DocRecords /\ doc[r].did \in Docs \cup {0}
  BY DocShape DEF DocInv, EventsSound
<1>1. CASE HandlePolicyIssued(t) \/ HandlePUCIssued(t) \/ DocIssuedFails(t)
  <2>1. /\ tx[t].event # "none" /\ (ReadBy(t) \/ Swallowed(t))
        /\ paper' = paper /\ current' = current /\ scrapped' = scrapped /\ ending' = ending
        /\ doc' = doc
    BY <1>1 DEF HandlePolicyIssued, HandlePUCIssued, DocIssuedRead, DocIssuedFails, docRest, SeenBy
  <2>2. DocAlike
    BY <2>1, DocRelay
  <2> QED
    BY <1>0, <2>1, <2>2, DocUntouched
<1>2. CASE DocIssuedWrite(t)
  <2>1. /\ tx[t].op \in IssueOps /\ tx[t].event = "read" /\ AppliedBy(t)
        /\ paper' = paper /\ current' = current /\ scrapped' = scrapped /\ ending' = ending
    BY <1>2, DocOps DEF DocIssuedWrite, SeenBy
  <2>2. DocAlike /\ tx[t].chain = "mined"
    BY <1>0, <2>1, DocRelay
  <2>3. /\ IssueSound(t) /\ tx[t].id # 0 /\ tx[t].id \in Docs /\ tx[t].seen \in {0, tx[t].link}
        /\ paper[tx[t].id].kind # "none"
    BY <1>0, <2>1, <2>2, DocOps DEF DocInv, DocLinks, DocTxSound, IssueSound
  <2>4. CASE tx[t].seen # 0 /\ doc' = [doc EXCEPT ![tx[t].seen].did = tx[t].id,
                                                  ![tx[t].seen].status = "ACTIVE"]
    <3>1. tx[t].seen = tx[t].link /\ tx[t].link \in DocRows
      BY <1>0, <2>3, <2>4
    <3> QED
      BY <2>1, <2>2, <2>4, <3>1, DocIdentified
  <2>5. ASSUME NEW q \in DocRows,
               IF DocRowOf(tx[t].id) # {} THEN q \in DocRowOf(tx[t].id) ELSE NextDocRow(q),
               doc' = [doc EXCEPT ![q].kind = "policy", ![q].did = tx[t].id, ![q].passed = TRUE,
                                  ![q].past = paper[tx[t].id].past, ![q].status = "ACTIVE"]
        PROVE  DocInv'
    <3>1. PICK row : row = [doc[q] EXCEPT !.kind = "policy", !.did = tx[t].id, !.passed = TRUE,
                                          !.past = paper[tx[t].id].past, !.status = "ACTIVE"]
      OBVIOUS
    <3>2. paper[tx[t].id].past \in BOOLEAN
      BY <2>3, DocShape DEF DocInv, Papers
    <3>3. row \in DocRecords /\ row.did = tx[t].id /\ row.status = "ACTIVE"
      BY <1>0, <2>3, <3>1, <3>2 DEF DocRecords, Kinds
    <3>4. doc' = [doc EXCEPT ![q] = row]
      BY <2>5, <3>1
    <3>5. doc'[q] = row
      BY <1>0, <3>4
    <3>6. doc[q].did = tx[t].id \/ doc[q] = NoDoc
      BY <2>5 DEF DocRowOf, NextDocRow
    <3>7. ASSUME doc[q] = NoDoc, NEW s \in Txs, tx[s].op \in IssueOps, tx[s].link = q
          PROVE  FALSE
      <4>1. IssueSound(s) /\ q # 0
        BY <1>0, <3>7, DocOps DEF DocInv, DocLinks, DocTxSound
      <4> QED
        BY <3>7, <4>1 DEF IssueSound, NoDoc
    <3>8. RowKept(q, {})
      BY <2>1, <2>3, <3>3, <3>5, <3>6, <3>7 DEF RowKept, NoDoc
    <3> QED
      BY <2>1, <2>2, <3>3, <3>4, <3>8, DocWritten
  <2>6. CASE doc' = doc
    BY <1>0, <2>1, <2>2, <2>6, DocUntouched
  <2> QED
    BY <1>2, <2>4, <2>5, <2>6 DEF DocIssuedWrite
<1>3. CASE HandlePolicyExpired(t) \/ HandlePUCExpired(t)
  <2>1. /\ tx[t].op \in DOMAIN Expires /\ tx[t].event # "none" /\ AppliedBy(t)
        /\ paper' = paper /\ current' = current /\ scrapped' = scrapped /\ ending' = ending
        /\ doc' = DocMarked(DocRowOf(tx[t].id), "EXPIRED")
    BY <1>3 DEF HandlePolicyExpired, HandlePUCExpired, HandleDocExpired
  <2>2. DocAlike
    BY <2>1, DocRelay
  <2>3. LaterSound(t)
    BY <2>1 DEF DocInv, DocLinks, DocTxSound
  <2>4. tx[t].id # 0 /\ ~paper[tx[t].id].valid
    BY <1>0, <2>1, <2>3 DEF LaterSound
  <2>5. \A r \in DocRows : r \in DocRowOf(tx[t].id) => doc[r].did # 0 /\ ~paper[doc[r].did].valid
    BY <2>4 DEF DocRowOf
  <2> QED
    BY <2>1, <2>2, <2>5, DocEnded
<1>4. CASE HandleClaimFiled(t)
  <2>1. /\ tx[t].event # "none" /\ AppliedBy(t)
        /\ paper' = paper /\ current' = current /\ scrapped' = scrapped /\ ending' = ending
        /\ doc' = [r \in DocRows |-> IF doc[r].did = tx[t].id
                                     THEN [doc[r] EXCEPT !.claims = tx[t].by] ELSE doc[r]]
    BY <1>4 DEF HandleClaimFiled, Arrived
  <2>2. DocAlike
    BY <2>1, DocRelay
  <2>3. ASSUME NEW r \in DocRows
        PROVE  doc'[r] \in DocRecords /\ doc'[r].did = doc[r].did /\ doc'[r].status = doc[r].status
    <3>1. doc'[r] = [doc[r] EXCEPT !.claims = tx[t].by] \/ doc'[r] = doc[r]
      BY <2>1
    <3> QED
      BY <1>0, <3>1 DEF DocRecords
  <2>4. doc' \in [DocRows -> DocRecords]
    BY <2>1, <2>3
  <2> QED
    BY <2>1, <2>2, <2>3, <2>4, DocUntouched
<1> QED
  BY <1>1, <1>2, <1>3, <1>4 DEF DocHandle

LEMMA DocReplayStep ==
    ASSUME DocInv, NEW t \in Txs, DocReplay(t)
    PROVE  DocInv'
<1>0. /\ tx[t].id \in Docs \cup {0} /\ tx[t].by \in Int
      /\ tx[t].link \in DocRows \cup {0} /\ 0 \notin DocRows
      /\ doc \in [DocRows -> DocRecords]
      /\ \A r \in DocRows : doc[r] \in DocRecords /\ doc[r].did \in Docs \cup {0}
  BY DocShape DEF DocInv
<1>1. /\ Replayed(t) /\ tx[t].chain = "mined"
      /\ paper' = paper /\ current' = current /\ scrapped' = scrapped /\ ending' = ending
  BY DEF DocReplay, ReplayPolicyIssue, ReplayPucIssue, ReplayDocIssue, ReplayPolicyExpire,
     ReplayPucExpire, ReplayDocExpire, ReplayClaim, FoundMined
<1>2. DocAlike
  BY <1>1, DocRelay
<1>3. CASE ReplayPolicyIssue(t) \/ ReplayPucIssue(t)
  <2>1. /\ tx[t].op \in IssueOps
        /\ doc' = [doc EXCEPT ![tx[t].link].did = tx[t].id, ![tx[t].link].status = "ACTIVE"]
    BY <1>3, DocOps DEF ReplayPolicyIssue, ReplayPucIssue, ReplayDocIssue
  <2>2. CASE tx[t].link \in DocRows
    BY <1>1, <1>2, <2>1, <2>2, DocIdentified
  <2>3. CASE tx[t].link = 0
    <3>1. doc' = doc
      BY <1>0, <2>1, <2>3
    <3> QED
      BY <1>0, <1>1, <1>2, <3>1, DocUntouched
  <2> QED
    BY <1>0, <2>2, <2>3
<1>4. CASE ReplayPolicyExpire(t) \/ ReplayPucExpire(t)
  <2>1. tx[t].op \in DOMAIN Expires /\ doc' = DocMarked({tx[t].link}, "EXPIRED")
    BY <1>4 DEF ReplayPolicyExpire, ReplayPucExpire, ReplayDocExpire
  <2>2. LaterSound(t)
    BY <2>1 DEF DocInv, DocLinks, DocTxSound
  <2>3. ASSUME NEW r \in DocRows, r \in {tx[t].link}
        PROVE  doc[r].did # 0 /\ ~paper[doc[r].did].valid
    <3>1. r = tx[t].link /\ r # 0
      BY <1>0, <2>3
    <3>2. doc[r].did # 0 /\ (scrapped \/ doc[r].did = tx[t].id) /\ doc[r].did \in Docs
      BY <1>0, <2>2, <3>1 DEF LaterSound
    <3>3. scrapped => ~paper[doc[r].did].valid
      BY <3>2 DEF DocInv, PapersSound
    <3> QED
      BY <1>1, <2>1, <2>2, <3>2, <3>3 DEF LaterSound
  <2> QED
    BY <1>1, <1>2, <2>1, <2>3, DocEnded
<1>5. CASE ReplayClaim(t)
  <2>1. doc' = [doc EXCEPT ![tx[t].link].claims = tx[t].by]
    BY <1>5 DEF ReplayClaim
  <2>2. CASE tx[t].link \in DocRows
    <3>1. PICK row : row = [doc[tx[t].link] EXCEPT !.claims = tx[t].by]
      OBVIOUS
    <3>2. row \in DocRecords /\ row.did = doc[tx[t].link].did /\ row.status = doc[tx[t].link].status
      BY <1>0, <2>2, <3>1 DEF DocRecords
    <3>3. doc' = [doc EXCEPT ![tx[t].link] = row]
      BY <2>1, <3>1
    <3>4. /\ doc' \in [DocRows -> DocRecords]
          /\ \A r \in DocRows : doc'[r].did = doc[r].did /\ doc'[r].status = doc[r].status
      BY <1>0, <2>2, <3>2, <3>3
    <3> QED
      BY <1>1, <1>2, <3>4, DocUntouched
  <2>3. CASE tx[t].link = 0
    <3>1. doc' = doc
      BY <1>0, <2>1, <2>3
    <3> QED
      BY <1>0, <1>1, <1>2, <3>1, DocUntouched
  <2> QED
    BY <1>0, <2>2, <2>3
<1> QED
  BY <1>3, <1>4, <1>5 DEF DocReplay

(* Only a row whose issue reverted is deleted.                              *)
LEMMA DocRollBackStep ==
    ASSUME DocInv, NEW t \in Txs, DocRollBack(t)
    PROVE  DocInv'
<1>0. /\ tx[t].link \in DocRows \cup {0} /\ 0 \notin DocRows
      /\ tx \in [Txs -> DocTxs] /\ RelayCounters
      /\ doc \in [DocRows -> DocRecords]
      /\ \A r \in DocRows : /\ doc[r] \in DocRecords /\ doc[r].did \in Docs \cup {0}
                            /\ doc[r].claims \in Int
  BY DocShape DEF DocInv
<1>1. /\ sweep = t
      /\ paper' = paper /\ current' = current /\ scrapped' = scrapped /\ ending' = ending
  BY DEF DocRollBack, RollBackPolicyIssue, RollBackPucIssue, RollBackDocIssue,
     RollBackPolicyExpire, RollBackPucExpire, RollBackDocExpire, RollBackClaim, RollingBack
<1>2. tx[t].chain = "reverted"
  BY <1>1 DEF DocInv, SweepSound, Txs
<1>3. CASE RollBackPolicyIssue(t) \/ RollBackPucIssue(t)
  <2>1. /\ tx[t].op \in IssueOps /\ sweep' = 0 /\ crashes' = crashes /\ losses' = losses
        /\ tx' = Cascaded({tx[t].link})
        /\ doc' = [doc EXCEPT ![tx[t].link] = [NoDoc EXCEPT !.status = "deleted"]]
    BY <1>3, DocOps DEF RollBackPolicyIssue, RollBackPucIssue, RollBackDocIssue
  <2>2. tx' \in [Txs -> DocTxs] /\ Relayed({tx[t].link})
    <3>1. 0 \in DocRefs
      BY DEF DocRefs
    <3> QED
      BY <1>0, <2>1, <3>1, CascadeStep DEF DocTxs
  <2>3. RelayCounters' /\ SweepMoves
    BY <1>0, <2>1 DEF RelayCounters, SweepMoves
  <2>4. PICK row : row = [NoDoc EXCEPT !.status = "deleted"]
    OBVIOUS
  <2>5. row \in DocRecords /\ row.did = 0 /\ row.status = "deleted"
    <3>1. row = [kind |-> "none", status |-> "deleted", did |-> 0, passed |-> FALSE,
                 past |-> FALSE, claims |-> 0]
      BY <2>4 DEF NoDoc
    <3> QED
      BY <3>1 DEF DocRecords, Kinds
  <2>6. doc' = [doc EXCEPT ![tx[t].link] = row]
    BY <2>1, <2>4
  <2>7. doc' \in [DocRows -> DocRecords]
    BY <1>0, <2>5, <2>6
  <2>8. DocOnward
    BY <1>1 DEF DocOnward
  <2>9. ASSUME NEW r \in DocRows PROVE RowKept(r, {tx[t].link})
    <3>1. CASE r = tx[t].link
      <4>1. doc'[r] = row
        BY <1>0, <2>6, <3>1
      <4> QED
        BY <2>5, <3>1, <4>1 DEF RowKept
    <3>2. CASE r # tx[t].link
      <4>1. doc'[r] = doc[r]
        BY <1>0, <2>6, <3>2
      <4> QED
        BY <2>8, <4>1, RowUntouched
    <3> QED
      BY <3>1, <3>2
  <2>10. ASSUME NEW s \in Txs, tx[s].op \in IssueOps, tx[s].link # 0, tx[s].link \in {tx[t].link}
         PROVE  tx[s].chain # "mined"
    <3>1. IssueSound(s)
      BY <2>10, DocOps DEF DocInv, DocLinks, DocTxSound
    <3> QED
      BY <1>2, <2>1, <2>10, <3>1, DocOps DEF IssueSound
  <2> QED
    BY <1>1, <2>2, <2>3, <2>7, <2>9, <2>10, DocSteady
<1>4. CASE RollBackPolicyExpire(t) \/ RollBackPucExpire(t)
  <2>1. RolledBack /\ doc' = DocMarked({tx[t].link}, "ACTIVE")
    BY <1>4 DEF RollBackPolicyExpire, RollBackPucExpire, RollBackDocExpire
  <2>2. DocAlike
    BY <2>1, DocRelay
  <2>3. ASSUME NEW r \in DocRows
        PROVE  /\ doc'[r] \in DocRecords /\ doc'[r].did = doc[r].did
               /\ doc'[r].status \in {doc[r].status, "ACTIVE"}
    <3>1. doc'[r] = [doc[r] EXCEPT !.status = "ACTIVE"] \/ doc'[r] = doc[r]
      BY <2>1 DEF DocMarked
    <3> QED
      BY <1>0, <3>1 DEF DocRecords
  <2>4. doc' \in [DocRows -> DocRecords]
    <3>1. doc' = [r \in DocRows |-> doc'[r]]
      BY <2>1 DEF DocMarked
    <3> QED
      BY <2>3, <3>1
  <2> QED
    BY <1>1, <2>2, <2>3, <2>4, DocUntouched
<1>5. CASE RollBackClaim(t)
  <2>1. RolledBack /\ doc' = [doc EXCEPT ![tx[t].link].claims = doc[tx[t].link].claims - 1]
    BY <1>5 DEF RollBackClaim
  <2>2. DocAlike
    BY <2>1, DocRelay
  <2>3. CASE tx[t].link \in DocRows
    <3>1. PICK n \in Int : n = doc[tx[t].link].claims - 1
      BY <1>0, <2>3
    <3>2. PICK row : row = [doc[tx[t].link] EXCEPT !.claims = n]
      OBVIOUS
    <3>3. row \in DocRecords /\ row.did = doc[tx[t].link].did /\ row.status = doc[tx[t].link].status
      BY <1>0, <2>3, <3>2 DEF DocRecords
    <3>4. doc' = [doc EXCEPT ![tx[t].link] = row]
      BY <2>1, <3>1, <3>2
    <3>5. /\ doc' \in [DocRows -> DocRecords]
          /\ \A r \in DocRows : doc'[r].did = doc[r].did /\ doc'[r].status = doc[r].status
      BY <1>0, <2>3, <3>3, <3>4
    <3> QED
      BY <1>1, <2>2, <3>5, DocUntouched
  <2>4. CASE tx[t].link = 0
    <3>1. doc' = doc
      BY <1>0, <2>1, <2>4
    <3> QED
      BY <1>0, <1>1, <2>2, <3>1, DocUntouched
  <2> QED
    BY <1>0, <2>3, <2>4
<1> QED
  BY <1>3, <1>4, <1>5 DEF DocRollBack

(* A termination takes a row only once the vehicle is scrapped.             *)
LEMMA DocTerminationStep ==
    ASSUME DocInv, NEW d \in Docs,
           HandlePolicyTerminated(d) \/ HandlePUCTerminated(d) \/ LoseTermination(d)
    PROVE  DocInv'
<1>0. /\ tx \in [Txs -> DocTxs] /\ RelayCounters /\ doc \in [DocRows -> DocRecords]
      /\ \A r \in DocRows : doc[r] \in DocRecords /\ doc[r].did \in Docs \cup {0}
      /\ paper[d] \in Papers /\ d # 0
  BY DocShape DEF DocInv
<1>1. CASE LoseTermination(d)
  <2>1. /\ tx' = tx /\ sweep' = sweep /\ crashes' = crashes /\ losses' = losses + 1
        /\ losses < MaxLosses /\ doc' = doc /\ ending' \subseteq ending
        /\ paper' = paper /\ current' = current /\ scrapped' = scrapped
    BY <1>1 DEF LoseTermination
  <2>2. Relayed({})
    BY <2>1 DEF Relayed, RelayedTx
  <2>3. RelayCounters' /\ SweepMoves
    BY <1>0, <2>1, RelayAssumption DEF RelayCounters, SweepMoves
  <2> QED
    BY <1>0, <2>1, <2>2, <2>3, DocUntouched DEF DocAlike
<1>2. CASE HandleTerminated(d)
  <2>1. /\ d \in ending /\ UNCHANGED relayVars /\ ending' \subseteq ending
        /\ paper' = paper /\ current' = current /\ scrapped' = scrapped
        /\ doc' = doc \/ \E r \in DocRowOf(d) \cup ActiveRows(paper[d].kind) : doc' = TerminatedRow(r, d)
    BY <1>2 DEF HandleTerminated
  <2>2. DocAlike
    BY <2>1, DocRelay
  <2>3. CASE doc' = doc
    BY <1>0, <2>1, <2>2, <2>3, DocUntouched
  <2>4. ASSUME NEW r \in DocRows, doc' = TerminatedRow(r, d)
        PROVE  DocInv'
    <3>1. paper[d].kind # "none" /\ scrapped /\ ~paper[d].valid
      BY <2>1 DEF DocInv, PapersSound
    <3>2. Over[paper[d].kind] \in {"CANCELLED", "EXPIRED"}
      BY <1>0, <3>1 DEF Papers, Kinds, Over
    <3>3. PICK s \in {"CANCELLED", "EXPIRED"} : s = Over[paper[d].kind]
      BY <3>2
    <3>4. PICK row : row = [doc[r] EXCEPT !.status = s, !.did = d]
      OBVIOUS
    <3>5. row \in DocRecords /\ row.did = d /\ row.status = s
      BY <1>0, <3>4 DEF DocRecords
    <3>6. doc' = [doc EXCEPT ![r] = row]
      BY <2>4, <3>3, <3>4 DEF TerminatedRow
    <3>7. doc'[r] = row
      BY <1>0, <3>6
    <3>8. RowKept(r, {})
      BY <1>0, <2>1, <3>1, <3>5, <3>7 DEF RowKept
    <3> QED
      BY <2>1, <2>2, <3>5, <3>6, <3>8, DocWritten
  <2> QED
    BY <2>1, <2>3, <2>4 DEF DocRowOf, ActiveRows
<1> QED
  BY <1>1, <1>2 DEF HandlePolicyTerminated, HandlePUCTerminated

(* A step of one transaction, with or without one of the contracts or of a   *)
(* row: the others stand as they did.                                       *)
LEMMA DocOneTx ==
    ASSUME DocInv, NEW t \in Txs, \A s \in Txs \ {t} : tx'[s] = tx[s], sweep' = sweep,
           tx[t].chain = "reverted" => tx'[t].chain = "reverted",
           tx'[t].event # "none" => tx'[t].chain = "mined",
           DocShapes', PapersSound', DocOnward, \A r \in DocRows : RowKept(r, {}), DocTxSound(t)',
           tx'[t].op \in IssueOps =>
             \A s \in Txs \ {t} : tx[s].op \in IssueOps /\ tx[s].link # 0 => tx[s].link # tx'[t].link
    PROVE  DocInv'
<1>1. EventsSound' /\ SweepSound'
  BY DocShape DEF DocInv, EventsSound, SweepSound, RelayCounters
<1>2. ASSUME NEW s \in Txs PROVE DocTxSound(s)'
  <2>1. CASE s = t
    BY <2>1
  <2>2. CASE s # t
    <3>1. RelayedTx(s, {})
      BY <2>2 DEF RelayedTx
    <3>2. ASSUME NEW q \in Txs \ {s}, tx[s].op \in IssueOps, tx'[q].op \in IssueOps, tx[s].link # 0
          PROVE  tx'[q].link # tx[s].link
      <4>1. CASE q = t
        BY <2>2, <3>2, <4>1
      <4>2. CASE q # t
        <5>1. IssueSound(s) /\ tx'[q] = tx[q]
          BY <3>2, <4>2, DocOps DEF DocInv, DocLinks, DocTxSound
        <5> QED
          BY <3>2, <5>1, DocOps DEF IssueSound
      <4> QED
        BY <4>1, <4>2
    <3> QED
      BY <3>1, <3>2, DocTxKept
  <2> QED
    BY <2>1, <2>2
<1> QED
  BY <1>1, <1>2, DocKept

(* A step of the contracts alone                                            *)
LEMMA DocNoTx ==
    ASSUME DocInv, UNCHANGED relayVars, DocShapes', PapersSound', DocOnward,
           \A r \in DocRows : RowKept(r, {})
    PROVE  DocInv'
<1>1. DocAlike
  BY DocRelay
<1>2. EventsSound' /\ SweepSound'
  BY <1>1, RelayedSound DEF DocInv, DocAlike
<1>3. ASSUME NEW s \in Txs PROVE DocTxSound(s)'
  <2>1. RelayedTx(s, {}) /\ tx' = tx
    BY <1>1 DEF DocAlike, Relayed, relayVars
  <2>2. ASSUME NEW q \in Txs \ {s}, tx[s].op \in IssueOps, tx'[q].op \in IssueOps, tx[s].link # 0
        PROVE  tx'[q].link # tx[s].link
    <3>1. IssueSound(s)
      BY <2>2, DocOps DEF DocInv, DocLinks, DocTxSound
    <3> QED
      BY <2>1, <2>2, <3>1, DocOps DEF IssueSound
  <2> QED
    BY <2>1, <2>2, DocTxKept
<1> QED
  BY <1>2, <1>3, DocKept

LEMMA DocRequestStep ==
    ASSUME DocInv, NEW t \in Txs, DocRequest(t)
    PROVE  DocInv'
<1>0. /\ tx \in [Txs -> DocTxs] /\ RelayCounters /\ doc \in [DocRows -> DocRecords]
      /\ \A r \in DocRows : doc[r].did \in Docs \cup {0}
      /\ 0 \in DocRows \cup {0} /\ 0 \in Docs \cup {0}
  BY DocShape DEF DocInv
<1>1. 0 \in DocBys
  BY DocumentAssumption DEF DocBys
<1>2. /\ paper' = paper /\ current' = current /\ ending' = ending /\ scrapped' = scrapped
      /\ doc' = doc
  BY DEF DocRequest, IssuePolicyDoc, IssuePucDoc, RequestIssue, FileClaimOn, MarkPolicyExpired,
     MarkPucExpired, MarkExpired, docRest
<1>3. PICK op \in IssueOps \cup LaterOps, id \in Docs \cup {0}, link \in DocRows \cup {0} :
        /\ SubmitEntityTx(t, op, id, 0, link)
        /\ op \in IssueOps => id = 0 /\ link = 0
        /\ op \in LaterOps => link \in DocRows /\ id # 0 /\ id = doc[link].did
  <2>1. CASE IssuePolicyDoc(t) \/ \E op \in DOMAIN Issues : IssuePucDoc(t, op)
    <3>1. PICK op \in IssueOps : SubmitEntityTx(t, op, 0, 0, 0)
      BY <2>1 DEF IssuePolicyDoc, IssuePucDoc, RequestIssue, IssueOps
    <3>2. op \notin LaterOps
      BY DEF IssueOps, LaterOps
    <3> QED
      BY <1>0, <3>1, <3>2
  <2>2. CASE \E r \in DocRows : FileClaimOn(t, r) \/ MarkPolicyExpired(t, r) \/ MarkPucExpired(t, r)
    <3>1. PICK r \in DocRows, op \in LaterOps :
            SubmitEntityTx(t, op, doc[r].did, 0, r) /\ doc[r].did # 0
      BY <2>2 DEF FileClaimOn, MarkPolicyExpired, MarkPucExpired, MarkExpired, LaterOps
    <3>2. op \notin IssueOps /\ doc[r].did \in Docs \cup {0}
      BY <1>0 DEF IssueOps, LaterOps
    <3> QED
      BY <3>1, <3>2
  <2> QED
    BY <2>1, <2>2 DEF DocRequest
<1>4. op \in DocNames
  BY DEF DocNames
<1>5. /\ tx[t] = NoTx
      /\ tx'[t] = [op |-> op, id |-> id, by |-> 0, link |-> link, chain |-> "pool",
                   call |-> "sent", row |-> "absent", event |-> "none", seen |-> 0]
      /\ \A s \in Txs \ {t} : tx'[s] = tx[s]
      /\ tx' \in [Txs -> DocTxs] /\ RelayCounters' /\ sweep' = sweep
  <2>1. SubmitEntityTx(t, op, id, 0, link) /\ tx \in [Txs -> DocTxs] /\ RelayCounters
    BY <1>0, <1>3
  <2>2. 0 \in DocRefs /\ id \in DocIds /\ link \in DocRefs
    BY DEF DocRefs, DocIds
  <2> QED
    BY <1>1, <1>4, <2>1, <2>2, SubmitStep DEF DocTxs
<1>6. DocShapes' /\ PapersSound' /\ DocOnward
  BY <1>2, <1>5, DocTyping DEF DocInv, DocShapes, RelayCounters, PapersSound, DocOnward
<1>7. \A r \in DocRows : RowKept(r, {})
  BY <1>2, <1>6, RowUntouched
<1>8. /\ tx'[t].op = op /\ tx'[t].id = id /\ tx'[t].link = link /\ tx'[t].chain = "pool"
      /\ tx'[t].row = "absent" /\ tx'[t].event = "none" /\ tx'[t].seen = 0
  BY <1>5
<1>9. DocTxSound(t)'
  <2>1. tx'[t].id # 0 => paper'[tx'[t].id].kind # "none"
    BY <1>2, <1>3, <1>8 DEF DocInv, DocLinks
  <2>2. op \in IssueOps => IssueSound(t)'
    BY <1>3, <1>8 DEF IssueSound
  <2>3. op \in LaterOps => LaterSound(t)'
    BY <1>2, <1>3, <1>8 DEF LaterSound
  <2> QED
    BY <1>8, <2>1, <2>2, <2>3, DocOps DEF DocTxSound
<1>10. tx[t].chain = "unsent"
  BY <1>5 DEF NoTx
<1> QED
  BY <1>3, <1>5, <1>6, <1>7, <1>8, <1>9, <1>10, DocOneTx

LEMMA DocStoreStep ==
    ASSUME DocInv, NEW t \in Txs, DocStore(t)
    PROVE  DocInv'
<1>0. /\ tx \in [Txs -> DocTxs] /\ RelayCounters /\ doc \in [DocRows -> DocRecords]
      /\ \A s \in Txs : tx[s].link \in DocRows \cup {0} /\ tx[s].id \in Docs \cup {0}
      /\ 0 \notin DocRows
  BY DocShape DEF DocInv
<1>1. CASE CreatePolicyExpireTx(t) \/ CreatePucExpireTx(t) \/ CreateClaimTx(t)
  <2>1. /\ StoreTx(t, tx[t].link) /\ doc' = doc
        /\ paper' = paper /\ current' = current /\ scrapped' = scrapped /\ ending' = ending
    BY <1>1 DEF CreatePolicyExpireTx, CreatePucExpireTx, CreateClaimTx, CreateDocTx, docRest
  <2>2. DocAlike
    BY <2>1, DocRelay
  <2> QED
    BY <1>0, <2>1, <2>2, DocUntouched
<1>2. ASSUME NEW r \in DocRows, CreatePendingPolicyTx(t, r) \/ CreatePendingPucTx(t, r)
      PROVE  DocInv'
  <2>1. /\ tx[t].op \in IssueOps /\ doc[r] = NoDoc /\ StoreTx(t, r)
        /\ doc' = [doc EXCEPT ![r] = [NoDoc EXCEPT !.kind = Issues[tx[t].op], !.status = "ACTIVE",
                                                   !.passed = tx[t].op # "issueFailedPUC",
                                                   !.past = tx[t].op = "issueFailedPUC"]]
        /\ paper' = paper /\ current' = current /\ scrapped' = scrapped /\ ending' = ending
    BY <1>2, DocOps DEF CreatePendingPolicyTx, CreatePendingPucTx, CreateIssueTx, NextDocRow
  <2>2. r \in DocRefs
    BY DEF DocRefs
  <2>3. /\ tx[t].row = "absent"
        /\ tx'[t].op = tx[t].op /\ tx'[t].id = tx[t].id /\ tx'[t].link = r
        /\ tx'[t].chain = tx[t].chain /\ tx'[t].row = "PENDING"
        /\ tx'[t].event = tx[t].event /\ tx'[t].seen = tx[t].seen
        /\ \A s \in Txs \ {t} : tx'[s] = tx[s]
        /\ tx' \in [Txs -> DocTxs] /\ RelayCounters' /\ sweep' = sweep
    <3>1. StoreTx(t, r) /\ tx \in [Txs -> DocTxs] /\ RelayCounters
      BY <1>0, <2>1
    <3> QED
      BY <2>2, <3>1, StoreStep DEF DocTxs
  <2>4. PICK kind \in Kinds \cup {"none"} : kind = Issues[tx[t].op]
    BY <2>1 DEF IssueOps, Issues, Kinds
  <2>5. NoDoc \in DocRecords /\ NoDoc.did = 0
    <3>1. NoDoc = [kind |-> "none", status |-> "absent", did |-> 0, passed |-> FALSE,
                   past |-> FALSE, claims |-> 0]
      BY DEF NoDoc
    <3> QED
      BY <3>1 DEF DocRecords, Kinds
  <2>6. PICK passed \in BOOLEAN, past \in BOOLEAN :
          passed = (tx[t].op # "issueFailedPUC") /\ past = (tx[t].op = "issueFailedPUC")
    OBVIOUS
  <2>7. PICK row : row = [NoDoc EXCEPT !.kind = kind, !.status = "ACTIVE", !.passed = passed,
                                       !.past = past]
    OBVIOUS
  <2>8. /\ row \in DocRecords /\ row.did = 0 /\ row.status = "ACTIVE"
        /\ doc' = [doc EXCEPT ![r] = row]
    <3>1. row \in DocRecords /\ row.did = 0 /\ row.status = "ACTIVE"
      BY <2>5, <2>7 DEF DocRecords
    <3> QED
      BY <2>1, <2>4, <2>6, <2>7, <3>1
  <2>9. /\ doc' \in [DocRows -> DocRecords] /\ doc'[r] = row
        /\ \A q \in DocRows \ {r} : doc'[q] = doc[q]
    BY <1>0, <2>8, <2>8
  <2>10. DocShapes' /\ PapersSound' /\ DocOnward
    BY <2>1, <2>3, <2>9, DocTyping
    DEF DocInv, DocShapes, RelayCounters, PapersSound, DocOnward, DocRecords
  <2>11. ASSUME NEW q \in DocRows PROVE RowKept(q, {})
    <3>1. doc'[q].did = doc[q].did /\ doc'[q].status \in {doc[q].status, "ACTIVE"}
      BY <2>1, <2>8, <2>9 DEF NoDoc
    <3> QED
      BY <2>10, <3>1, RowUntouched
  <2>12. ASSUME NEW s \in Txs, tx[s].op \in IssueOps PROVE tx[s].link # r
    <3>1. IssueSound(s)
      BY <2>12, DocOps DEF DocInv, DocLinks, DocTxSound
    <3> QED
      BY <1>0, <2>1, <3>1 DEF IssueSound, NoDoc
  <2>13. IssueSound(t) /\ DocTxSound(t) /\ (tx[t].event # "none" => tx[t].chain = "mined")
    BY <2>1, DocOps DEF DocInv, DocLinks, DocTxSound, EventsSound
  <2>14. IssueSound(t)'
    <3>1. tx'[t].seen = 0
      BY <2>3, <2>13 DEF IssueSound
    <3>2. doc'[tx'[t].link].status # "absent" /\ doc'[tx'[t].link].did = 0
      BY <2>3, <2>8, <2>9
    <3>3. ASSUME NEW s \in Txs \ {t}, tx'[s].op \in DOMAIN Issues PROVE tx'[s].link # tx'[t].link
      BY <2>3, <2>12, <3>3, DocOps
    <3> QED
      BY <2>3, <2>13, <3>1, <3>2, <3>3 DEF IssueSound
  <2>15. DocTxSound(t)'
    <3>1. tx'[t].id # 0 => paper'[tx'[t].id].kind # "none"
      BY <2>1, <2>3, <2>13 DEF DocTxSound
    <3>2. tx'[t].op \notin LaterOps
      BY <2>1, <2>3 DEF IssueOps, LaterOps
    <3> QED
      BY <2>14, <3>1, <3>2, DocOps DEF DocTxSound
  <2> QED
    BY <2>3, <2>10, <2>11, <2>12, <2>13, <2>15, DocOneTx
<1> QED
  BY <1>1, <1>2 DEF DocStore

(* The new document was none that a transaction or a row names; the one it   *)
(* takes the place of is no longer valid.                                   *)
LEMMA DocIssueMined ==
    ASSUME DocInv, NEW t \in Txs, NEW d \in Docs, MineIssueDoc(t, d)
    PROVE  DocInv'
<1> DEFINE k == Issues[tx[t].op]
           failed == tx[t].op = "issueFailedPUC"
<1>0. /\ tx \in [Txs -> DocTxs] /\ RelayCounters /\ paper \in [Docs -> Papers]
      /\ current \in [Kinds -> Docs \cup {0}] /\ scrapped \in BOOLEAN /\ d # 0
      /\ \A e \in Docs : paper[e] \in Papers
  BY DocShape DEF DocInv
<1>1. /\ tx[t].op \in IssueOps /\ tx[t].chain = "pool" /\ Mined(t, d) /\ paper[d] = NoPaper
      /\ DocAccepted(tx[t].op, 0)
      /\ doc' = doc /\ ending' = ending /\ scrapped' = scrapped
      /\ current' = [current EXCEPT ![k] = IF failed THEN current[k] ELSE d]
  BY DocOps DEF MineIssueDoc, NextPaper
<1>2. k \in Kinds /\ ~scrapped
  BY <1>1, DocOps DEF IssueOps, Issues, Kinds, DocAccepted
<1>3. /\ tx'[t].op = tx[t].op /\ tx'[t].id = d /\ tx'[t].link = tx[t].link
      /\ tx'[t].chain = "mined" /\ tx'[t].row = tx[t].row /\ tx'[t].seen = tx[t].seen
      /\ \A s \in Txs \ {t} : tx'[s] = tx[s]
      /\ tx' \in [Txs -> DocTxs] /\ RelayCounters' /\ sweep' = sweep
  <2>1. d \in DocIds
    BY DEF DocIds
  <2> QED
    BY <1>0, <1>1, <2>1, MinedStep DEF DocTxs
<1>4. /\ paper'[d].kind = k /\ (paper'[d].valid <=> ~failed) /\ paper'[d] \in Papers
  <2>1. /\ NoPaper \in Papers
    BY DocumentAssumption DEF NoPaper, Papers
  <2>2. PICK valid \in BOOLEAN : valid = ~failed
    OBVIOUS
  <2>3. PICK past \in BOOLEAN : past = failed
    OBVIOUS
  <2>4. PICK x : x = [NoPaper EXCEPT !.kind = k, !.valid = valid, !.passed = valid, !.past = past]
    OBVIOUS
  <2>5. x \in Papers /\ x.kind = k /\ x.valid = valid
    BY <1>2, <2>1, <2>4 DEF Papers
  <2>6. paper'[d] = x
    BY <2>2, <2>3, <2>4 DEF MineIssueDoc
  <2> QED
    BY <2>2, <2>5, <2>6
<1>5. ASSUME NEW e \in Docs \ {d}
      PROVE  /\ paper'[e] \in Papers /\ paper'[e].kind = paper[e].kind
             /\ paper'[e].valid => paper[e].valid /\ (~failed => e # current[k])
  <2>1. CASE ~failed /\ e = current[k]
    <3>1. paper'[e] = [paper[e] EXCEPT !.valid = FALSE]
      BY <2>1 DEF MineIssueDoc
    <3>2. paper'[e] \in Papers /\ paper'[e].kind = paper[e].kind
      BY <1>0, <3>1 DEF Papers
    <3>3. ~paper'[e].valid
      BY <1>0, <3>1 DEF Papers
    <3> QED
      BY <3>2, <3>3
  <2>2. CASE ~(~failed /\ e = current[k])
    <3>1. paper'[e] = paper[e]
      BY <2>2 DEF MineIssueDoc
    <3> QED
      BY <1>0, <2>2, <3>1
  <2> QED
    BY <2>1, <2>2
<1>6. DOMAIN paper' = Docs /\ paper' = [e \in Docs |-> paper'[e]]
  BY DEF MineIssueDoc
<1>7. paper' \in [Docs -> Papers]
  BY <1>4, <1>5, <1>6
<1>8. /\ current' \in [Kinds -> Docs \cup {0}]
      /\ current'[k] = IF failed THEN current[k] ELSE d
      /\ \A l \in Kinds \ {k} : current'[l] = current[l]
  BY <1>0, <1>1, <1>2
<1>9. DocShapes'
  BY <1>1, <1>3, <1>7, <1>8, DocTyping DEF DocInv, DocShapes, RelayCounters, Papers
<1>10. paper[d].kind = "none" /\ ~paper[d].valid
  BY <1>1 DEF NoPaper
<1>11. PapersSound'
  <2>1. ASSUME NEW e \in Docs, paper'[e].valid
        PROVE  paper'[e].kind \in Kinds /\ current'[paper'[e].kind] = e /\ ~scrapped'
    <3>1. CASE e = d
      BY <1>1, <1>2, <1>4, <1>8, <2>1, <3>1
    <3>2. CASE e # d
      <4>1. /\ paper[e].valid /\ paper'[e].kind = paper[e].kind /\ (~failed => e # current[k])
            /\ paper[e].kind \in Kinds /\ current[paper[e].kind] = e
        BY <1>5, <2>1, <3>2 DEF DocInv, PapersSound
      <4> QED
        BY <1>1, <1>2, <1>8, <4>1
    <3> QED
      BY <3>1, <3>2
  <2>2. ending = {}
    BY <1>2, DocShape DEF DocInv, PapersSound
  <2> QED
    BY <1>1, <2>1, <2>2 DEF PapersSound
<1>12. DocOnward
  BY <1>1, <1>5, <1>10 DEF DocOnward
<1>13. \A r \in DocRows : RowKept(r, {})
  BY <1>1, <1>12, RowUntouched
<1>14. IssueSound(t) /\ tx[t].id = 0
  BY <1>1, DocOps DEF DocInv, DocLinks, DocTxSound, IssueSound
<1>15. DocTxSound(t)'
  <2>1. paper'[d].kind # "none"
    BY <1>2, <1>4 DEF Kinds
  <2>2. IssueSound(t)'
    <3>1. ASSUME NEW s \in Txs \ {t}, tx'[s].op \in DOMAIN Issues, tx'[t].link # 0
          PROVE  tx'[s].link # tx'[t].link
      BY <1>3, <1>14, <3>1 DEF IssueSound
    <3> QED
      BY <1>0, <1>1, <1>2, <1>3, <1>14, <3>1 DEF IssueSound
  <2>3. tx'[t].op \notin LaterOps
    BY <1>1, <1>3 DEF IssueOps, LaterOps
  <2> QED
    BY <1>3, <2>1, <2>2, <2>3, DocOps DEF DocTxSound
<1>16. ASSUME NEW s \in Txs \ {t}, tx[s].op \in IssueOps, tx[s].link # 0
       PROVE  tx[s].link # tx'[t].link
  BY <1>3, <1>14, <1>16, DocOps DEF IssueSound
<1> QED
  BY <1>1, <1>3, <1>9, <1>11, <1>12, <1>13, <1>15, <1>16, DocOneTx

LEMMA DocExpireMined ==
    ASSUME DocInv, NEW t \in Txs, MineExpire(t)
    PROVE  DocInv'
<1> DEFINE d == tx[t].id
<1>0. /\ tx \in [Txs -> DocTxs] /\ RelayCounters /\ paper \in [Docs -> Papers]
      /\ d \in Docs \cup {0} /\ \A e \in Docs : paper[e] \in Papers
  BY DocShape DEF DocInv
<1>1. /\ tx[t].op \in DOMAIN Expires /\ tx[t].chain = "pool" /\ Mined(t, d)
      /\ paper' = [paper EXCEPT ![d].valid = FALSE]
      /\ doc' = doc /\ ending' = ending /\ scrapped' = scrapped /\ current' = current
  BY DEF MineExpire
<1>2. /\ LaterSound(t) /\ tx[t].op \in LaterOps /\ tx[t].op \notin IssueOps
      /\ paper[d].kind # "none" /\ d \in Docs
  <2>1. tx[t].op \in LaterOps /\ tx[t].op \notin IssueOps
    BY <1>1, DocOps DEF LaterOps, IssueOps
  <2>2. LaterSound(t) /\ DocTxSound(t)
    BY <1>1 DEF DocInv, DocLinks, DocTxSound
  <2> QED
    BY <1>0, <2>1, <2>2 DEF LaterSound, DocTxSound
<1>3. /\ tx'[t].op = tx[t].op /\ tx'[t].id = d /\ tx'[t].link = tx[t].link
      /\ tx'[t].chain = "mined"
      /\ \A s \in Txs \ {t} : tx'[s] = tx[s]
      /\ tx' \in [Txs -> DocTxs] /\ RelayCounters' /\ sweep' = sweep
  <2>1. d \in DocIds
    BY <1>0 DEF DocIds
  <2> QED
    BY <1>0, <1>1, <2>1, MinedStep DEF DocTxs
<1>4. ~paper'[d].valid /\ paper'[d] \in Papers /\ paper'[d].kind = paper[d].kind
  <2>1. paper'[d] = [paper[d] EXCEPT !.valid = FALSE]
    BY <1>0, <1>1, <1>2
  <2>2. paper'[d] \in Papers /\ paper'[d].kind = paper[d].kind
    BY <1>0, <1>2, <2>1 DEF Papers
  <2>3. ~paper'[d].valid
    BY <1>0, <1>2, <2>1 DEF Papers
  <2> QED
    BY <2>2, <2>3
<1>5. \A e \in Docs \ {d} : paper'[e] = paper[e]
  BY <1>0, <1>1
<1>6. paper' \in [Docs -> Papers]
  BY <1>0, <1>1, <1>4, <1>5
<1>7. DocShapes'
  BY <1>1, <1>3, <1>6, DocTyping DEF DocInv, DocShapes, RelayCounters, Papers
<1>8. PapersSound' /\ DocOnward
  <2>1. \A e \in Docs : paper'[e].kind = paper[e].kind /\ (paper'[e].valid => paper[e].valid)
    BY <1>4, <1>5
  <2> QED
    BY <1>1, <2>1, DocShape DEF DocInv, PapersSound, DocOnward
<1>9. \A r \in DocRows : RowKept(r, {})
  BY <1>1, <1>8, RowUntouched
<1>10. DocTxSound(t)'
  <2>1. LaterSound(t)'
    BY <1>1, <1>2, <1>3, <1>4 DEF LaterSound
  <2> QED
    BY <1>2, <1>3, <1>4, <2>1, DocOps DEF DocTxSound
<1> QED
  BY <1>1, <1>2, <1>3, <1>7, <1>8, <1>9, <1>10, DocOneTx

LEMMA DocClaimMined ==
    ASSUME DocInv, NEW t \in Txs, MineClaim(t)
    PROVE  DocInv'
<1> DEFINE d == tx[t].id
<1>0. /\ tx \in [Txs -> DocTxs] /\ RelayCounters /\ paper \in [Docs -> Papers]
      /\ tx[t] \in DocTxs /\ d \in Docs \cup {0} /\ \A e \in Docs : paper[e] \in Papers
  BY DocShape DEF DocInv
<1>1. /\ tx[t].op = "fileClaim" /\ tx[t].chain = "pool" /\ paper[d].claims < ClaimCap
      /\ paper' = [paper EXCEPT ![d].claims = paper[d].claims + 1]
      /\ tx' = [tx EXCEPT ![t].chain = "mined", ![t].event = "ready", ![t].by = paper'[d].claims]
      /\ sweep' = sweep /\ crashes' = crashes /\ losses' = losses
      /\ doc' = doc /\ ending' = ending /\ scrapped' = scrapped /\ current' = current
  BY DEF MineClaim, InPool, DocAccepted, Issues, InForcePaper
<1>2. /\ LaterSound(t) /\ tx[t].op \in LaterOps /\ tx[t].op \notin IssueOps
      /\ tx[t].op \notin DOMAIN Expires /\ d \in Docs /\ paper[d].kind # "none"
  <2>1. tx[t].op \in LaterOps /\ tx[t].op \notin IssueOps /\ tx[t].op \notin DOMAIN Expires
    BY <1>1, DocOps DEF LaterOps, IssueOps
  <2>2. LaterSound(t) /\ DocTxSound(t)
    BY <2>1, DocOps DEF DocInv, DocLinks, DocTxSound
  <2> QED
    BY <1>0, <2>1, <2>2 DEF LaterSound, DocTxSound
<1>3. paper[d].claims \in Nat /\ paper[d].claims + 1 \in 0 .. ClaimCap
  BY <1>0, <1>1, <1>2, DocumentAssumption DEF Papers
<1>4. PICK n \in 0 .. ClaimCap : n = paper[d].claims + 1
  BY <1>3
<1>5. /\ paper'[d] \in Papers /\ paper'[d].kind = paper[d].kind /\ paper'[d].valid = paper[d].valid
      /\ paper'[d].claims = n
  <2>1. paper'[d] = [paper[d] EXCEPT !.claims = n]
    BY <1>0, <1>1, <1>2, <1>4
  <2> QED
    BY <1>0, <1>2, <2>1 DEF Papers
<1>6. \A e \in Docs \ {d} : paper'[e] = paper[e]
  BY <1>0, <1>1
<1>7. paper' \in [Docs -> Papers]
  BY <1>0, <1>1, <1>5, <1>6
<1>8. PICK x : x = [tx[t] EXCEPT !.chain = "mined", !.event = "ready", !.by = n]
  OBVIOUS
<1>9. n \in DocBys
  BY DEF DocBys
<1>10. /\ x \in DocTxs /\ x.op = tx[t].op /\ x.id = d /\ x.link = tx[t].link
       /\ x.chain = "mined"
  <2>1. x \in DocTxs
    BY <1>0, <1>8, <1>9 DEF DocTxs, TxOf
  <2>2. /\ x.op = tx[t].op /\ x.id = d /\ x.link = tx[t].link /\ x.chain = "mined"
    BY <1>0, <1>8 DEF DocTxs, TxOf
  <2> QED
    BY <2>1, <2>2
<1>11. tx' = [tx EXCEPT ![t] = x]
  <2>1. tx' = [tx EXCEPT ![t].chain = "mined", ![t].event = "ready", ![t].by = n]
    BY <1>1, <1>5
  <2> QED
    BY <1>8, <2>1
<1>12. /\ tx' \in [Txs -> DocTxs] /\ tx'[t] = x /\ \A s \in Txs \ {t} : tx'[s] = tx[s]
  BY <1>0, <1>10, <1>11, OneTx
<1>13. DocShapes'
  BY <1>1, <1>7, <1>12, DocTyping DEF DocInv, DocShapes, Papers
<1>14. PapersSound' /\ DocOnward
  <2>1. \A e \in Docs : paper'[e].kind = paper[e].kind /\ (paper'[e].valid => paper[e].valid)
    BY <1>5, <1>6
  <2> QED
    BY <1>1, <2>1, DocShape DEF DocInv, PapersSound, DocOnward
<1>15. \A r \in DocRows : RowKept(r, {})
  BY <1>1, <1>14, RowUntouched
<1>16. DocTxSound(t)'
  <2>1. LaterSound(t)'
    BY <1>1, <1>2, <1>10, <1>12 DEF LaterSound
  <2> QED
    BY <1>2, <1>5, <1>10, <1>12, <2>1, DocOps DEF DocTxSound
<1> QED
  BY <1>1, <1>2, <1>10, <1>12, <1>13, <1>14, <1>15, <1>16, DocOneTx

LEMMA DocMineStep ==
    ASSUME DocInv, NEW t \in Txs, DocMine(t)
    PROVE  DocInv'
<1>1. CASE DocTxReverts(t)
  <2>1. /\ TxReverts(t) /\ doc' = doc
        /\ paper' = paper /\ current' = current /\ scrapped' = scrapped /\ ending' = ending
    BY <1>1 DEF DocTxReverts, docRest
  <2>2. DocAlike
    BY <2>1, DocRelay
  <2> QED
    BY <2>1, <2>2, DocUntouched, DocShape DEF DocInv
<1> QED
  BY <1>1, DocIssueMined, DocExpireMined, DocClaimMined DEF DocMine

(* All that was valid was current: a scrapping leaves nothing valid.        *)
LEMMA DocScrapStep ==
    ASSUME DocInv, ScrapTerminates
    PROVE  DocInv'
<1>0. paper \in [Docs -> Papers] /\ \A d \in Docs : paper[d] \in Papers
  BY DocShape DEF DocInv
<1>1. PICK over : /\ over = {d \in Docs : paper[d].valid /\ \E k \in Kinds : current[k] = d}
                  /\ paper' = [d \in Docs |-> IF d \in over THEN [paper[d] EXCEPT !.valid = FALSE]
                                              ELSE paper[d]]
                  /\ ending' = over
  BY DEF ScrapTerminates
<1>2. scrapped' = TRUE /\ UNCHANGED relayVars /\ current' = current /\ doc' = doc
  BY DEF ScrapTerminates
<1>3. \A d \in Docs : paper[d].valid <=> d \in over
  BY <1>1 DEF DocInv, PapersSound
<1>4. ASSUME NEW d \in Docs
      PROVE  paper'[d] \in Papers /\ paper'[d].kind = paper[d].kind /\ ~paper'[d].valid
  <2>1. CASE d \in over
    <3>1. paper'[d] = [paper[d] EXCEPT !.valid = FALSE]
      BY <1>1, <2>1
    <3>2. paper'[d] \in Papers /\ paper'[d].kind = paper[d].kind
      BY <1>0, <3>1 DEF Papers
    <3>3. ~paper'[d].valid
      BY <1>0, <3>1 DEF Papers
    <3> QED
      BY <3>2, <3>3
  <2>2. CASE d \notin over
    BY <1>0, <1>1, <1>3, <2>2
  <2> QED
    BY <2>1, <2>2
<1>5. paper' = [d \in Docs |-> paper'[d]]
  BY <1>1
<1>6. paper' \in [Docs -> Papers] /\ ending' \subseteq Docs
  BY <1>1, <1>4, <1>5
<1>7. DocShapes'
  BY <1>2, <1>6 DEF DocInv, DocShapes, relayVars, Papers
<1>8. PapersSound'
  <2>1. \A d \in ending' : paper'[d].kind # "none"
    BY <1>1, <1>4 DEF DocInv, PapersSound, Kinds
  <2> QED
    BY <1>2, <1>4, <2>1 DEF PapersSound
<1>9. DocOnward
  BY <1>2, <1>4 DEF DocOnward
<1>10. \A r \in DocRows : RowKept(r, {})
  BY <1>2, <1>9, RowUntouched
<1> QED
  BY <1>2, <1>7, <1>8, <1>9, <1>10, DocNoTx

LEMMA DocDateStep ==
    ASSUME DocInv, NEW d \in Docs, DatePasses(d)
    PROVE  DocInv'
<1>0. /\ paper \in [Docs -> Papers] /\ \A e \in Docs : paper[e] \in Papers
      /\ \A r \in DocRows : doc[r] \in DocRecords
  BY DocShape DEF DocInv
<1>1. /\ paper' = [paper EXCEPT ![d].past = TRUE] /\ UNCHANGED relayVars
      /\ current' = current /\ ending' = ending /\ scrapped' = scrapped
  BY DEF DatePasses
<1>2. ASSUME NEW e \in Docs
      PROVE  /\ paper'[e] \in Papers /\ paper'[e].kind = paper[e].kind
             /\ paper'[e].valid = paper[e].valid
  <2>1. paper'[e] = [paper[e] EXCEPT !.past = TRUE] \/ paper'[e] = paper[e]
    BY <1>0, <1>1
  <2> QED
    BY <1>0, <2>1 DEF Papers
<1>3. paper' \in [Docs -> Papers]
  BY <1>0, <1>1, <1>2
<1>4. ASSUME NEW r \in DocRows
      PROVE  /\ doc'[r] \in DocRecords /\ doc'[r].did = doc[r].did /\ doc'[r].status = doc[r].status
  <2>1. doc'[r] = [doc[r] EXCEPT !.past = TRUE] \/ doc'[r] = doc[r]
    BY DEF DatePasses
  <2> QED
    BY <1>0, <2>1 DEF DocRecords
<1>5. doc' \in [DocRows -> DocRecords]
  <2>1. doc' = [r \in DocRows |-> doc'[r]]
    BY DEF DatePasses
  <2> QED
    BY <1>4, <2>1
<1>6. DocShapes'
  BY <1>1, <1>3, <1>5 DEF DocInv, DocShapes, relayVars, Papers, DocRecords
<1>7. PapersSound' /\ DocOnward
  BY <1>1, <1>2, DocShape DEF DocInv, PapersSound, DocOnward
<1>8. \A r \in DocRows : RowKept(r, {})
  BY <1>4, <1>7, RowUntouched
<1> QED
  BY <1>1, <1>6, <1>7, <1>8, DocNoTx

LEMMA DocInitially == DocInit => DocInv
<1> SUFFICES ASSUME DocInit PROVE DocInv
  OBVIOUS
<1>1. /\ tx = [t \in Txs |-> NoTx] /\ sweep = 0 /\ crashes = 0 /\ losses = 0
      /\ paper = [d \in Docs |-> NoPaper] /\ current = [k \in Kinds |-> 0]
      /\ ending = {} /\ scrapped = FALSE /\ doc = [r \in DocRows |-> NoDoc]
  BY DEF DocInit, RelayInit
<1>2. NoTx \in DocTxs
  <2>1. "none" \in DocNames /\ 0 \in DocIds /\ 0 \in DocBys /\ 0 \in DocRefs
    BY DocumentAssumption DEF DocNames, DocIds, DocBys, DocRefs
  <2> QED
    BY <2>1 DEF DocTxs, TxOf, NoTx
<1>3. NoPaper \in Papers
  BY DocumentAssumption DEF NoPaper, Papers
<1>4. NoDoc \in DocRecords
  <2>1. NoDoc = [kind |-> "none", status |-> "absent", did |-> 0, passed |-> FALSE,
                 past |-> FALSE, claims |-> 0]
    BY DEF NoDoc
  <2> QED
    BY <2>1 DEF DocRecords, Kinds
<1>5. /\ tx \in [Txs -> DocTxs] /\ paper \in [Docs -> Papers] /\ doc \in [DocRows -> DocRecords]
      /\ current \in [Kinds -> Docs \cup {0}]
      /\ crashes \in 0 .. MaxCrashes /\ losses \in 0 .. MaxLosses
  BY <1>1, <1>2, <1>3, <1>4, RelayAssumption
<1>6. DocShapes
  BY <1>1, <1>5, DocTyping DEF DocShapes, Papers, DocRecords
<1>7. EventsSound /\ SweepSound
  BY <1>1 DEF EventsSound, SweepSound, NoTx
<1>8. PapersSound
  BY <1>1 DEF PapersSound, NoPaper
<1>9. ASSUME NEW t \in Txs PROVE DocTxSound(t)
  <2>1. tx[t].id = 0 /\ tx[t].op = "none"
    BY <1>1 DEF NoTx
  <2> QED
    BY <2>1, DocOps DEF DocTxSound, IssueOps, LaterOps
<1>10. DocLinks /\ DocumentsMatchChain
  BY <1>1, <1>9 DEF DocLinks, DocumentsMatchChain, NoDoc
<1> QED
  BY <1>6, <1>7, <1>8, <1>10 DEF DocInv

LEMMA DocInductive == DocInv /\ [DocNext]_docVars => DocInv'
<1> SUFFICES ASSUME DocInv, [DocNext]_docVars PROVE DocInv'
  OBVIOUS
<1>1. ASSUME NEW t \in Txs, RelayStep(t) /\ UNCHANGED docRest PROVE DocInv'
  <2>1. DocAlike
    BY <1>1, DocRelay
  <2> QED
    BY <1>1, <2>1, DocUntouched, DocShape DEF docRest, DocInv
<1>2. CASE (Crash /\ UNCHANGED docRest) \/ UNCHANGED docVars
  <2>1. /\ Crash \/ UNCHANGED relayVars
        /\ doc' = doc
        /\ paper' = paper /\ current' = current /\ scrapped' = scrapped /\ ending' = ending
    BY <1>2 DEF docVars, docRest
  <2>2. DocAlike
    BY <2>1, DocRelay
  <2> QED
    BY <2>1, <2>2, DocUntouched, DocShape DEF DocInv
<1> QED
  BY <1>1, <1>2, DocRequestStep, DocStoreStep, DocMineStep, DocHandleStep, DocReplayStep,
     DocRollBackStep, DocTerminationStep, DocDateStep, DocScrapStep DEF DocNext

(* A policy or certificate is shown EXPIRED or CANCELLED only if the row    *)
(* names a document, and that is not valid on chain (DocumentMirror). An     *)
(* ACTIVE row may be ahead of the chain.                                    *)
THEOREM DocumentsMatchChainAlways == DocSpec => []DocumentsMatchChain
<1>1. DocInv => DocumentsMatchChain
  BY DEF DocInv
<1> QED
  BY <1>1, DocInitially, DocInductive, PTL DEF DocSpec

-----------------------------------------------------------------------------
(* CLAIMS                                                                   *)

(* What the sweep found FAILED has reverted, and what it is rolling back it  *)
(* has found FAILED.                                                        *)
FailedSound == \A s \in Txs : tx[s].row = "FAILED" => tx[s].chain = "reverted"
SweepFailed == sweep # 0 => tx[sweep].row = "FAILED"

(* Each claim that reverted takes the count of its row down once.           *)
TakenDown(r) ==
    {t \in Txs : /\ tx[t].op = "fileClaim" /\ tx[t].link = r
                 /\ tx[t].row = "FAILED" /\ sweep # t}

ClaimsCounted ==
    \A r \in DocRows : doc[r].claims >= 0 - Cardinality(TakenDown(r)) /\ doc[r].claims <= ClaimCap

(* The total an event carries is one its document had.                      *)
TotalsSound ==
    \A t \in Txs : tx[t].op = "fileClaim" /\ tx[t].chain = "mined" =>
        tx[t].by <= paper[tx[t].id].claims

ClaimsInv == FailedSound /\ SweepFailed /\ ClaimsCounted /\ TotalsSound /\ ClaimsNotAhead

(* What was found FAILED stays so, unless its row goes; only what was not is *)
(* taken up by the sweep.                                                   *)
FailedStay(gone) ==
    /\ \A s \in Txs :
         /\ tx[s].row = "FAILED" =>
              \/ tx[s].link \in gone
              \/ tx'[s].row = "FAILED" /\ tx'[s].link = tx[s].link /\ tx'[s].op = tx[s].op
         /\ tx'[s].row = "FAILED" => tx'[s].chain = "reverted"
    /\ sweep' # 0 => tx'[sweep'].row = "FAILED" /\ (sweep' = sweep \/ tx[sweep'].row # "FAILED")

(* A step of one transaction the sweep does not take up                     *)
LEMMA OneStays ==
    ASSUME FailedSound, SweepFailed, sweep \in Txs \cup {0}, sweep' \in {0, sweep}, NEW t \in Txs,
           \A s \in Txs \ {t} : tx'[s] = tx[s],
           tx[t].row = "FAILED" => /\ tx'[t].row = "FAILED" /\ tx'[t].link = tx[t].link
                                   /\ tx'[t].op = tx[t].op,
           tx'[t].row = "FAILED" => tx[t].row = "FAILED" /\ tx'[t].chain = tx[t].chain
    PROVE  FailedStay({})
<1>1. ASSUME NEW s \in Txs
      PROVE  /\ tx[s].row = "FAILED" => /\ tx'[s].row = "FAILED" /\ tx'[s].link = tx[s].link
                                        /\ tx'[s].op = tx[s].op
             /\ tx'[s].row = "FAILED" => tx'[s].chain = "reverted"
  <2>1. CASE s = t
    BY <2>1 DEF FailedSound
  <2>2. CASE s # t
    BY <2>2 DEF FailedSound
  <2> QED
    BY <2>1, <2>2
<1>2. sweep' # 0 => tx'[sweep'].row = "FAILED" /\ sweep' = sweep
  BY <1>1 DEF SweepFailed
<1> QED
  BY <1>1, <1>2 DEF FailedStay

LEMMA StepsStay ==
    ASSUME NEW O, NEW I, NEW B, NEW L, NEW S, tx \in [Txs -> TxOf(O, I, B, L, S)], RelayCounters,
           FailedSound, SweepFailed, EventsSound, NEW t \in Txs,
           \/ tx[t].event # "none" /\ (AppliedBy(t) \/ Swallowed(t) \/ ReadBy(t))
           \/ Sweepable(t) /\ Replayed(t)
           \/ (\E link \in L : StoreTx(t, link)) \/ TxReverts(t) \/ RelayStep(t)
           \/ \E id \in I : tx[t].chain = "pool" /\ Mined(t, id)
    PROVE  FailedStay({})
<1>0. /\ tx[t] \in TxOf(O, I, B, L, S) /\ sweep \in Txs \cup {0}
      /\ tx[t].row = "FAILED" => tx[t].chain = "reverted" /\ tx[t].event = "none"
  BY DEF RelayCounters, FailedSound, EventsSound
<1>1. CASE tx[t].event # "none" /\ (AppliedBy(t) \/ Swallowed(t) \/ ReadBy(t))
  <2>1. /\ sweep' = sweep
        /\ \A s \in Txs \ {t} : tx'[s] = tx[s]
        /\ tx'[t].row = tx[t].row /\ tx'[t].op = tx[t].op /\ tx'[t].chain = tx[t].chain
        /\ tx'[t].link = tx[t].link
    BY <1>0, <1>1 DEF AppliedBy, Swallowed, ReadBy, TxOf
  <2> QED
    BY <1>0, <2>1, OneStays
<1>2. CASE Sweepable(t) /\ Replayed(t)
  <2>1. /\ sweep' = sweep /\ tx[t].row = "PENDING"
        /\ \A s \in Txs \ {t} : tx'[s] = tx[s]
        /\ tx'[t].row = "MINED"
    BY <1>0, <1>2 DEF Sweepable, Replayed, TxOf
  <2> QED
    BY <1>0, <2>1, OneStays
<1>3. ASSUME NEW link \in L, StoreTx(t, link) PROVE FailedStay({})
  <2>1. /\ sweep' = sweep /\ tx[t].row = "absent"
        /\ \A s \in Txs \ {t} : tx'[s] = tx[s]
        /\ tx'[t].row = "PENDING"
    BY <1>3, StoreStep
  <2> QED
    BY <1>0, <2>1, OneStays
<1>4. CASE TxReverts(t)
  <2>1. /\ sweep' = sweep /\ tx[t].chain = "pool"
        /\ \A s \in Txs \ {t} : tx'[s] = tx[s]
        /\ tx'[t].row = tx[t].row
    BY <1>0, <1>4 DEF TxReverts, TxOf
  <2> QED
    BY <1>0, <2>1, OneStays
<1>5. ASSUME NEW id \in I, tx[t].chain = "pool", Mined(t, id) PROVE FailedStay({})
  <2>1. /\ sweep' = sweep /\ tx'[t].row = tx[t].row
        /\ \A s \in Txs \ {t} : tx'[s] = tx[s]
    BY <1>5, MinedStep
  <2> QED
    BY <1>0, <1>5, <2>1, OneStays
<1>6. CASE StoreRefused(t)
  <2>1. /\ sweep' = sweep
        /\ \A s \in Txs \ {t} : tx'[s] = tx[s]
        /\ tx'[t].row = tx[t].row /\ tx'[t].op = tx[t].op /\ tx'[t].chain = tx[t].chain
        /\ tx'[t].link = tx[t].link
    BY <1>0, <1>6 DEF StoreRefused, TxOf
  <2> QED
    BY <1>0, <2>1, OneStays
<1>7. CASE FinalizeTx(t)
  <2>1. PICK link : tx' = [tx EXCEPT ![t].event = "handled", ![t].row = "MINED", ![t].link = link]
    BY <1>7 DEF FinalizeTx
  <2>2. /\ sweep' = sweep /\ tx[t].event = "applied"
        /\ \A s \in Txs \ {t} : tx'[s] = tx[s]
        /\ tx'[t].row = "MINED"
    BY <1>0, <1>7, <2>1 DEF FinalizeTx, TxOf
  <2> QED
    BY <1>0, <2>2, OneStays
<1>8. CASE LoseEvent(t)
  <2>1. /\ sweep' = sweep
        /\ \A s \in Txs \ {t} : tx'[s] = tx[s]
        /\ tx'[t].row = tx[t].row /\ tx'[t].op = tx[t].op /\ tx'[t].chain = tx[t].chain
        /\ tx'[t].link = tx[t].link
    BY <1>0, <1>8 DEF LoseEvent, TxOf
  <2> QED
    BY <1>0, <2>1, OneStays
<1>9. CASE SweepReverted(t)
  <2>1. /\ sweep' = t /\ sweep = 0 /\ tx[t].row = "PENDING" /\ tx[t].chain = "reverted"
        /\ \A s \in Txs \ {t} : tx'[s] = tx[s]
        /\ tx'[t].row = "FAILED" /\ tx'[t].chain = "reverted"
    BY <1>0, <1>9 DEF SweepReverted, FoundReverted, Sweepable, TxOf
  <2>2. ASSUME NEW s \in Txs
        PROVE  /\ tx[s].row = "FAILED" => /\ tx'[s].row = "FAILED" /\ tx'[s].link = tx[s].link
                                          /\ tx'[s].op = tx[s].op
               /\ tx'[s].row = "FAILED" => tx'[s].chain = "reverted"
    <3>1. CASE s = t
      BY <2>1, <3>1
    <3>2. CASE s # t
      BY <2>1, <3>2 DEF FailedSound
    <3> QED
      BY <3>1, <3>2
  <2> QED
    BY <2>1, <2>2 DEF FailedStay
<1> QED
  BY <1>1, <1>2, <1>3, <1>4, <1>5, <1>6, <1>7, <1>8, <1>9 DEF RelayStep

(* Steps that leave the transactions alone, or restart the process          *)
LEMMA RestStay ==
    ASSUME NEW O, NEW I, NEW B, NEW L, NEW S, tx \in [Txs -> TxOf(O, I, B, L, S)], RelayCounters,
           FailedSound, SweepFailed, RolledBack \/ (tx' = tx /\ sweep' = sweep) \/ Crash
    PROVE  FailedStay({})
<1>1. CASE RolledBack \/ (tx' = tx /\ sweep' = sweep)
  BY <1>1 DEF RolledBack, FailedStay, FailedSound, SweepFailed, RelayCounters
<1>2. CASE Crash
  <2>1. PICK again : /\ sweep' = 0
                     /\ tx' = [t \in Txs |->
                          [tx[t] EXCEPT !.call = "idle",
                                        !.event = IF @ \in {"read", "applied"} \/ t \in again
                                                  THEN "ready" ELSE @]]
    BY <1>2 DEF Crash
  <2>2. ASSUME NEW s \in Txs
        PROVE  /\ tx'[s].row = tx[s].row /\ tx'[s].op = tx[s].op /\ tx'[s].link = tx[s].link
               /\ tx'[s].chain = tx[s].chain
    <3>1. tx[s] \in TxOf(O, I, B, L, S)
      OBVIOUS
    <3>2. PICK event : tx'[s] = [tx[s] EXCEPT !.call = "idle", !.event = event]
      BY <2>1, <3>1 DEF TxOf
    <3> QED
      BY <3>1, <3>2 DEF TxOf
  <2> QED
    BY <2>1, <2>2 DEF FailedStay, FailedSound
<1> QED
  BY <1>1, <1>2

-----------------------------------------------------------------------------
(* What a row may count: nothing without a document                         *)
Ceiling(r) == IF doc[r].did = 0 THEN 0 ELSE paper[doc[r].did].claims

(* What a step may do to the count of a row: leave it, or set it to what an  *)
(* event said; and once for each claim that reverted, take it down.         *)
CountMoves(r, gone) ==
    /\ \/ doc'[r].claims = doc[r].claims /\ r \notin gone
       \/ doc'[r].claims \in 0 .. ClaimCap
       \/ /\ doc'[r].claims = doc[r].claims - 1 /\ r \notin gone
          /\ sweep \in Txs /\ sweep' = 0 /\ tx[sweep].op = "fileClaim" /\ tx[sweep].link = r
    /\ \/ scrapped'
       \/ doc'[r].claims <= doc[r].claims /\ (doc'[r].did = doc[r].did \/ doc[r].did = 0)
       \/ doc'[r].claims <= Ceiling(r)'

LEMMA SomeTxs == \A T \in SUBSET Txs : IsFiniteSet(T) /\ Cardinality(T) \in 0 .. MaxTxs
<1>1. IsFiniteSet(Txs) /\ Cardinality(Txs) = MaxTxs
  BY FS_Interval, RelayAssumption DEF Txs
<1> QED
  BY <1>1, FS_Subset, FS_CardinalityType

LEMMA CountsKept ==
    ASSUME DocInv, DocInv', ClaimsInv, NEW gone, FailedStay(gone), TotalsSound',
           scrapped => scrapped', \A d \in Docs : paper'[d].claims >= paper[d].claims,
           \A r \in DocRows : CountMoves(r, gone)
    PROVE  ClaimsInv'
<1>0. /\ \A r \in DocRows : /\ doc[r].claims \in Int /\ doc[r].did \in Docs \cup {0}
                            /\ doc'[r].claims \in Int /\ doc'[r].did \in Docs \cup {0}
      /\ \A d \in Docs : paper[d].claims \in 0 .. ClaimCap /\ paper'[d].claims \in 0 .. ClaimCap
      /\ ClaimCap \in Nat /\ sweep \in Txs \cup {0} /\ 0 \notin Txs
  <2>1. /\ \A d \in Docs : paper[d] \in Papers /\ paper'[d] \in Papers
        /\ \A r \in DocRows : doc[r] \in DocRecords /\ doc'[r] \in DocRecords
    BY DocShape DEF DocInv, DocShapes, Papers, DocRecords
  <2> QED
    BY <2>1, DocumentAssumption DEF DocInv, DocShapes, Papers, DocRecords, Txs
<1>1. FailedSound' /\ SweepFailed'
  BY DEF FailedStay, FailedSound, SweepFailed
<1>2. ASSUME NEW r \in DocRows
      PROVE  doc'[r].claims >= 0 - Cardinality(TakenDown(r)') /\ doc'[r].claims <= ClaimCap
  <2> DEFINE n == Cardinality(TakenDown(r))
             m == Cardinality(TakenDown(r)')
  <2>1. n \in Nat /\ m \in Nat /\ IsFiniteSet(TakenDown(r)) /\ IsFiniteSet(TakenDown(r)')
    <3>1. TakenDown(r) \in SUBSET Txs /\ TakenDown(r)' \in SUBSET Txs
      BY DEF TakenDown
    <3> QED
      BY <3>1, SomeTxs, RelayAssumption
  <2>2. doc[r].claims >= 0 - n /\ doc[r].claims <= ClaimCap
    BY DEF ClaimsInv, ClaimsCounted
  <2>3. CASE doc'[r].claims \in 0 .. ClaimCap
    BY <1>0, <2>1, <2>3
  <2>4. ASSUME r \notin gone PROVE TakenDown(r) \subseteq TakenDown(r)'
    BY <1>0, <2>4 DEF TakenDown, FailedStay
  <2>5. CASE doc'[r].claims = doc[r].claims /\ r \notin gone
    <3>1. n <= m
      BY <2>1, <2>4, <2>5, FS_Subset
    <3> QED
      BY <1>0, <2>1, <2>2, <2>5, <3>1
  <2>6. CASE /\ doc'[r].claims = doc[r].claims - 1 /\ r \notin gone
             /\ sweep \in Txs /\ sweep' = 0 /\ tx[sweep].op = "fileClaim" /\ tx[sweep].link = r
    <3>1. PICK t \in Txs : t = sweep
      BY <2>6
    <3>2. tx[t].row = "FAILED"
      BY <1>0, <3>1 DEF ClaimsInv, SweepFailed
    <3>3. t \notin TakenDown(r)
      BY <3>1 DEF TakenDown
    <3>4. t \in TakenDown(r)'
      BY <1>0, <2>6, <3>1, <3>2 DEF TakenDown, FailedStay
    <3>5. Cardinality(TakenDown(r) \cup {t}) = n + 1 /\ IsFiniteSet(TakenDown(r) \cup {t})
      BY <2>1, <3>3, FS_AddElement
    <3>6. TakenDown(r) \cup {t} \subseteq TakenDown(r)'
      BY <2>4, <2>6, <3>4
    <3>7. n + 1 <= m
      BY <2>1, <3>5, <3>6, FS_Subset
    <3> QED
      BY <1>0, <2>1, <2>2, <2>6, <3>7
  <2> QED
    BY <2>3, <2>5, <2>6 DEF CountMoves
<1>3. ASSUME ~scrapped', NEW r \in DocRows PROVE doc'[r].claims <= Ceiling(r)'
  <2>1. doc[r].claims <= Ceiling(r)
    BY <1>3 DEF ClaimsInv, ClaimsNotAhead, Ceiling
  <2>2. Ceiling(r) \in Nat /\ Ceiling(r)' \in Nat
    BY <1>0 DEF Ceiling
  <2>3. CASE doc'[r].claims <= doc[r].claims /\ (doc'[r].did = doc[r].did \/ doc[r].did = 0)
    <3>1. Ceiling(r) <= Ceiling(r)'
      BY <1>0, <2>3 DEF Ceiling
    <3> QED
      BY <1>0, <2>1, <2>2, <2>3, <3>1
  <2> QED
    BY <1>3, <2>3 DEF CountMoves
<1>4. ClaimsNotAhead'
  BY <1>3 DEF ClaimsNotAhead, Ceiling
<1> QED
  BY <1>1, <1>2, <1>4 DEF ClaimsInv, ClaimsCounted

(* The totals of claims mined stay within what their documents have.        *)
LEMMA TotalsKept ==
    ASSUME DocInv, TotalsSound, \A d \in Docs : paper'[d].claims >= paper[d].claims,
           \A d \in Docs : paper'[d].claims \in Int,
           \A s \in Txs : /\ tx'[s].op = tx[s].op /\ tx'[s].id = tx[s].id /\ tx'[s].by = tx[s].by
                          /\ tx'[s].chain = "mined" <=> tx[s].chain = "mined"
    PROVE  TotalsSound'
<1>1. ASSUME NEW t \in Txs, tx[t].op = "fileClaim", tx[t].chain = "mined"
      PROVE  tx[t].by <= paper'[tx[t].id].claims
  <2>1. LaterSound(t)
    BY <1>1 DEF DocInv, DocLinks, DocTxSound
  <2>2. tx[t].id \in Docs /\ tx[t].by \in Int
    BY <2>1, DocShape DEF LaterSound, DocInv
  <2>3. paper[tx[t].id].claims \in Int
    BY <2>2, DocShape DEF DocInv, Papers
  <2>4. tx[t].by <= paper[tx[t].id].claims
    BY <1>1 DEF TotalsSound
  <2> QED
    BY <2>2, <2>3, <2>4
<1> QED
  BY <1>1 DEF TotalsSound

(* A step of transactions and rows that mines no claim                      *)
LEMMA ClaimsSteady ==
    ASSUME DocInv, DocInv', ClaimsInv, NEW gone, FailedStay(gone), Relayed(gone),
           paper' = paper, scrapped' = scrapped, \A r \in DocRows : CountMoves(r, gone)
    PROVE  ClaimsInv'
<1>1. \A d \in Docs : paper[d].claims \in Int
  <2>1. \A d \in Docs : paper[d] \in Papers
    BY DocShape DEF DocInv
  <2> QED
    BY <2>1 DEF Papers
<1>2. TotalsSound'
  BY <1>1, TotalsKept DEF ClaimsInv, Relayed, RelayedTx
<1> QED
  BY <1>1, <1>2, CountsKept

(* The same, with no count written                                          *)
LEMMA CountsAlone ==
    ASSUME DocInv, DocInv', ClaimsInv, FailedStay({}), Relayed({}),
           paper' = paper, scrapped' = scrapped,
           \A r \in DocRows : /\ doc'[r].claims = doc[r].claims
                              /\ doc'[r].did = doc[r].did \/ doc[r].did = 0 \/ scrapped
    PROVE  ClaimsInv'
<1>1. \A r \in DocRows : CountMoves(r, {})
  BY DocShape DEF CountMoves, DocInv
<1> QED
  BY <1>1, ClaimsSteady

LEMMA DocStay ==
    ASSUME DocInv, ClaimsInv,
           \/ \E t \in Txs :
                \/ tx[t].event # "none" /\ (AppliedBy(t) \/ Swallowed(t) \/ ReadBy(t))
                \/ Sweepable(t) /\ Replayed(t)
                \/ StoreTx(t, tx[t].link) \/ TxReverts(t) \/ RelayStep(t)
           \/ RolledBack \/ UNCHANGED relayVars \/ Crash
    PROVE  FailedStay({}) /\ Relayed({})
<1>1. tx \in [Txs -> DocTxs] /\ RelayCounters /\ \A t \in Txs : tx[t].link \in DocRefs
  BY DocShape DEF DocInv, DocRefs
<1>2. Relayed({})
  BY DocRelay DEF DocAlike
<1>3. FailedSound /\ SweepFailed /\ EventsSound
  BY DEF ClaimsInv, DocInv
<1>4. ASSUME NEW t \in Txs, StoreTx(t, tx[t].link) PROVE \E link \in DocRefs : StoreTx(t, link)
  BY <1>1, <1>4
<1> QED
  BY <1>1, <1>2, <1>3, <1>4, StepsStay, RestStay DEF DocTxs, relayVars

(* One row is written, and its count is left.                               *)
LEMMA RowAlone ==
    ASSUME DocInv, NEW q \in DocRows, NEW row \in DocRecords, doc' = [doc EXCEPT ![q] = row],
           row.claims = doc[q].claims, row.did = doc[q].did \/ doc[q].did = 0 \/ scrapped
    PROVE  \A r \in DocRows : /\ doc'[r].claims = doc[r].claims
                              /\ doc'[r].did = doc[r].did \/ doc[r].did = 0 \/ scrapped
BY DocShape DEF DocInv

(* The count of a row becomes a total of its document.                      *)
LEMMA TotalTaken ==
    ASSUME DocInv, DocInv', ClaimsInv, NEW t \in Txs, tx[t].op = "fileClaim", tx[t].chain = "mined",
           NEW r \in DocRows, doc'[r].claims = tx[t].by, doc'[r].did = tx[t].id \/ scrapped,
           paper' = paper, scrapped' = scrapped
    PROVE  CountMoves(r, {})
<1>1. LaterSound(t)
  BY DEF DocInv, DocLinks, DocTxSound
<1>2. tx[t].id \in Docs /\ tx[t].by \in 0 .. ClaimCap
  BY <1>1, DocShape DEF DocInv, LaterSound
<1>3. tx[t].by <= paper[tx[t].id].claims
  BY DEF ClaimsInv, TotalsSound
<1>4. scrapped' \/ doc'[r].claims <= Ceiling(r)'
  BY <1>1, <1>3 DEF Ceiling, LaterSound
<1> QED
  BY <1>2, <1>4 DEF CountMoves

LEMMA ClaimsHandled ==
    ASSUME DocInv, DocInv', ClaimsInv, NEW t \in Txs, DocHandle(t)
    PROVE  ClaimsInv'
<1>0. /\ tx[t].id \in Docs \cup {0} /\ tx[t].seen \in DocRows \cup {0}
      /\ tx[t].event # "none" => tx[t].chain = "mined"
      /\ doc \in [DocRows -> DocRecords] /\ doc' \in [DocRows -> DocRecords]
      /\ \A r \in DocRows : doc[r] \in DocRecords /\ doc[r].did \in Docs \cup {0}
  BY DocShape DEF DocInv, DocShapes, DocRecords, EventsSound
<1>1. CASE HandlePolicyIssued(t) \/ HandlePUCIssued(t) \/ DocIssuedFails(t)
  <2>1. /\ tx[t].event # "none" /\ (ReadBy(t) \/ Swallowed(t))
        /\ paper' = paper /\ scrapped' = scrapped /\ doc' = doc
    BY <1>1 DEF HandlePolicyIssued, HandlePUCIssued, DocIssuedRead, DocIssuedFails, docRest, SeenBy
  <2> QED
    BY <2>1, DocStay, CountsAlone
<1>2. CASE DocIssuedWrite(t)
  <2>1. /\ tx[t].op \in IssueOps /\ tx[t].event = "read" /\ AppliedBy(t)
        /\ paper' = paper /\ scrapped' = scrapped
    BY <1>2, DocOps DEF DocIssuedWrite, SeenBy
  <2>2. FailedStay({}) /\ Relayed({})
    BY <2>1, DocStay
  <2>3. /\ IssueSound(t) /\ tx[t].id \in Docs /\ tx[t].seen \in {0, tx[t].link}
    BY <1>0, <2>1, DocOps DEF DocInv, DocLinks, DocTxSound, IssueSound
  <2>4. CASE tx[t].seen # 0 /\ doc' = [doc EXCEPT ![tx[t].seen].did = tx[t].id,
                                                  ![tx[t].seen].status = "ACTIVE"]
    <3>1. PICK r \in DocRows : r = tx[t].seen /\ r = tx[t].link
      BY <1>0, <2>3, <2>4
    <3>2. PICK row : row = [doc[r] EXCEPT !.did = tx[t].id, !.status = "ACTIVE"]
      OBVIOUS
    <3>3. row \in DocRecords /\ row.did = tx[t].id /\ row.claims = doc[r].claims
      BY <1>0, <2>3, <3>2 DEF DocRecords
    <3>5. doc' = [doc EXCEPT ![r] = row]
      BY <2>4, <3>1, <3>2
    <3>4. scrapped \/ doc[r].did \in {0, tx[t].id}
      BY <1>0, <2>3, <2>4, <3>1 DEF IssueSound
    <3> QED
      BY <2>1, <2>2, <3>3, <3>4, <3>5, RowAlone, CountsAlone
  <2>5. ASSUME NEW q \in DocRows,
               IF DocRowOf(tx[t].id) # {} THEN q \in DocRowOf(tx[t].id) ELSE NextDocRow(q),
               doc' = [doc EXCEPT ![q].kind = "policy", ![q].did = tx[t].id, ![q].passed = TRUE,
                                  ![q].past = paper[tx[t].id].past, ![q].status = "ACTIVE"]
        PROVE  ClaimsInv'
    <3>1. PICK row : row = [doc[q] EXCEPT !.kind = "policy", !.did = tx[t].id, !.passed = TRUE,
                                          !.past = paper[tx[t].id].past, !.status = "ACTIVE"]
      OBVIOUS
    <3>2. paper[tx[t].id].past \in BOOLEAN
      BY <2>3, DocShape DEF DocInv, Papers
    <3>3. row \in DocRecords /\ row.did = tx[t].id /\ row.claims = doc[q].claims
      BY <1>0, <2>3, <3>1, <3>2 DEF DocRecords, Kinds
    <3>4. doc' = [doc EXCEPT ![q] = row]
      BY <2>5, <3>1
    <3>5. doc[q].did = tx[t].id \/ doc[q].did = 0
      BY <2>5 DEF DocRowOf, NextDocRow, NoDoc
    <3> QED
      BY <2>1, <2>2, <3>3, <3>4, <3>5, RowAlone, CountsAlone
  <2>6. CASE doc' = doc
    BY <2>1, <2>2, <2>6, CountsAlone
  <2> QED
    BY <1>2, <2>4, <2>5, <2>6 DEF DocIssuedWrite
<1>3. CASE HandlePolicyExpired(t) \/ HandlePUCExpired(t)
  <2>1. /\ tx[t].event # "none" /\ AppliedBy(t) /\ paper' = paper /\ scrapped' = scrapped
        /\ doc' = DocMarked(DocRowOf(tx[t].id), "EXPIRED")
    BY <1>3 DEF HandlePolicyExpired, HandlePUCExpired, HandleDocExpired
  <2>2. ASSUME NEW r \in DocRows PROVE doc'[r].claims = doc[r].claims /\ doc'[r].did = doc[r].did
    <3>1. doc'[r] = doc[r] \/ doc'[r] = [doc[r] EXCEPT !.status = "EXPIRED"]
      BY <2>1 DEF DocMarked
    <3> QED
      BY <1>0, <3>1 DEF DocRecords
  <2> QED
    BY <2>1, <2>2, DocStay, CountsAlone
<1>4. CASE HandleClaimFiled(t)
  <2>1. /\ tx[t].event # "none" /\ tx[t].op = "fileClaim" /\ AppliedBy(t)
        /\ paper' = paper /\ scrapped' = scrapped
        /\ doc' = [r \in DocRows |-> IF doc[r].did = tx[t].id
                                     THEN [doc[r] EXCEPT !.claims = tx[t].by] ELSE doc[r]]
    BY <1>4 DEF HandleClaimFiled, Arrived
  <2>2. FailedStay({}) /\ Relayed({})
    BY <2>1, DocStay
  <2>3. ASSUME NEW r \in DocRows PROVE CountMoves(r, {})
    <3>1. CASE doc[r].did = tx[t].id
      <4>1. doc'[r] = [doc[r] EXCEPT !.claims = tx[t].by]
        BY <2>1, <3>1
      <4>2. doc'[r].claims = tx[t].by /\ doc'[r].did = tx[t].id
        BY <1>0, <3>1, <4>1 DEF DocRecords
      <4> QED
        BY <1>0, <2>1, <4>2, TotalTaken
    <3>2. CASE doc[r].did # tx[t].id
      <4>1. doc'[r] = doc[r]
        BY <2>1, <3>2
      <4> QED
        BY <4>1, DocShape DEF CountMoves, DocInv
    <3> QED
      BY <3>1, <3>2
  <2> QED
    BY <2>1, <2>2, <2>3, ClaimsSteady
<1> QED
  BY <1>1, <1>2, <1>3, <1>4 DEF DocHandle

LEMMA ClaimsReplayed ==
    ASSUME DocInv, DocInv', ClaimsInv, NEW t \in Txs, DocReplay(t)
    PROVE  ClaimsInv'
<1>0. /\ tx[t].id \in Docs \cup {0} /\ tx[t].by \in Int
      /\ tx[t].link \in DocRows \cup {0} /\ 0 \notin DocRows
      /\ doc \in [DocRows -> DocRecords]
      /\ \A r \in DocRows : doc[r] \in DocRecords /\ doc[r].did \in Docs \cup {0}
  BY DocShape DEF DocInv
<1>1. /\ Sweepable(t) /\ Replayed(t) /\ tx[t].chain = "mined"
      /\ paper' = paper /\ scrapped' = scrapped
  BY DEF DocReplay, ReplayPolicyIssue, ReplayPucIssue, ReplayDocIssue, ReplayPolicyExpire,
     ReplayPucExpire, ReplayDocExpire, ReplayClaim, FoundMined
<1>2. FailedStay({}) /\ Relayed({})
  BY <1>1, DocStay
<1>3. CASE ReplayPolicyIssue(t) \/ ReplayPucIssue(t)
  <2>1. /\ tx[t].op \in IssueOps
        /\ doc' = [doc EXCEPT ![tx[t].link].did = tx[t].id, ![tx[t].link].status = "ACTIVE"]
    BY <1>3, DocOps DEF ReplayPolicyIssue, ReplayPucIssue, ReplayDocIssue
  <2>2. CASE tx[t].link \in DocRows
    <3>1. IssueSound(t) /\ tx[t].id \in Docs /\ tx[t].link # 0
      BY <1>0, <1>1, <2>1, <2>2, DocOps DEF DocInv, DocLinks, DocTxSound, IssueSound
    <3>2. PICK row : row = [doc[tx[t].link] EXCEPT !.did = tx[t].id, !.status = "ACTIVE"]
      OBVIOUS
    <3>3. row \in DocRecords /\ row.did = tx[t].id /\ row.claims = doc[tx[t].link].claims
      BY <1>0, <2>2, <3>1, <3>2 DEF DocRecords
    <3>4. doc' = [doc EXCEPT ![tx[t].link] = row]
      BY <2>1, <3>2
    <3>5. scrapped \/ doc[tx[t].link].did \in {0, tx[t].id}
      BY <3>1 DEF IssueSound
    <3> QED
      BY <1>1, <1>2, <2>2, <3>3, <3>4, <3>5, RowAlone, CountsAlone
  <2>3. CASE tx[t].link = 0
    <3>1. doc' = doc
      BY <1>0, <2>1, <2>3
    <3> QED
      BY <1>1, <1>2, <3>1, CountsAlone
  <2> QED
    BY <1>0, <2>2, <2>3
<1>4. CASE ReplayPolicyExpire(t) \/ ReplayPucExpire(t)
  <2>1. doc' = DocMarked({tx[t].link}, "EXPIRED")
    BY <1>4 DEF ReplayPolicyExpire, ReplayPucExpire, ReplayDocExpire
  <2>2. ASSUME NEW r \in DocRows PROVE doc'[r].claims = doc[r].claims /\ doc'[r].did = doc[r].did
    <3>1. doc'[r] = doc[r] \/ doc'[r] = [doc[r] EXCEPT !.status = "EXPIRED"]
      BY <2>1 DEF DocMarked
    <3> QED
      BY <1>0, <3>1 DEF DocRecords
  <2> QED
    BY <1>1, <1>2, <2>2, CountsAlone
<1>5. CASE ReplayClaim(t)
  <2>1. tx[t].op = "fileClaim" /\ doc' = [doc EXCEPT ![tx[t].link].claims = tx[t].by]
    BY <1>5 DEF ReplayClaim, FoundMined
  <2>2. ASSUME NEW r \in DocRows PROVE CountMoves(r, {})
    <3>1. CASE r = tx[t].link
      <4>1. doc'[r] = [doc[r] EXCEPT !.claims = tx[t].by]
        BY <1>0, <2>1, <3>1
      <4>2. doc'[r].claims = tx[t].by /\ doc'[r].did = doc[r].did
        BY <1>0, <4>1 DEF DocRecords
      <4>3. LaterSound(t)
        BY <2>1 DEF DocInv, DocLinks, DocTxSound
      <4>4. doc[r].did = tx[t].id \/ scrapped
        BY <1>0, <3>1, <4>3 DEF LaterSound
      <4> QED
        BY <1>1, <2>1, <4>2, <4>4, TotalTaken
    <3>2. CASE r # tx[t].link
      <4>1. doc'[r] = doc[r]
        BY <1>0, <2>1, <3>2
      <4> QED
        BY <4>1, DocShape DEF CountMoves, DocInv
    <3> QED
      BY <3>1, <3>2
  <2> QED
    BY <1>1, <1>2, <2>2, ClaimsSteady
<1> QED
  BY <1>3, <1>4, <1>5 DEF DocReplay

(* The one step that takes a count down, and the one that deletes a row     *)
LEMMA ClaimsRolledBack ==
    ASSUME DocInv, DocInv', ClaimsInv, NEW t \in Txs, DocRollBack(t)
    PROVE  ClaimsInv'
<1>0. /\ tx[t].link \in DocRows \cup {0} /\ 0 \notin DocRows
      /\ tx \in [Txs -> DocTxs] /\ RelayCounters
      /\ doc \in [DocRows -> DocRecords]
      /\ \A r \in DocRows : /\ doc[r] \in DocRecords /\ doc[r].did \in Docs \cup {0}
                            /\ doc[r].claims \in Int
  BY DocShape DEF DocInv
<1>1. sweep = t /\ paper' = paper /\ scrapped' = scrapped
  BY DEF DocRollBack, RollBackPolicyIssue, RollBackPucIssue, RollBackDocIssue,
     RollBackPolicyExpire, RollBackPucExpire, RollBackDocExpire, RollBackClaim, RollingBack
<1>2. CASE RollBackPolicyIssue(t) \/ RollBackPucIssue(t)
  <2>1. /\ sweep' = 0 /\ tx' = Cascaded({tx[t].link})
        /\ doc' = [doc EXCEPT ![tx[t].link] = [NoDoc EXCEPT !.status = "deleted"]]
    BY <1>2 DEF RollBackPolicyIssue, RollBackPucIssue, RollBackDocIssue
  <2>2. Relayed({tx[t].link}) /\ FailedStay({tx[t].link})
    <3>1. 0 \in DocRefs
      BY DEF DocRefs
    <3>2. Relayed({tx[t].link})
      BY <1>0, <2>1, <3>1, CascadeStep DEF DocTxs
    <3>3. ASSUME NEW s \in Txs
          PROVE  /\ \/ tx'[s].row = tx[s].row /\ tx'[s].link = tx[s].link /\ tx'[s].op = tx[s].op
                    \/ tx[s].link \in {tx[t].link} /\ tx'[s].row = "absent"
                 /\ tx'[s].chain = tx[s].chain
      <4>1. tx[s] \in DocTxs
        BY <1>0
      <4>2. \/ tx'[s] = tx[s]
            \/ /\ tx[s].link \in {tx[t].link}
               /\ tx'[s] = [tx[s] EXCEPT !.row = "absent", !.link = 0, !.call = "idle"]
        BY <2>1 DEF Cascaded
      <4> QED
        BY <4>1, <4>2 DEF DocTxs, TxOf
    <3> QED
      BY <2>1, <3>2, <3>3 DEF FailedStay, ClaimsInv, FailedSound
  <2>3. PICK row : row = [NoDoc EXCEPT !.status = "deleted"]
    OBVIOUS
  <2>4. row.did = 0 /\ row.claims = 0
    BY <2>3 DEF NoDoc
  <2>5. doc' = [doc EXCEPT ![tx[t].link] = row]
    BY <2>1, <2>3
  <2>6. ASSUME NEW r \in DocRows PROVE CountMoves(r, {tx[t].link})
    <3>1. CASE r = tx[t].link
      <4>1. doc'[r].did = 0 /\ doc'[r].claims = 0
        BY <1>0, <2>4, <2>5, <3>1
      <4> QED
        BY <4>1, DocumentAssumption DEF CountMoves, Ceiling
    <3>2. CASE r # tx[t].link
      <4>1. doc'[r] = doc[r]
        BY <1>0, <2>5, <3>2
      <4> QED
        BY <1>0, <3>2, <4>1 DEF CountMoves
    <3> QED
      BY <3>1, <3>2
  <2> QED
    BY <1>1, <2>2, <2>6, ClaimsSteady
<1>3. CASE RollBackPolicyExpire(t) \/ RollBackPucExpire(t)
  <2>1. RolledBack /\ doc' = DocMarked({tx[t].link}, "ACTIVE")
    BY <1>3 DEF RollBackPolicyExpire, RollBackPucExpire, RollBackDocExpire
  <2>2. ASSUME NEW r \in DocRows PROVE doc'[r].claims = doc[r].claims /\ doc'[r].did = doc[r].did
    <3>1. doc'[r] = doc[r] \/ doc'[r] = [doc[r] EXCEPT !.status = "ACTIVE"]
      BY <2>1 DEF DocMarked
    <3> QED
      BY <1>0, <3>1 DEF DocRecords
  <2> QED
    BY <1>1, <2>1, <2>2, DocStay, CountsAlone
<1>4. CASE RollBackClaim(t)
  <2>1. /\ tx[t].op = "fileClaim" /\ RolledBack /\ sweep' = 0
        /\ doc' = [doc EXCEPT ![tx[t].link].claims = doc[tx[t].link].claims - 1]
    BY <1>4 DEF RollBackClaim, RollingBack, RolledBack
  <2>2. FailedStay({}) /\ Relayed({})
    BY <2>1, DocStay
  <2>3. ASSUME NEW r \in DocRows PROVE CountMoves(r, {})
    <3>1. CASE r = tx[t].link
      <4>1. PICK n \in Int : n = doc[r].claims - 1
        BY <1>0
      <4>2. doc'[r] = [doc[r] EXCEPT !.claims = n]
        BY <1>0, <2>1, <3>1, <4>1
      <4>3. doc'[r].claims = n /\ doc'[r].did = doc[r].did
        BY <1>0, <4>2 DEF DocRecords
      <4> QED
        BY <1>0, <1>1, <2>1, <3>1, <4>1, <4>3 DEF CountMoves
    <3>2. CASE r # tx[t].link
      <4>1. doc'[r] = doc[r]
        BY <1>0, <2>1, <3>2
      <4> QED
        BY <1>0, <4>1 DEF CountMoves
    <3> QED
      BY <3>1, <3>2
  <2> QED
    BY <1>1, <2>2, <2>3, ClaimsSteady
<1> QED
  BY <1>2, <1>3, <1>4 DEF DocRollBack

LEMMA ClaimsRequested ==
    ASSUME DocInv, DocInv', ClaimsInv, NEW t \in Txs, DocRequest(t)
    PROVE  ClaimsInv'
<1>0. /\ tx \in [Txs -> DocTxs] /\ RelayCounters /\ FailedSound /\ SweepFailed /\ EventsSound
      /\ \A r \in DocRows : doc[r].did \in Docs \cup {0} /\ doc[r].claims \in Int
      /\ \A d \in Docs : paper[d].claims \in Int
  <2>1. \A d \in Docs : paper[d] \in Papers
    BY DocShape DEF DocInv
  <2> QED
    BY <2>1, DocShape DEF DocInv, ClaimsInv, Papers
<1>1. paper' = paper /\ scrapped' = scrapped /\ doc' = doc
  BY DEF DocRequest, IssuePolicyDoc, IssuePucDoc, RequestIssue, FileClaimOn, MarkPolicyExpired,
     MarkPucExpired, MarkExpired, docRest
<1>2. PICK op \in DocNames, id \in DocIds, link \in DocRefs : SubmitEntityTx(t, op, id, 0, link)
  <2>1. CASE IssuePolicyDoc(t) \/ \E op \in DOMAIN Issues : IssuePucDoc(t, op)
    <3>1. PICK op \in IssueOps : SubmitEntityTx(t, op, 0, 0, 0)
      BY <2>1 DEF IssuePolicyDoc, IssuePucDoc, RequestIssue, IssueOps
    <3> QED
      BY <3>1 DEF DocNames, DocIds, DocRefs
  <2>2. CASE \E r \in DocRows : FileClaimOn(t, r) \/ MarkPolicyExpired(t, r) \/ MarkPucExpired(t, r)
    <3>1. PICK r \in DocRows, op \in LaterOps : SubmitEntityTx(t, op, doc[r].did, 0, r)
      BY <2>2 DEF FileClaimOn, MarkPolicyExpired, MarkPucExpired, MarkExpired, LaterOps
    <3> QED
      BY <1>0, <3>1 DEF DocNames, DocIds, DocRefs
  <2> QED
    BY <2>1, <2>2 DEF DocRequest
<1>3. 0 \in DocBys /\ 0 \in DocRefs
  BY DocumentAssumption DEF DocBys, DocRefs
<1>4. /\ tx[t] = NoTx /\ tx'[t].chain = "pool" /\ tx'[t].row = "absent"
      /\ sweep' = sweep /\ \A s \in Txs \ {t} : tx'[s] = tx[s]
  <2>1. SubmitEntityTx(t, op, id, 0, link) /\ tx \in [Txs -> DocTxs] /\ RelayCounters
    BY <1>0, <1>2
  <2>2. /\ tx[t] = NoTx
        /\ tx'[t] = [op |-> op, id |-> id, by |-> 0, link |-> link, chain |-> "pool",
                     call |-> "sent", row |-> "absent", event |-> "none", seen |-> 0]
        /\ \A s \in Txs \ {t} : tx'[s] = tx[s]
        /\ sweep' = sweep
    BY <1>3, <2>1, SubmitStep DEF DocTxs
  <2> QED
    BY <2>2
<1>5. FailedStay({})
  BY <1>0, <1>4, OneStays DEF NoTx, RelayCounters
<1>6. TotalsSound'
  BY <1>1, <1>4 DEF TotalsSound, ClaimsInv
<1>7. \A r \in DocRows : CountMoves(r, {})
  BY <1>0, <1>1 DEF CountMoves
<1> QED
  BY <1>0, <1>1, <1>5, <1>6, <1>7, CountsKept

LEMMA ClaimsStored ==
    ASSUME DocInv, DocInv', ClaimsInv, NEW t \in Txs, DocStore(t)
    PROVE  ClaimsInv'
<1>0. /\ tx \in [Txs -> DocTxs] /\ RelayCounters /\ FailedSound /\ SweepFailed /\ EventsSound
      /\ doc \in [DocRows -> DocRecords]
      /\ \A r \in DocRows : doc[r].did \in Docs \cup {0} /\ doc[r].claims \in Int
      /\ \A d \in Docs : paper[d].claims \in Int
  <2>1. \A d \in Docs : paper[d] \in Papers
    BY DocShape DEF DocInv
  <2> QED
    BY <2>1, DocShape DEF DocInv, ClaimsInv, Papers
<1>1. CASE CreatePolicyExpireTx(t) \/ CreatePucExpireTx(t) \/ CreateClaimTx(t)
  <2>1. StoreTx(t, tx[t].link) /\ doc' = doc /\ paper' = paper /\ scrapped' = scrapped
    BY <1>1 DEF CreatePolicyExpireTx, CreatePucExpireTx, CreateClaimTx, CreateDocTx, docRest
  <2> QED
    BY <2>1, DocStay, CountsAlone
<1>2. ASSUME NEW r \in DocRows, CreatePendingPolicyTx(t, r) \/ CreatePendingPucTx(t, r)
      PROVE  ClaimsInv'
  <2>1. /\ tx[t].op \in IssueOps /\ doc[r] = NoDoc /\ StoreTx(t, r)
        /\ doc' = [doc EXCEPT ![r] = [NoDoc EXCEPT !.kind = Issues[tx[t].op], !.status = "ACTIVE",
                                                   !.passed = tx[t].op # "issueFailedPUC",
                                                   !.past = tx[t].op = "issueFailedPUC"]]
        /\ paper' = paper /\ scrapped' = scrapped
    BY <1>2, DocOps DEF CreatePendingPolicyTx, CreatePendingPucTx, CreateIssueTx, NextDocRow
  <2>2. r \in DocRefs
    BY DEF DocRefs
  <2>3. FailedStay({})
    BY <1>0, <2>1, <2>2, StepsStay DEF DocTxs
  <2>4. /\ tx'[t].op = tx[t].op /\ tx'[t].id = tx[t].id /\ tx'[t].by = tx[t].by
        /\ tx'[t].chain = tx[t].chain
        /\ \A s \in Txs \ {t} : tx'[s] = tx[s]
    BY <1>0, <2>1, <2>2, StoreStep DEF DocTxs
  <2>5. TotalsSound'
    BY <2>1, <2>4 DEF TotalsSound, ClaimsInv
  <2>6. PICK row : row = [NoDoc EXCEPT !.kind = Issues[tx[t].op], !.status = "ACTIVE",
                                       !.passed = tx[t].op # "issueFailedPUC",
                                       !.past = tx[t].op = "issueFailedPUC"]
    OBVIOUS
  <2>7. row.did = 0 /\ row.claims = 0
    BY <2>6 DEF NoDoc
  <2>8. doc' = [doc EXCEPT ![r] = row]
    BY <2>1, <2>6
  <2>9. doc'[r] = row /\ \A q \in DocRows \ {r} : doc'[q] = doc[q]
    BY <1>0, <2>8
  <2>10. ASSUME NEW q \in DocRows PROVE CountMoves(q, {})
    <3>1. CASE q = r
      BY <2>7, <2>9, <3>1, DocumentAssumption DEF CountMoves, Ceiling
    <3>2. CASE q # r
      BY <1>0, <2>9, <3>2 DEF CountMoves
    <3> QED
      BY <3>1, <3>2
  <2> QED
    BY <1>0, <2>1, <2>3, <2>5, <2>10, CountsKept
<1> QED
  BY <1>1, <1>2 DEF DocStore

LEMMA ClaimsMined ==
    ASSUME DocInv, DocInv', ClaimsInv, NEW t \in Txs, DocMine(t)
    PROVE  ClaimsInv'
<1>0. /\ tx \in [Txs -> DocTxs] /\ RelayCounters /\ FailedSound /\ SweepFailed /\ EventsSound
      /\ tx[t] \in DocTxs /\ paper \in [Docs -> Papers]
      /\ \A r \in DocRows : doc[r].did \in Docs \cup {0} /\ doc[r].claims \in Int
      /\ \A d \in Docs : paper[d] \in Papers /\ paper[d].claims \in 0 .. ClaimCap
      /\ \A s \in Txs : tx[s].id \in Docs \cup {0} /\ tx[s].by \in Int
  <2>1. \A d \in Docs : paper[d] \in Papers
    BY DocShape DEF DocInv
  <2>2. \A d \in Docs : paper[d].claims \in 0 .. ClaimCap
    BY <2>1 DEF Papers
  <2>3. /\ tx \in [Txs -> DocTxs] /\ RelayCounters /\ tx[t] \in DocTxs
        /\ paper \in [Docs -> Papers]
        /\ \A r \in DocRows : doc[r].did \in Docs \cup {0} /\ doc[r].claims \in Int
        /\ \A s \in Txs : tx[s].id \in Docs \cup {0} /\ tx[s].by \in 0 .. ClaimCap
    BY DocShape DEF DocInv
  <2>4. \A s \in Txs : tx[s].by \in Int
    BY <2>3
  <2> QED
    BY <2>1, <2>2, <2>3, <2>4 DEF DocInv, ClaimsInv
<1>1. CASE DocTxReverts(t)
  <2>1. TxReverts(t) /\ doc' = doc /\ paper' = paper /\ scrapped' = scrapped
    BY <1>1 DEF DocTxReverts, docRest
  <2> QED
    BY <2>1, DocStay, CountsAlone
<1>2. ASSUME FailedStay({}), doc' = doc, scrapped' = scrapped,
             \A s \in Txs \ {t} : tx'[s] = tx[s],
             tx'[t].op # "fileClaim" \/ tx'[t].by <= paper'[tx'[t].id].claims,
             \A d \in Docs : paper'[d].claims >= paper[d].claims /\ paper'[d].claims \in Int
      PROVE  ClaimsInv'
  <2>1. ASSUME NEW s \in Txs \ {t}, tx[s].op = "fileClaim", tx[s].chain = "mined"
        PROVE  tx[s].by <= paper'[tx[s].id].claims
    <3>1. LaterSound(s)
      BY <2>1 DEF DocInv, DocLinks, DocTxSound
    <3>2. tx[s].id \in Docs /\ tx[s].by \in Int /\ tx[s].by <= paper[tx[s].id].claims
      BY <1>0, <2>1, <3>1 DEF LaterSound, ClaimsInv, TotalsSound
    <3> QED
      BY <1>0, <1>2, <3>2
  <2>2. TotalsSound'
    BY <1>2, <2>1 DEF TotalsSound
  <2>3. ASSUME NEW r \in DocRows PROVE CountMoves(r, {})
    BY <1>0, <1>2 DEF CountMoves
  <2> QED
    BY <1>2, <2>2, <2>3, CountsKept
<1>3. ASSUME NEW d \in Docs, tx[t].chain = "pool", Mined(t, d)
      PROVE  FailedStay({}) /\ tx'[t].op = tx[t].op /\ \A s \in Txs \ {t} : tx'[s] = tx[s]
  <2>1. d \in DocIds
    BY DEF DocIds
  <2> QED
    BY <1>0, <1>3, <2>1, StepsStay, MinedStep DEF DocTxs
<1>4. CASE MineExpire(t)
  <2>1. /\ tx[t].op \in DOMAIN Expires /\ tx[t].chain = "pool" /\ Mined(t, tx[t].id)
        /\ paper' = [paper EXCEPT ![tx[t].id].valid = FALSE] /\ doc' = doc /\ scrapped' = scrapped
    BY <1>4 DEF MineExpire
  <2>2. LaterSound(t)
    BY <2>1 DEF DocInv, DocLinks, DocTxSound
  <2>3. tx[t].id \in Docs
    BY <1>0, <2>2 DEF LaterSound
  <2>4. ASSUME NEW d \in Docs PROVE paper'[d].claims = paper[d].claims
    <3>1. paper'[d] = paper[d] \/ paper'[d] = [paper[d] EXCEPT !.valid = FALSE]
      BY <1>0, <2>1
    <3> QED
      BY <1>0, <3>1 DEF Papers
  <2>5. tx[t].op # "fileClaim"
    BY <2>1, DocOps
  <2> QED
    BY <1>0, <1>2, <1>3, <2>1, <2>3, <2>4, <2>5
<1>5. ASSUME NEW d \in Docs, MineIssueDoc(t, d) PROVE ClaimsInv'
  <2>1. /\ tx[t].op \in IssueOps /\ tx[t].chain = "pool" /\ Mined(t, d) /\ paper[d] = NoPaper
        /\ doc' = doc /\ scrapped' = scrapped
    BY <1>5, DocOps DEF MineIssueDoc, NextPaper
  <2>2. ASSUME NEW e \in Docs PROVE paper'[e].claims = paper[e].claims
    <3>1. \/ paper'[e] = [NoPaper EXCEPT !.kind = Issues[tx[t].op],
                                         !.valid = tx[t].op # "issueFailedPUC",
                                         !.passed = tx[t].op # "issueFailedPUC",
                                         !.past = tx[t].op = "issueFailedPUC"] /\ e = d
          \/ paper'[e] = [paper[e] EXCEPT !.valid = FALSE]
          \/ paper'[e] = paper[e]
      BY <1>5 DEF MineIssueDoc
    <3>2. CASE /\ e = d
               /\ paper'[e] = [NoPaper EXCEPT !.kind = Issues[tx[t].op],
                                              !.valid = tx[t].op # "issueFailedPUC",
                                              !.passed = tx[t].op # "issueFailedPUC",
                                              !.past = tx[t].op = "issueFailedPUC"]
      BY <2>1, <3>2 DEF NoPaper
    <3>3. CASE paper'[e] = [paper[e] EXCEPT !.valid = FALSE] \/ paper'[e] = paper[e]
      BY <1>0, <3>3 DEF Papers
    <3> QED
      BY <3>1, <3>2, <3>3
  <2>3. tx[t].op # "fileClaim"
    BY <2>1 DEF IssueOps
  <2> QED
    BY <1>0, <1>2, <1>3, <2>1, <2>2, <2>3
<1>6. CASE MineClaim(t)
  <2>1. /\ tx[t].op = "fileClaim" /\ tx[t].chain = "pool"
        /\ paper' = [paper EXCEPT ![tx[t].id].claims = paper[tx[t].id].claims + 1]
        /\ tx' = [tx EXCEPT ![t].chain = "mined", ![t].event = "ready",
                            ![t].by = paper'[tx[t].id].claims]
        /\ sweep' = sweep /\ doc' = doc /\ scrapped' = scrapped
    BY <1>6 DEF MineClaim, InPool
  <2>2. LaterSound(t)
    BY <2>1 DEF DocInv, DocLinks, DocTxSound
  <2>3. PICK d \in Docs : d = tx[t].id
    BY <1>0, <2>2 DEF LaterSound
  <2>4. PICK n \in Int : n = paper[d].claims + 1
    BY <1>0
  <2>5. ASSUME NEW e \in Docs
        PROVE  /\ paper'[e].claims = IF e = d THEN n ELSE paper[e].claims
               /\ paper'[e].claims >= paper[e].claims /\ paper'[e].claims \in Int
    <3>1. paper'[e] = IF e = d THEN [paper[e] EXCEPT !.claims = n] ELSE paper[e]
      BY <1>0, <2>1, <2>3, <2>4
    <3>2. paper'[e].claims = IF e = d THEN n ELSE paper[e].claims
      BY <1>0, <3>1 DEF Papers
    <3> QED
      BY <1>0, <2>4, <3>2
  <2>6. tx' = [tx EXCEPT ![t].chain = "mined", ![t].event = "ready", ![t].by = n]
    BY <2>1, <2>3, <2>5
  <2>7. /\ tx'[t].by = n /\ tx'[t].id = d /\ tx'[t].row = tx[t].row
        /\ \A s \in Txs \ {t} : tx'[s] = tx[s]
    BY <1>0, <2>3, <2>6 DEF DocTxs, TxOf
  <2>8. FailedStay({})
    <3>1. tx[t].row # "FAILED" /\ sweep \in Txs \cup {0}
      BY <1>0, <2>1 DEF FailedSound, RelayCounters
    <3> QED
      BY <1>0, <2>1, <2>7, <3>1, OneStays
  <2>9. tx'[t].by <= paper'[tx'[t].id].claims
    BY <2>5, <2>7
  <2> QED
    BY <1>2, <2>1, <2>5, <2>7, <2>8, <2>9
<1> QED
  BY <1>1, <1>4, <1>5, <1>6 DEF DocMine

LEMMA ClaimsAfterEnd ==
    ASSUME DocInv, DocInv', ClaimsInv,
           \/ \E d \in Docs : \/ HandlePolicyTerminated(d) \/ HandlePUCTerminated(d)
                              \/ LoseTermination(d) \/ DatePasses(d)
           \/ ScrapTerminates
    PROVE  ClaimsInv'
<1>0. /\ tx \in [Txs -> DocTxs] /\ RelayCounters /\ FailedSound /\ SweepFailed
      /\ doc \in [DocRows -> DocRecords] /\ paper \in [Docs -> Papers]
      /\ \A r \in DocRows : /\ doc[r] \in DocRecords /\ doc[r].did \in Docs \cup {0}
                            /\ doc[r].claims \in Int
      /\ \A d \in Docs : paper[d] \in Papers
  BY DocShape DEF DocInv, ClaimsInv
<1>1. tx' = tx /\ sweep' = sweep
  BY DEF HandlePolicyTerminated, HandlePUCTerminated, HandleTerminated, LoseTermination,
     DatePasses, ScrapTerminates, relayVars
<1>2. FailedStay({}) /\ Relayed({})
  <2>1. FailedStay({})
    BY <1>0, <1>1, RestStay DEF DocTxs
  <2> QED
    BY <1>1, <2>1 DEF Relayed, RelayedTx
<1>3. ASSUME NEW d \in Docs, LoseTermination(d) PROVE ClaimsInv'
  <2>1. paper' = paper /\ scrapped' = scrapped /\ doc' = doc
    BY <1>3 DEF LoseTermination
  <2> QED
    BY <1>2, <2>1, CountsAlone
<1>4. ASSUME NEW d \in Docs, HandleTerminated(d) PROVE ClaimsInv'
  <2>1. /\ d \in ending /\ paper' = paper /\ scrapped' = scrapped
        /\ doc' = doc \/ \E r \in DocRowOf(d) \cup ActiveRows(paper[d].kind) : doc' = TerminatedRow(r, d)
    BY <1>4 DEF HandleTerminated
  <2>2. paper[d].kind \in Kinds /\ scrapped
    BY <1>0, <2>1 DEF DocInv, PapersSound, Papers
  <2>3. ASSUME NEW r \in DocRows, doc' = TerminatedRow(r, d) PROVE ClaimsInv'
    <3>1. PICK s \in {"CANCELLED", "EXPIRED"} : s = Over[paper[d].kind]
      BY <2>2 DEF Kinds, Over
    <3>2. PICK row : row = [doc[r] EXCEPT !.status = s, !.did = d]
      OBVIOUS
    <3>3. row \in DocRecords /\ row.claims = doc[r].claims
      BY <1>0, <3>2 DEF DocRecords
    <3>4. doc' = [doc EXCEPT ![r] = row]
      BY <2>3, <3>1, <3>2 DEF TerminatedRow
    <3> QED
      BY <1>2, <2>1, <2>2, <3>3, <3>4, RowAlone, CountsAlone
  <2>4. CASE doc' = doc
    BY <1>2, <2>1, <2>4, CountsAlone
  <2> QED
    BY <2>1, <2>3, <2>4 DEF DocRowOf, ActiveRows
<1>5. ASSUME \A d \in Docs : paper'[d].claims = paper[d].claims,
             \A r \in DocRows : doc'[r].claims = doc[r].claims /\ doc'[r].did = doc[r].did,
             scrapped => scrapped'
      PROVE  ClaimsInv'
  <2>1. \A d \in Docs : paper'[d].claims \in Int /\ paper'[d].claims >= paper[d].claims
    BY <1>0, <1>5 DEF Papers
  <2>2. TotalsSound'
    BY <1>1, <2>1, TotalsKept DEF ClaimsInv
  <2>3. \A r \in DocRows : CountMoves(r, {})
    BY <1>0, <1>5 DEF CountMoves
  <2> QED
    BY <1>2, <1>5, <2>1, <2>2, <2>3, CountsKept
<1>6. ASSUME NEW d \in Docs, DatePasses(d) PROVE ClaimsInv'
  <2>1. scrapped' = scrapped
    BY <1>6 DEF DatePasses
  <2>2. ASSUME NEW e \in Docs PROVE paper'[e].claims = paper[e].claims
    <3>1. paper'[e] = [paper[e] EXCEPT !.past = TRUE] \/ paper'[e] = paper[e]
      BY <1>0, <1>6 DEF DatePasses
    <3> QED
      BY <1>0, <3>1 DEF Papers
  <2>3. ASSUME NEW r \in DocRows PROVE doc'[r].claims = doc[r].claims /\ doc'[r].did = doc[r].did
    <3>1. doc'[r] = [doc[r] EXCEPT !.past = TRUE] \/ doc'[r] = doc[r]
      BY <1>6 DEF DatePasses
    <3> QED
      BY <1>0, <3>1 DEF DocRecords
  <2> QED
    BY <1>5, <2>1, <2>2, <2>3
<1>7. CASE ScrapTerminates
  <2>1. scrapped' /\ doc' = doc
    BY <1>7 DEF ScrapTerminates
  <2>2. ASSUME NEW e \in Docs PROVE paper'[e].claims = paper[e].claims
    <3>1. paper'[e] = [paper[e] EXCEPT !.valid = FALSE] \/ paper'[e] = paper[e]
      BY <1>7 DEF ScrapTerminates
    <3> QED
      BY <1>0, <3>1 DEF Papers
  <2> QED
    BY <1>5, <2>1, <2>2
<1> QED
  BY <1>3, <1>4, <1>6, <1>7 DEF HandlePolicyTerminated, HandlePUCTerminated

LEMMA ClaimsInitially == DocInit => ClaimsInv
<1> SUFFICES ASSUME DocInit PROVE ClaimsInv
  OBVIOUS
<1>1. /\ tx = [t \in Txs |-> NoTx] /\ sweep = 0
      /\ paper = [d \in Docs |-> NoPaper] /\ doc = [r \in DocRows |-> NoDoc]
  BY DEF DocInit, RelayInit
<1>2. FailedSound /\ SweepFailed /\ TotalsSound
  BY <1>1 DEF FailedSound, SweepFailed, TotalsSound, NoTx
<1>3. ASSUME NEW r \in DocRows
      PROVE  doc[r].claims = 0 /\ doc[r].did = 0 /\ Cardinality(TakenDown(r)) \in Nat
  <2>1. TakenDown(r) \in SUBSET Txs
    BY DEF TakenDown
  <2> QED
    BY <1>1, <2>1, SomeTxs, RelayAssumption DEF NoDoc
<1>4. ClaimsCounted /\ ClaimsNotAhead
  BY <1>3, DocumentAssumption DEF ClaimsCounted, ClaimsNotAhead
<1> QED
  BY <1>2, <1>4 DEF ClaimsInv

LEMMA ClaimsInductive == DocInv /\ ClaimsInv /\ [DocNext]_docVars => ClaimsInv'
<1> SUFFICES ASSUME DocInv, ClaimsInv, [DocNext]_docVars PROVE ClaimsInv'
  OBVIOUS
<1>0. DocInv'
  BY DocInductive
<1>1. ASSUME NEW t \in Txs, RelayStep(t) /\ UNCHANGED docRest PROVE ClaimsInv'
  <2>1. doc' = doc /\ paper' = paper /\ scrapped' = scrapped
    BY <1>1 DEF docRest
  <2> QED
    BY <1>0, <1>1, <2>1, DocStay, CountsAlone
<1>2. CASE (Crash /\ UNCHANGED docRest) \/ UNCHANGED docVars
  <2>1. Crash \/ UNCHANGED relayVars
    BY <1>2 DEF docVars
  <2>2. doc' = doc /\ paper' = paper /\ scrapped' = scrapped
    BY <1>2 DEF docVars, docRest
  <2> QED
    BY <1>0, <2>1, <2>2, DocStay, CountsAlone
<1> QED
  BY <1>0, <1>1, <1>2, ClaimsRequested, ClaimsStored, ClaimsMined, ClaimsHandled,
     ClaimsReplayed, ClaimsRolledBack, ClaimsAfterEnd DEF DocNext

(* However often claims are handled, replayed and rolled back, and in        *)
(* whatever order: no policy's row counts more claims than were filed on its *)
(* document, before its vehicle is scrapped (handleClaimFiled of the indexer, *)
(* the sweep's handleRevertedRollback).                                     *)
THEOREM ClaimsNotAheadAlways == DocSpec => []ClaimsNotAhead
<1>1. DocInv /\ [DocNext]_docVars => DocInv'
  BY DocInductive
<1>2. DocInv /\ ClaimsInv /\ [DocNext]_docVars => ClaimsInv'
  BY ClaimsInductive
<1>3. ClaimsInv => ClaimsNotAhead
  BY DEF ClaimsInv
<1> QED
  BY <1>1, <1>2, <1>3, DocInitially, ClaimsInitially, PTL DEF DocSpec

(* However many claims revert, a count goes down once for each.             *)
LEMMA DocTyped == DocInv /\ ClaimsInv => DocTypeOK
<1> SUFFICES ASSUME DocInv, ClaimsInv PROVE DocTypeOK
  OBVIOUS
<1>1. ASSUME NEW r \in DocRows PROVE doc[r].claims \in 0 - MaxTxs .. ClaimCap
  <2>1. TakenDown(r) \in SUBSET Txs
    BY DEF TakenDown
  <2>2. doc[r].claims \in Int
    BY DocShape DEF DocInv
  <2>3. Cardinality(TakenDown(r)) \in 0 .. MaxTxs
    BY <2>1, SomeTxs
  <2> QED
    BY <2>2, <2>3, RelayAssumption, DocumentAssumption DEF ClaimsInv, ClaimsCounted
<1>2. doc \in [DocRows -> DocRecords]
  BY DocShape DEF DocInv
<1>3. ASSUME NEW r \in DocRows
      PROVE  doc[r] \in [kind : Kinds \cup {"none"},
                         status : {"absent", "deleted", "ACTIVE", "EXPIRED", "CANCELLED"},
                         did : Docs \cup {0}, passed : BOOLEAN, past : BOOLEAN,
                         claims : 0 - MaxTxs .. ClaimCap]
  BY <1>1, <1>2 DEF DocRecords
<1>4. doc = [r \in DocRows |-> doc[r]]
  BY <1>2
<1> QED
  BY <1>3, <1>4 DEF DocTypeOK, DocInv, DocShapes

-----------------------------------------------------------------------------
(* LOANS                                                                    *)

LenderNames == LenderOps \cup {"none"}
LoanNos == LoanIds \cup {0}
LoanBys == BankIds \cup {0}
LoanRefs == LoanRows \cup {0}
LoanTxs == TxOf(LenderNames, LoanNos, LoanBys, LoanRefs, LoanRefs)
ChainLoans == [bank : LoanBys, state : {"none", "active", "closed"}]
LoanRecords == [status : {"absent", "deleted", "PENDING", "ACTIVE", "CLEARED"}, lid : LoanNos,
                bank : LoanBys, noc : BOOLEAN]
Regs == [new : LoanNos, due : BOOLEAN]
LenderTransfer == [open : BOOLEAN, bank : LoanBys]

LEMMA LoanTyping == LenderTx = LoanTxs
BY DEF LenderTx, LoanTxs, TxOf, LenderNames, LoanNos, LoanBys, LoanRefs

LEMMA LoanShape ==
    LenderTypeOK <=> /\ tx \in [Txs -> LoanTxs] /\ RelayCounters
                     /\ loan \in [LoanIds -> ChainLoans] /\ xfer \in LenderTransfer
                     /\ record \in [LoanRows -> LoanRecords] /\ reg \in [Txs -> Regs]
BY LoanTyping
DEF LenderTypeOK, RelayCounters, ChainLoans, LenderTransfer, LoanRecords, Regs, LoanNos, LoanBys

LEMMA LoanParts ==
    ASSUME LenderTypeOK
    PROVE  /\ \A t \in Txs : /\ tx[t] \in LoanTxs /\ tx[t].op \in LenderNames
                             /\ tx[t].id \in LoanNos /\ tx[t].by \in LoanBys
                             /\ tx[t].link \in LoanRefs /\ tx[t].seen \in LoanRefs
                             /\ reg[t] \in Regs /\ reg[t].new \in LoanNos
           /\ \A l \in LoanIds : loan[l] \in ChainLoans /\ loan[l].bank \in LoanBys
           /\ \A r \in LoanRows : /\ record[r] \in LoanRecords /\ record[r].lid \in LoanNos
                                  /\ record[r].bank \in LoanBys
           /\ 0 \notin LoanIds /\ 0 \notin LoanRows
           /\ \A l \in LoanNos : l # 0 => l \in LoanIds
           /\ \A r \in LoanRefs : r # 0 => r \in LoanRows
<1>1. \A t \in Txs : tx[t] \in LoanTxs /\ reg[t] \in Regs
  BY LoanShape
<1>2. \A t \in Txs : /\ tx[t].op \in LenderNames /\ tx[t].id \in LoanNos /\ tx[t].by \in LoanBys
                     /\ tx[t].link \in LoanRefs /\ tx[t].seen \in LoanRefs
  BY <1>1 DEF LoanTxs, TxOf
<1>3. \A t \in Txs : reg[t].new \in LoanNos
  BY <1>1 DEF Regs
<1>4. \A l \in LoanIds : loan[l] \in ChainLoans
  BY LoanShape
<1>5. \A l \in LoanIds : loan[l].bank \in LoanBys
  BY <1>4 DEF ChainLoans
<1>6. \A r \in LoanRows : record[r] \in LoanRecords
  BY LoanShape
<1>7. \A r \in LoanRows : record[r].lid \in LoanNos /\ record[r].bank \in LoanBys
  BY <1>6 DEF LoanRecords
<1>8. /\ 0 \notin LoanIds /\ 0 \notin LoanRows
      /\ \A l \in LoanNos : l # 0 => l \in LoanIds
      /\ \A r \in LoanRefs : r # 0 => r \in LoanRows
  BY DEF LoanIds, LoanRows, LoanNos, LoanRefs
<1> QED
  BY <1>1, <1>2, <1>3, <1>4, <1>5, <1>6, <1>7, <1>8

(* Loans are made and closed, never unmade or opened again.                 *)
LoanOnward ==
    \A l \in LoanIds : /\ loan[l].state # "none" => loan'[l].state # "none"
                       /\ loan[l].state = "closed" => loan'[l].state = "closed"

MadeNext(l) == l # 0 /\ loan'[l].state # "none"
ClosedNext(l) == l # 0 /\ loan'[l].state = "closed"
StandingNext(r) == record'[r].status \notin {"absent", "deleted"}

LEMMA MadeOnward ==
    ASSUME LoanOnward, NEW l \in LoanNos
    PROVE  (Made(l) => MadeNext(l)) /\ (Closed(l) => ClosedNext(l))
BY DEF LoanOnward, Made, MadeNext, Closed, ClosedNext, LoanNos

(* What a step may do to a row: delete it, or give it the id of the         *)
(* transaction that registers it; it is shown cleared when its loan is      *)
(* closed, and active when that was made.                                   *)
RecordKept(r, gone) ==
    \/ r \in gone /\ record'[r].status = "deleted" /\ record'[r].lid = 0 /\ ~record'[r].noc
    \/ /\ r \notin gone
       /\ Standing(r) => StandingNext(r)
       /\ record[r].status = "deleted" => record'[r].status = "deleted"
       /\ \/ record'[r].lid = record[r].lid
          \/ /\ record[r].lid = 0 /\ MadeNext(record'[r].lid)
             /\ \A s \in Txs : tx[s].op = "registerLoan" /\ tx[s].link = r =>
                                 tx[s].id = record'[r].lid
       /\ record'[r].lid # 0 => StandingNext(r)
       /\ record'[r].status = "CLEARED" \/ record'[r].noc => ClosedNext(record'[r].lid)
       /\ record'[r].status = "ACTIVE" => MadeNext(record'[r].lid)

LEMMA RecordUntouched ==
    ASSUME LoanInv, LoanOnward, NEW r \in LoanRows, NEW gone, r \notin gone,
           record'[r] = record[r]
    PROVE  RecordKept(r, gone)
<1>1. record[r].lid \in LoanNos
  BY LoanParts DEF LoanInv
<1>2. /\ Made(record[r].lid) => MadeNext(record[r].lid)
      /\ Closed(record[r].lid) => ClosedNext(record[r].lid)
  BY <1>1, MadeOnward
<1>3. /\ record[r].status = "CLEARED" \/ record[r].noc => Closed(record[r].lid)
      /\ record[r].status = "ACTIVE" => Made(record[r].lid)
      /\ record[r].lid # 0 => Standing(r)
  BY DEF LoanInv, LoansMatchChain, LoanLinks, Made, MadeNext, Closed, ClosedNext
<1>4. (Standing(r) <=> StandingNext(r)) /\ record'[r].lid = record[r].lid
  BY DEF Standing, StandingNext
<1>5. record'[r].status = "CLEARED" \/ record'[r].noc => ClosedNext(record'[r].lid)
  BY <1>2, <1>3 DEF Closed, ClosedNext
<1>6. record'[r].status = "ACTIVE" => MadeNext(record'[r].lid)
  BY <1>2, <1>3 DEF Made, MadeNext
<1> QED
  BY <1>3, <1>4, <1>5, <1>6 DEF RecordKept

LEMMA LoanTxKept ==
    ASSUME LoanInv, LoanOnward, NEW gone, \A r \in LoanRows : RecordKept(r, gone),
           NEW s \in Txs, RelayedTx(s, gone), LenderTypeOK',
           reg'[s].new = reg[s].new, reg'[s].due => reg[s].due,
           tx'[s].event = "read" => tx[s].event = "read" \/ tx[s].id # 0,
           \A q \in Txs \ {s} :
             tx[s].op = "registerLoan" /\ tx'[q].op = "registerLoan" /\ tx[s].link # 0 =>
               tx'[q].link # tx[s].link
    PROVE  LoanTxSound(s)'
<1>1. /\ tx[s].id \in LoanNos /\ reg[s].new \in LoanNos
      /\ tx[s].link # 0 => tx[s].link \in LoanRows
      /\ tx[s].seen # 0 => tx[s].seen \in LoanRows
      /\ LoanTxSound(s) /\ (tx[s].event # "none" => tx[s].chain = "mined")
      /\ \A r \in LoanRows : record[r].lid \in LoanNos
  BY LoanParts DEF LoanInv, LoanLinks, EventsSound
<1>2. /\ tx'[s].op = tx[s].op /\ tx'[s].id = tx[s].id
      /\ tx'[s].link # 0 => tx'[s].link = tx[s].link /\ tx[s].link \notin gone
      /\ tx'[s].chain = "mined" <=> tx[s].chain = "mined"
  BY DEF RelayedTx
<1>3. tx'[s].link # 0 => /\ tx[s].link \in LoanRows /\ Standing(tx[s].link)
                         /\ RecordKept(tx[s].link, gone)
  BY <1>1, <1>2 DEF LoanTxSound
<1>4. tx'[s].link # 0 => StandingNext(tx'[s].link)
  <2>1. SUFFICES ASSUME tx'[s].link # 0 PROVE StandingNext(tx'[s].link)
    OBVIOUS
  <2>2. StandingNext(tx[s].link)
    BY <1>2, <1>3, <2>1 DEF RecordKept
  <2> QED
    BY <1>2, <2>1, <2>2 DEF Standing, StandingNext
<1>5. tx'[s].id # 0 => MadeNext(tx'[s].id)
  BY <1>1, <1>2, MadeOnward DEF LoanTxSound, Made, MadeNext
<1>6. reg'[s].due => MadeNext(reg'[s].new)
  BY <1>1, MadeOnward DEF LoanTxSound, Made, MadeNext
<1>7. ASSUME tx[s].op = "registerLoan" PROVE RegSound(s)'
  <2>1. RegSound(s)
    BY <1>1, <1>7 DEF LoanTxSound
  <2>2. /\ tx'[s].id # 0 => tx'[s].chain = "mined"
        /\ tx'[s].event = "read" => tx'[s].id # 0
        /\ tx'[s].chain # "mined" => tx'[s].seen = 0
    BY <1>1, <1>2, <2>1 DEF RegSound, RelayedTx
  <2>3. tx'[s].row = "absent" => tx'[s].link = 0
    BY <2>1 DEF RegSound, RelayedTx
  <2>4. tx'[s].seen # 0 => tx'[s].seen = tx'[s].link \/ record'[tx'[s].seen].status = "deleted"
    <3>1. SUFFICES ASSUME tx'[s].seen # 0, tx'[s].seen # tx'[s].link
                   PROVE  record'[tx'[s].seen].status = "deleted"
      OBVIOUS
    <3>2. CASE tx'[s].seen = tx[s].link
      <4>1. tx[s].link \in gone /\ tx[s].link \in LoanRows
        BY <1>1, <2>1, <3>1, <3>2 DEF RelayedTx, RegSound
      <4> QED
        BY <3>2, <4>1 DEF RecordKept
    <3>3. CASE tx'[s].seen # tx[s].link
      <4>1. tx'[s].seen = tx[s].seen
        BY <3>3 DEF RelayedTx
      <4>2. record[tx[s].seen].status = "deleted" /\ tx[s].seen \in LoanRows
        BY <1>1, <2>1, <3>1, <3>3, <4>1 DEF RegSound
      <4> QED
        BY <4>1, <4>2 DEF RecordKept
    <3> QED
      BY <3>2, <3>3
  <2>5. tx'[s].link # 0 => record'[tx'[s].link].lid \in {0, tx'[s].id}
    <3>1. SUFFICES ASSUME tx'[s].link # 0 PROVE record'[tx[s].link].lid \in {0, tx[s].id}
      BY <1>2
    <3>2. record[tx[s].link].lid \in {0, tx[s].id}
      BY <1>2, <2>1, <3>1 DEF RegSound
    <3> QED
      BY <1>2, <1>3, <1>7, <3>1, <3>2 DEF RecordKept
  <2>6. ASSUME tx'[s].link # 0, NEW q \in Txs \ {s}, tx'[q].op = "registerLoan"
        PROVE  tx'[q].link # tx'[s].link
    BY <1>2, <1>7, <2>6
  <2> QED
    BY <2>2, <2>3, <2>4, <2>5, <2>6 DEF RegSound
<1>8. ASSUME tx[s].op \in {"issueNOC", "refinanceLoan"} PROVE ClearSound(s)'
  <2>1. ClearSound(s)
    BY <1>1, <1>8 DEF LoanTxSound
  <2>2. /\ tx'[s].id # 0 => ClosedNext(tx'[s].id)
        /\ tx'[s].chain = "mined" => tx'[s].id # 0
    BY <1>1, <1>2, <2>1, MadeOnward DEF ClearSound, Closed, ClosedNext
  <2>3. ASSUME tx'[s].link # 0
        PROVE  /\ record'[tx[s].link].lid = record[tx[s].link].lid
               /\ Made(record[tx[s].link].lid)
               /\ record[tx[s].link].lid \in LoanNos
    BY <1>1, <1>2, <1>3, <2>1, <2>3 DEF RecordKept, ClearSound, Made, MadeNext
  <2>4. ASSUME tx'[s].link # 0
        PROVE  /\ MadeNext(record'[tx'[s].link].lid)
               /\ tx'[s].chain = "mined" => ClosedNext(record'[tx'[s].link].lid)
    BY <1>2, <2>1, <2>3, <2>4, MadeOnward DEF ClearSound, Made, MadeNext, Closed, ClosedNext
  <2>5. tx'[s].op = "refinanceLoan" /\ tx'[s].chain = "mined" =>
          /\ MadeNext(reg'[s].new)
          /\ tx'[s].link # 0 => record'[tx'[s].link].lid # reg'[s].new
    BY <1>1, <1>2, <2>1, <2>3, MadeOnward DEF ClearSound, Made, MadeNext
  <2> QED
    BY <2>2, <2>4, <2>5 DEF ClearSound, Made, MadeNext, Closed, ClosedNext
<1> QED
  BY <1>1, <1>2, <1>4, <1>5, <1>6, <1>7, <1>8
  DEF LoanTxSound, Made, MadeNext, Standing, StandingNext

(* The invariant from its parts                                             *)
LEMMA LoanKept ==
    ASSUME LoanInv, LenderTypeOK', EventsSound', OneLien', LoanOnward, NEW gone,
           \A r \in LoanRows : RecordKept(r, gone), \A s \in Txs : LoanTxSound(s)'
    PROVE  LoanInv'
<1>1. ASSUME NEW r \in LoanRows, record'[r].lid # 0
      PROVE  MadeNext(record'[r].lid) /\ StandingNext(r)
  <2>1. RecordKept(r, gone) /\ record[r].lid \in LoanNos
    BY LoanParts DEF LoanInv
  <2>2. Made(record[r].lid) => MadeNext(record[r].lid)
    BY <2>1, MadeOnward
  <2>3. record[r].lid # 0 => Made(record[r].lid)
    BY DEF LoanInv, LoanLinks
  <2> QED
    BY <1>1, <2>1, <2>2, <2>3 DEF RecordKept, Made, MadeNext
<1>2. LoanLinks'
  BY <1>1 DEF LoanLinks, Made, MadeNext, Standing, StandingNext
<1>3. ASSUME NEW r \in LoanRows
      PROVE  /\ record'[r].status = "CLEARED" \/ record'[r].noc =>
                  record'[r].lid # 0 /\ loan'[record'[r].lid].state = "closed"
             /\ record'[r].status = "ACTIVE" =>
                  record'[r].lid # 0 /\ loan'[record'[r].lid].state # "none"
  <2>1. RecordKept(r, gone)
    OBVIOUS
  <2> QED
    BY <2>1 DEF RecordKept, Made, MadeNext, Closed, ClosedNext
<1>4. LoansMatchChain'
  BY <1>3 DEF LoansMatchChain
<1> QED
  BY <1>2, <1>4 DEF LoanInv

(* Steps that submit, mine and link no transaction: what they make of those, *)
(* when the rows in gone are deleted ...                                    *)
LoanTxsKept(gone) ==
    /\ Relayed(gone) /\ tx' \in [Txs -> LoanTxs] /\ RelayCounters'
    /\ \A s \in Txs : tx'[s].event = "read" => tx[s].event = "read" \/ tx[s].id # 0

(* ... and what they leave alone.                                           *)
LenderSteady ==
    /\ loan' = loan /\ xfer' \in LenderTransfer /\ reg' \in [Txs -> Regs]
    /\ \A s \in Txs : reg'[s].new = reg[s].new /\ (reg'[s].due => reg[s].due)

LEMMA LoanSteady ==
    ASSUME LoanInv, NEW gone, LoanTxsKept(gone), LenderSteady,
           record' \in [LoanRows -> LoanRecords], \A r \in LoanRows : RecordKept(r, gone)
    PROVE  LoanInv'
<1>1. LenderTypeOK'
  <2>1. /\ tx' \in [Txs -> LoanTxs] /\ RelayCounters'
        /\ loan' \in [LoanIds -> ChainLoans] /\ xfer' \in LenderTransfer
        /\ record' \in [LoanRows -> LoanRecords] /\ reg' \in [Txs -> Regs]
    BY LoanShape DEF LoanInv, LoanTxsKept, LenderSteady
  <2> QED
    BY <2>1, LoanTyping
    DEF LenderTypeOK, RelayCounters, ChainLoans, LenderTransfer, LoanRecords, Regs, LoanNos, LoanBys
<1>2. EventsSound'
  BY RelayedSound DEF LoanInv, LoanTxsKept
<1>3. OneLien' /\ LoanOnward
  BY DEF LoanInv, OneLien, LoanOnward, LenderSteady
<1>4. ASSUME NEW s \in Txs PROVE LoanTxSound(s)'
  <2>1. \A q \in Txs : RelayedTx(q, gone)
    BY DEF LoanTxsKept, Relayed
  <2>2. ASSUME NEW q \in Txs \ {s}, tx[s].op = "registerLoan", tx'[q].op = "registerLoan",
               tx[s].link # 0
        PROVE  tx'[q].link # tx[s].link
    <3>1. tx[q].op = "registerLoan" /\ tx'[q].link \in {0, tx[q].link}
      BY <2>1, <2>2 DEF RelayedTx
    <3>2. RegSound(s)
      BY <2>2 DEF LoanInv, LoanLinks, LoanTxSound
    <3> QED
      BY <2>2, <3>1, <3>2 DEF RegSound
  <2> QED
    BY <1>1, <1>3, <2>1, <2>2, LoanTxKept DEF LoanTxsKept, LenderSteady
<1> QED
  BY <1>1, <1>2, <1>3, <1>4, LoanKept

LEMMA LoanRelay ==
    ASSUME LoanInv,
           \/ \E t \in Txs :
                \/ tx[t].event # "none" /\ (AppliedBy(t) \/ Swallowed(t))
                \/ tx[t].event # "none" /\ tx[t].id # 0 /\ ReadBy(t)
                \/ Replayed(t) \/ StoreTx(t, tx[t].link) \/ TxReverts(t) \/ RelayStep(t)
           \/ RolledBack \/ UNCHANGED relayVars \/ Crash
    PROVE  LoanTxsKept({})
<1>1. tx \in [Txs -> LoanTxs] /\ RelayCounters
  BY LoanShape DEF LoanInv
<1>2. 0 \in LoanRefs /\ LoanRefs \subseteq LoanRefs
  BY DEF LoanRefs
<1>3. Relayed({}) /\ tx' \in [Txs -> LoanTxs] /\ RelayCounters'
  BY <1>1, <1>2, RelaySteps, NoTxStep, CrashStep DEF LoanTxs
<1>4. CASE \E t \in Txs : tx[t].id # 0 /\ ReadBy(t)
  <2>1. PICK t \in Txs : tx[t].id # 0 /\ ReadBy(t)
    BY <1>4
  <2>2. \A s \in Txs \ {t} : tx'[s] = tx[s]
    BY <1>1, <2>1 DEF ReadBy
  <2> QED
    BY <1>3, <2>1, <2>2 DEF LoanTxsKept
<1>5. CASE ~\E t \in Txs : tx[t].id # 0 /\ ReadBy(t)
  <2>1. \A s \in Txs : tx'[s].event = "read" => tx[s].event = "read"
    BY <1>1, <1>5, NoRead DEF LoanTxs
  <2> QED
    BY <1>3, <2>1 DEF LoanTxsKept
<1> QED
  BY <1>4, <1>5

LEMMA LoanUntouched ==
    ASSUME LoanInv, LoanTxsKept({}), LenderSteady, record' = record
    PROVE  LoanInv'
<1>1. LoanOnward
  BY DEF LoanOnward, LenderSteady
<1>2. \A r \in LoanRows : RecordKept(r, {})
  BY <1>1, RecordUntouched
<1> QED
  BY <1>2, LoanSteady, LoanShape DEF LoanInv

(* One row is written.                                                      *)
LEMMA LoanWritten ==
    ASSUME LoanInv, LoanTxsKept({}), LenderSteady, NEW q \in LoanRows, NEW row \in LoanRecords,
           record' = [record EXCEPT ![q] = row], RecordKept(q, {})
    PROVE  LoanInv'
<1>1. record \in [LoanRows -> LoanRecords]
  BY LoanShape DEF LoanInv
<1>2. /\ record' \in [LoanRows -> LoanRecords]
      /\ \A r \in LoanRows \ {q} : record'[r] = record[r]
  BY <1>1
<1>3. LoanOnward
  BY DEF LoanOnward, LenderSteady
<1>4. ASSUME NEW r \in LoanRows PROVE RecordKept(r, {})
  <2>1. CASE r # q
    BY <1>2, <1>3, <2>1, RecordUntouched
  <2> QED
    BY <2>1
<1> QED
  BY <1>2, <1>4, LoanSteady

(* Rows are deleted, with the links to them.                                *)
LEMMA LoanDeleted ==
    ASSUME LoanInv, NEW gone, LoanTxsKept(gone), LenderSteady, record' = Deleted(gone)
    PROVE  LoanInv'
<1>0. record \in [LoanRows -> LoanRecords] /\ \A r \in LoanRows : record[r] \in LoanRecords
  BY LoanShape DEF LoanInv
<1>1. PICK row : row = [NoRecord EXCEPT !.status = "deleted"]
  OBVIOUS
<1>2. row = [status |-> "deleted", lid |-> 0, bank |-> 0, noc |-> FALSE]
  BY <1>1 DEF NoRecord
<1>3. row \in LoanRecords /\ row.status = "deleted" /\ row.lid = 0
  BY <1>2 DEF LoanRecords, LoanNos, LoanBys
<1>4. ~row.noc
  BY <1>2
<1>5. LoanOnward
  BY DEF LoanOnward, LenderSteady
<1>6. ASSUME NEW r \in LoanRows PROVE record'[r] = IF r \in gone THEN row ELSE record[r]
  BY <1>1 DEF Deleted
<1>7. record' = [r \in LoanRows |-> record'[r]]
  BY DEF Deleted
<1>8. record' \in [LoanRows -> LoanRecords]
  BY <1>0, <1>3, <1>6, <1>7
<1>9. ASSUME NEW r \in LoanRows PROVE RecordKept(r, gone)
  <2>1. CASE r \in gone
    <3>1. record'[r] = row
      BY <1>6, <2>1
    <3> QED
      BY <1>3, <1>4, <2>1, <3>1 DEF RecordKept
  <2>2. CASE r \notin gone
    BY <1>5, <1>6, <2>2, RecordUntouched
  <2> QED
    BY <2>1, <2>2
<1> QED
  BY <1>8, <1>9, LoanSteady

(* The row of a loan, or a new one, shows it active.                        *)
LEMMA UpsertedRow ==
    ASSUME LoanInv, LenderSteady, NEW l \in LoanNos, Made(l), NEW r \in LoanRows,
           IF RecordOf(l) # {} THEN r \in RecordOf(l) ELSE NextRecord(r),
           record'[r] = [status |-> "ACTIVE", lid |-> l, bank |-> loan[l].bank,
                         noc |-> record[r].noc]
    PROVE  record'[r] \in LoanRecords /\ RecordKept(r, {})
<1>2. /\ record \in [LoanRows -> LoanRecords] /\ record[r] \in LoanRecords
      /\ l \in LoanIds /\ l # 0 /\ loan[l].bank \in LoanBys
  BY LoanShape, LoanParts DEF LoanInv, Made
<1>3. PICK bank \in LoanBys, noc \in BOOLEAN : bank = loan[l].bank /\ noc = record[r].noc
  BY <1>2 DEF LoanRecords
<1>4. PICK row : row = [record[r] EXCEPT !.status = "ACTIVE", !.lid = l, !.bank = bank]
  OBVIOUS
<1>5. row \in LoanRecords /\ row.status = "ACTIVE" /\ row.lid = l /\ row.noc = record[r].noc
  BY <1>2, <1>3, <1>4 DEF LoanRecords
<1>6. row = [status |-> "ACTIVE", lid |-> l, bank |-> bank, noc |-> record[r].noc]
  BY <1>2, <1>4 DEF LoanRecords
<1>8. record'[r] = row
  BY <1>3, <1>6
<1>9. record[r].lid = l \/ record[r] = NoRecord
  BY DEF RecordOf, NextRecord
<1>10. ASSUME record[r] = NoRecord
       PROVE  /\ record[r].lid = 0 /\ record[r].status = "absent" /\ ~Standing(r)
  BY <1>10 DEF NoRecord, Standing
<1>11. ASSUME record[r] = NoRecord PROVE ~record[r].noc
  BY <1>11 DEF NoRecord
<1>12. MadeNext(l)
  BY DEF Made, MadeNext, LenderSteady
<1>13. row.noc => ClosedNext(l)
  <2>1. record[r].noc => record[r].lid # 0 /\ loan[record[r].lid].state = "closed"
    BY DEF LoanInv, LoansMatchChain
  <2> QED
    BY <1>2, <1>5, <1>9, <1>11, <2>1 DEF ClosedNext, LenderSteady
<1>14. ASSUME record[r] = NoRecord, NEW s \in Txs, tx[s].link = r PROVE FALSE
  <2>1. LoanTxSound(s) /\ r # 0
    BY LoanParts DEF LoanInv, LoanLinks
  <2> QED
    BY <1>10, <1>14, <2>1 DEF LoanTxSound
<1>15. Standing(r) \/ record[r].status = "absent"
  <2>1. record[r].lid # 0 => Standing(r)
    BY DEF LoanInv, LoanLinks
  <2> QED
    BY <1>2, <1>9, <1>10, <2>1
<1>16. StandingNext(r) /\ record[r].status # "deleted"
  BY <1>5, <1>8, <1>15 DEF StandingNext, Standing
<1>17. RecordKept(r, {})
  BY <1>5, <1>8, <1>9, <1>10, <1>12, <1>13, <1>14, <1>16 DEF RecordKept
<1> QED
  BY <1>5, <1>8, <1>17

LEMMA LoanUpserted ==
    ASSUME LoanInv, LoanTxsKept({}), LenderSteady, NEW l \in LoanNos, Made(l), UpsertLoan(l)
    PROVE  LoanInv'
<1>1. PICK r \in LoanRows : \E row :
        /\ IF RecordOf(l) # {} THEN r \in RecordOf(l) ELSE NextRecord(r)
        /\ row = [status |-> "ACTIVE", lid |-> l, bank |-> loan[l].bank, noc |-> record[r].noc]
        /\ record' = [record EXCEPT ![r] = row]
  BY DEF UpsertLoan
<1>2. PICK row :
        /\ row = [status |-> "ACTIVE", lid |-> l, bank |-> loan[l].bank, noc |-> record[r].noc]
        /\ record' = [record EXCEPT ![r] = row]
  BY <1>1
<1>3. record'[r] = row
  BY <1>2, LoanShape DEF LoanInv
<1>4. row \in LoanRecords /\ RecordKept(r, {})
  BY <1>1, <1>2, <1>3, UpsertedRow
<1> QED
  BY <1>2, <1>4, LoanWritten

(* The row linked to a transaction takes the id of the loan it registers.   *)
LEMMA LoanIdentified ==
    ASSUME LoanInv, LoanTxsKept({}), LenderSteady, NEW t \in Txs, tx[t].op = "registerLoan",
           tx[t].id # 0, tx[t].link \in LoanRows,
           record' = [record EXCEPT ![tx[t].link].status = "ACTIVE", ![tx[t].link].lid = tx[t].id]
    PROVE  LoanInv'
<1>1. PICK r \in LoanRows, l \in LoanNos : r = tx[t].link /\ l = tx[t].id
  BY LoanParts DEF LoanInv
<1>2. /\ record \in [LoanRows -> LoanRecords] /\ record[r] \in LoanRecords /\ r # 0 /\ l # 0
      /\ LoanTxSound(t)
  BY <1>1, LoanShape, LoanParts DEF LoanInv, LoanLinks
<1>3. Standing(r) /\ record[r].lid \in {0, l} /\ Made(l)
  BY <1>1, <1>2 DEF LoanTxSound, RegSound
<1>4. ASSUME NEW s \in Txs, tx[s].op = "registerLoan", tx[s].link = r PROVE tx[s].id = l
  BY <1>1, <1>2, <1>4 DEF LoanTxSound, RegSound
<1>5. PICK row : row = [record[r] EXCEPT !.status = "ACTIVE", !.lid = l]
  OBVIOUS
<1>6. row \in LoanRecords /\ row.status = "ACTIVE" /\ row.lid = l /\ row.noc = record[r].noc
  BY <1>2, <1>5 DEF LoanRecords
<1>7. record' = [record EXCEPT ![r] = row]
  BY <1>1, <1>5
<1>8. record'[r] = row
  BY <1>2, <1>7
<1>9. MadeNext(l)
  BY <1>3 DEF Made, MadeNext, LenderSteady
<1>10. row.noc => ClosedNext(l)
  <2>1. record[r].noc => record[r].lid # 0 /\ loan[record[r].lid].state = "closed"
    BY DEF LoanInv, LoansMatchChain
  <2> QED
    BY <1>2, <1>3, <1>6, <2>1 DEF ClosedNext, LenderSteady
<1>11. StandingNext(r) /\ record[r].status # "deleted"
  BY <1>3, <1>6, <1>8 DEF StandingNext, Standing
<1>12. RecordKept(r, {})
  BY <1>3, <1>4, <1>6, <1>8, <1>9, <1>10, <1>11 DEF RecordKept
<1> QED
  BY <1>6, <1>7, <1>12, LoanWritten

(* The row of a closed loan shows it cleared.                               *)
LEMMA ClearedRow ==
    ASSUME LoanInv, LenderSteady, NEW r \in LoanRows, Closed(record[r].lid),
           record'[r] = [record[r] EXCEPT !.status = "CLEARED", !.noc = TRUE]
    PROVE  record'[r] \in LoanRecords /\ RecordKept(r, {})
<1>1. record[r] \in LoanRecords
  BY LoanParts DEF LoanInv
<1>2. /\ record'[r] \in LoanRecords /\ record'[r].status = "CLEARED"
      /\ record'[r].lid = record[r].lid
  BY <1>1 DEF LoanRecords
<1>3. Standing(r) /\ ClosedNext(record[r].lid)
  BY DEF LoanInv, LoanLinks, Closed, ClosedNext, LenderSteady
<1> QED
  BY <1>2, <1>3 DEF RecordKept, Standing, StandingNext

LEMMA LoanCleared ==
    ASSUME LoanInv, LoanTxsKept({}), LenderSteady, NEW rows,
           \A r \in LoanRows : r \in rows => Closed(record[r].lid),
           record' = [r \in LoanRows |->
                        IF r \in rows THEN [record[r] EXCEPT !.status = "CLEARED", !.noc = TRUE]
                        ELSE record[r]]
    PROVE  LoanInv'
<1>1. LoanOnward
  BY DEF LoanOnward, LenderSteady
<1>2. ASSUME NEW r \in LoanRows PROVE record'[r] \in LoanRecords /\ RecordKept(r, {})
  <2>1. CASE r \in rows
    <3>1. record'[r] = [record[r] EXCEPT !.status = "CLEARED", !.noc = TRUE]
      BY <2>1
    <3> QED
      BY <2>1, <3>1, ClearedRow
  <2>2. CASE r \notin rows
    <3>1. record'[r] = record[r]
      BY <2>2
    <3> QED
      BY <1>1, <3>1, RecordUntouched, LoanParts DEF LoanInv
  <2> QED
    BY <2>1, <2>2
<1>3. record' \in [LoanRows -> LoanRecords]
  BY <1>2
<1> QED
  BY <1>2, <1>3, LoanSteady

(* A step of one transaction, with or without the contracts or a row: the    *)
(* others stand as they did.                                                *)
LEMMA LoanOneTx ==
    ASSUME LoanInv, NEW t \in Txs, \A s \in Txs \ {t} : tx'[s] = tx[s],
           tx' \in [Txs -> LoanTxs], RelayCounters', loan' \in [LoanIds -> ChainLoans],
           xfer' \in LenderTransfer, record' \in [LoanRows -> LoanRecords], reg' \in [Txs -> Regs],
           \A s \in Txs \ {t} : reg'[s] = reg[s],
           tx'[t].event # "none" => tx'[t].chain = "mined",
           OneLien', LoanOnward, \A r \in LoanRows : RecordKept(r, {}), LoanTxSound(t)',
           tx'[t].op = "registerLoan" => \A s \in Txs \ {t} :
             tx[s].op = "registerLoan" /\ tx[s].link # 0 => tx[s].link # tx'[t].link
    PROVE  LoanInv'
<1>1. LenderTypeOK'
  BY LoanTyping
  DEF LenderTypeOK, RelayCounters, ChainLoans, LenderTransfer, LoanRecords, Regs, LoanNos, LoanBys
<1>2. EventsSound'
  BY DEF LoanInv, EventsSound
<1>3. ASSUME NEW s \in Txs PROVE LoanTxSound(s)'
  <2>1. CASE s = t
    BY <2>1
  <2>2. CASE s # t
    <3>1. RelayedTx(s, {}) /\ reg'[s] = reg[s] /\ tx'[s] = tx[s]
      BY <2>2 DEF RelayedTx
    <3>2. ASSUME NEW q \in Txs \ {s}, tx[s].op = "registerLoan", tx'[q].op = "registerLoan",
                 tx[s].link # 0
          PROVE  tx'[q].link # tx[s].link
      <4>1. CASE q = t
        BY <2>2, <3>2, <4>1
      <4>2. CASE q # t
        <5>1. RegSound(s) /\ tx'[q] = tx[q]
          BY <3>2, <4>2 DEF LoanInv, LoanLinks, LoanTxSound
        <5> QED
          BY <3>2, <5>1 DEF RegSound
      <4> QED
        BY <4>1, <4>2
    <3> QED
      BY <1>1, <3>1, <3>2, LoanTxKept
  <2> QED
    BY <2>1, <2>2
<1> QED
  BY <1>1, <1>2, <1>3, LoanKept

LEMMA LoanRequestStep ==
    ASSUME LoanInv, NEW t \in Txs, LenderRequest(t)
    PROVE  LoanInv'
<1>0. /\ tx \in [Txs -> LoanTxs] /\ RelayCounters /\ loan \in [LoanIds -> ChainLoans]
      /\ xfer \in LenderTransfer /\ record \in [LoanRows -> LoanRecords] /\ reg \in [Txs -> Regs]
  BY LoanShape DEF LoanInv
<1>1. loan' = loan /\ xfer' = xfer /\ record' = record /\ reg' = reg
  BY DEF LenderRequest, RegisterLoan, IssueNoc, RefinanceLoan, OnActiveLoan, CancelPendingLoan
<1>2. PICK op \in {"registerLoan", "issueNOC", "refinanceLoan", "cancelPendingLoan"},
           by \in LoanBys, link \in LoanRefs :
        /\ SubmitEntityTx(t, op, 0, by, link)
        /\ op = "registerLoan" => link = 0
        /\ link # 0 => link \in LoanRows /\ Standing(link)
        /\ op \in {"issueNOC", "refinanceLoan"} => link # 0 /\ Made(record[link].lid)
  <2>1. CASE \E b \in BankIds : RegisterLoan(t, b)
    <3>1. PICK b \in BankIds : SubmitEntityTx(t, "registerLoan", 0, b, 0)
      BY <2>1 DEF RegisterLoan
    <3>2. b \in LoanBys /\ 0 \in LoanRefs
      BY DEF LoanBys, LoanRefs
    <3> QED
      BY <3>1, <3>2
  <2>2. ASSUME NEW r \in LoanRows, NEW op \in {"issueNOC", "refinanceLoan"}, OnActiveLoan(t, r, op)
        PROVE  /\ SubmitEntityTx(t, op, 0, record[r].bank, r) /\ r # 0 /\ r \in LoanRefs
               /\ record[r].bank \in LoanBys /\ Standing(r) /\ Made(record[r].lid)
    <3>1. SubmitEntityTx(t, op, 0, record[r].bank, r) /\ record[r].status = "ACTIVE"
      BY <2>2 DEF OnActiveLoan
    <3>2. r # 0 /\ r \in LoanRefs /\ record[r].bank \in LoanBys
      BY LoanParts DEF LoanRefs, LoanInv
    <3>3. Standing(r) /\ Made(record[r].lid)
      BY <3>1 DEF Standing, Made, LoanInv, LoansMatchChain
    <3> QED
      BY <3>1, <3>2, <3>3
  <2>3. ASSUME NEW r \in LoanRows, CancelPendingLoan(t, r)
        PROVE  /\ SubmitEntityTx(t, "cancelPendingLoan", 0, record[r].bank, r)
               /\ r \in LoanRefs /\ record[r].bank \in LoanBys /\ Standing(r)
    BY <2>3, LoanParts DEF CancelPendingLoan, Standing, LoanInv, LoanRefs
  <2>4. CASE \E r \in LoanRows : IssueNoc(t, r) \/ RefinanceLoan(t, r)
    BY <2>2, <2>4 DEF IssueNoc, RefinanceLoan
  <2>5. CASE \E r \in LoanRows : CancelPendingLoan(t, r)
    BY <2>3, <2>5
  <2> QED
    BY <2>1, <2>4, <2>5 DEF LenderRequest
<1>3. /\ tx[t] = NoTx
      /\ tx'[t] = [op |-> op, id |-> 0, by |-> by, link |-> link, chain |-> "pool",
                   call |-> "sent", row |-> "absent", event |-> "none", seen |-> 0]
      /\ \A s \in Txs \ {t} : tx'[s] = tx[s]
      /\ tx' \in [Txs -> LoanTxs] /\ RelayCounters' /\ sweep' = sweep
  <2>1. op \in LenderNames /\ 0 \in LoanNos /\ 0 \in LoanRefs
    BY DEF LenderNames, LenderOps, LoanNos, LoanRefs
  <2> QED
    BY <1>0, <1>2, <2>1, SubmitStep DEF LoanTxs
<1>4. /\ tx'[t].op = op /\ tx'[t].id = 0 /\ tx'[t].link = link /\ tx'[t].chain = "pool"
      /\ tx'[t].row = "absent" /\ tx'[t].event = "none" /\ tx'[t].seen = 0
  BY <1>3
<1>5. LoanTxSound(t)'
  <2>1. LoanTxSound(t)
    BY DEF LoanInv, LoanLinks
  <2>2. RegSound(t)' \/ op # "registerLoan"
    BY <1>2, <1>4 DEF RegSound
  <2>3. ClearSound(t)' \/ op \notin {"issueNOC", "refinanceLoan"}
    BY <1>1, <1>2, <1>4 DEF ClearSound, Made
  <2>4. reg'[t].due => reg'[t].new # 0 /\ loan'[reg'[t].new].state # "none"
    BY <1>1, <2>1 DEF LoanTxSound, Made
  <2> QED
    BY <1>1, <1>2, <1>4, <2>2, <2>3, <2>4 DEF LoanTxSound, Standing, Made
<1>6. OneLien' /\ LoanOnward
  BY <1>1 DEF LoanInv, OneLien, LoanOnward
<1>7. \A r \in LoanRows : RecordKept(r, {})
  BY <1>1, <1>6, RecordUntouched
<1> QED
  BY <1>0, <1>1, <1>2, <1>3, <1>4, <1>5, <1>6, <1>7, LoanOneTx

LEMMA LoanStoreStep ==
    ASSUME LoanInv, NEW t \in Txs, LenderStore(t)
    PROVE  LoanInv'
<1>0. /\ tx \in [Txs -> LoanTxs] /\ RelayCounters /\ loan \in [LoanIds -> ChainLoans]
      /\ xfer \in LenderTransfer /\ record \in [LoanRows -> LoanRecords] /\ reg \in [Txs -> Regs]
  BY LoanShape DEF LoanInv
<1>1. CASE CreatePendingNocTx(t) \/ CreateCancelPendingLoanTx(t) \/ CreateRefinanceTx(t)
  <2>1. /\ StoreTx(t, tx[t].link)
        /\ loan' = loan /\ xfer' = xfer /\ record' = record /\ reg' = reg
    BY <1>1 DEF CreatePendingNocTx, CreateCancelPendingLoanTx, CreateRefinanceTx, CreateLoanTx
  <2>2. LoanTxsKept({}) /\ LenderSteady
    BY <1>0, <2>1, LoanRelay DEF LenderSteady
  <2> QED
    BY <2>1, <2>2, LoanUntouched
<1>2. ASSUME NEW r \in LoanRows, CreatePendingLoanTx(t, r)
      PROVE  LoanInv'
  <2>1. /\ tx[t].op = "registerLoan" /\ record[r] = NoRecord /\ StoreTx(t, r)
        /\ record' = [record EXCEPT ![r] = [NoRecord EXCEPT !.status = "PENDING", !.bank = tx[t].by]]
        /\ loan' = loan /\ xfer' = xfer /\ reg' = reg
    BY <1>2 DEF CreatePendingLoanTx, NextRecord, Storing
  <2>2. r \in LoanRefs /\ r # 0 /\ tx[t].by \in LoanBys
    BY LoanParts DEF LoanInv, LoanRefs
  <2>3. /\ tx[t].row = "absent"
        /\ tx'[t].op = tx[t].op /\ tx'[t].id = tx[t].id /\ tx'[t].link = r
        /\ tx'[t].chain = tx[t].chain /\ tx'[t].row = "PENDING"
        /\ tx'[t].event = tx[t].event /\ tx'[t].seen = tx[t].seen
        /\ \A s \in Txs \ {t} : tx'[s] = tx[s]
        /\ tx' \in [Txs -> LoanTxs] /\ RelayCounters' /\ sweep' = sweep
    <3>1. StoreTx(t, r) /\ tx \in [Txs -> LoanTxs] /\ RelayCounters
      BY <1>0, <2>1
    <3> QED
      BY <2>2, <3>1, StoreStep DEF LoanTxs
  <2>4. PICK by \in LoanBys : by = tx[t].by
    BY <2>2
  <2>5. /\ NoRecord \in LoanRecords /\ NoRecord.lid = 0 /\ NoRecord.status = "absent"
    <3>1. NoRecord = [status |-> "absent", lid |-> 0, bank |-> 0, noc |-> FALSE]
      BY DEF NoRecord
    <3> QED
      BY <3>1 DEF LoanRecords, LoanNos, LoanBys
  <2>6. ~NoRecord.noc
    BY DEF NoRecord
  <2>7. PICK row : row = [NoRecord EXCEPT !.status = "PENDING", !.bank = by]
    OBVIOUS
  <2>8. row \in LoanRecords /\ row.lid = 0 /\ row.status = "PENDING" /\ row.noc = NoRecord.noc
    BY <2>5, <2>7 DEF LoanRecords
  <2>9. record' = [record EXCEPT ![r] = row]
    BY <2>1, <2>4, <2>7
  <2>10. /\ record' \in [LoanRows -> LoanRecords] /\ record'[r] = row
         /\ \A q \in LoanRows \ {r} : record'[q] = record[q]
    BY <1>0, <2>8, <2>9
  <2>11. OneLien' /\ LoanOnward
    BY <2>1 DEF LoanInv, OneLien, LoanOnward
  <2>12. ASSUME NEW q \in LoanRows PROVE RecordKept(q, {})
    <3>1. CASE q = r
      BY <2>1, <2>5, <2>6, <2>8, <2>10, <3>1 DEF RecordKept, Standing, StandingNext
    <3>2. CASE q # r
      BY <2>10, <2>11, <3>2, RecordUntouched
    <3> QED
      BY <3>1, <3>2
  <2>13. ASSUME NEW s \in Txs PROVE tx[s].link # r
    <3>1. LoanTxSound(s)
      BY DEF LoanInv, LoanLinks
    <3> QED
      BY <2>1, <2>2, <2>5, <3>1 DEF LoanTxSound, Standing
  <2>14. /\ LoanTxSound(t) /\ RegSound(t) /\ (tx[t].event # "none" => tx[t].chain = "mined")
         /\ tx[t].seen # 0 => tx[t].seen \in LoanRows
    BY <2>1, LoanParts DEF LoanInv, LoanLinks, LoanTxSound, EventsSound
  <2>15. RegSound(t)'
    <3>1. tx'[t].seen # 0 => record'[tx'[t].seen].status = "deleted"
      <4>1. SUFFICES ASSUME tx[t].seen # 0 PROVE record'[tx[t].seen].status = "deleted"
        BY <2>3
      <4>2. record[tx[t].seen].status = "deleted" /\ tx[t].seen # r
        BY <2>1, <2>3, <2>5, <2>14, <4>1 DEF RegSound
      <4> QED
        BY <2>10, <2>14, <4>1, <4>2
    <3>2. record'[tx'[t].link].lid = 0
      BY <2>3, <2>8, <2>10
    <3>3. ASSUME NEW s \in Txs \ {t} PROVE tx'[s].link # tx'[t].link
      BY <2>3, <2>13
    <3> QED
      BY <2>3, <2>14, <3>1, <3>2, <3>3 DEF RegSound
  <2>16. LoanTxSound(t)'
    <3>1. record'[tx'[t].link].status \notin {"absent", "deleted"}
      BY <2>3, <2>8, <2>10
    <3>2. /\ tx'[t].id # 0 => loan'[tx'[t].id].state # "none"
          /\ reg'[t].due => reg'[t].new # 0 /\ loan'[reg'[t].new].state # "none"
      BY <2>1, <2>3, <2>14 DEF LoanTxSound, Made
    <3> QED
      BY <2>1, <2>3, <2>15, <3>1, <3>2 DEF LoanTxSound, Standing, Made
  <2> QED
    BY <1>0, <2>1, <2>3, <2>10, <2>11, <2>12, <2>13, <2>14, <2>16, LoanOneTx
<1> QED
  BY <1>1, <1>2 DEF LenderStore

LEMMA LoanHandleStep ==
    ASSUME LoanInv, NEW t \in Txs, LenderHandle(t) \/ LoanRegOfRefinance(t)
    PROVE  LoanInv'
<1>0. /\ tx \in [Txs -> LoanTxs] /\ RelayCounters /\ xfer \in LenderTransfer /\ reg \in [Txs -> Regs]
      /\ tx[t] \in LoanTxs /\ tx[t].id \in LoanNos /\ reg[t].new \in LoanNos /\ LoanTxSound(t)
      /\ tx[t].event # "none" => tx[t].chain = "mined"
      /\ \A r \in LoanRefs : r # 0 => r \in LoanRows
      /\ tx[t].link \in LoanRefs /\ tx[t].seen \in LoanRefs /\ reg[t] \in Regs
  BY LoanShape, LoanParts DEF LoanInv, LoanLinks, EventsSound
<1>1. CASE LoanRegRead(t) \/ LoanRegFails(t) \/ HandlePendingLoanAttached(t)
  <2>1. /\ tx[t].event # "none"
        /\ AppliedBy(t) \/ Swallowed(t) \/ (tx[t].id # 0 /\ ReadBy(t))
        /\ loan' = loan /\ xfer' = xfer /\ record' = record /\ reg' = reg
    BY <1>1 DEF LoanRegRead, LoanRegFails, HandlePendingLoanAttached, Arrived, SeenBy
  <2>2. LoanTxsKept({}) /\ LenderSteady
    BY <1>0, <2>1, LoanRelay DEF LenderSteady
  <2> QED
    BY <2>1, <2>2, LoanUntouched
<1>2. CASE LoanRegWrite(t)
  <2>1. /\ tx[t].op = "registerLoan" /\ tx[t].event = "read" /\ AppliedBy(t)
        /\ loan' = loan /\ xfer' = xfer /\ reg' = reg
    BY <1>2 DEF LoanRegWrite, SeenBy
  <2>2. LoanTxsKept({}) /\ LenderSteady
    BY <1>0, <2>1, LoanRelay DEF LenderSteady
  <2>3. RegSound(t) /\ tx[t].id # 0 /\ Made(tx[t].id)
    BY <1>0, <2>1 DEF LoanTxSound, RegSound
  <2>4. CASE tx[t].seen # 0
    <3>1. Identifiable(tx[t].seen, tx[t].id) /\ record' = Activated(tx[t].seen, tx[t].id)
      BY <1>2, <2>4 DEF LoanRegWrite
    <3>2. tx[t].seen = tx[t].link /\ tx[t].link \in LoanRows
      BY <1>0, <2>3, <2>4, <3>1 DEF RegSound, Identifiable
    <3>3. record' = [record EXCEPT ![tx[t].link].status = "ACTIVE", ![tx[t].link].lid = tx[t].id]
      BY <3>1, <3>2 DEF Activated
    <3> QED
      BY <2>1, <2>2, <2>3, <3>2, <3>3, LoanIdentified
  <2>5. CASE tx[t].seen = 0
    BY <1>0, <1>2, <2>2, <2>3, <2>5, LoanUpserted DEF LoanRegWrite
  <2> QED
    BY <2>4, <2>5
<1>3. CASE LoanRegOfTransfer(t)
  <2>1. /\ tx[t].op = "approveTransfer" /\ tx[t].event = "ready"
        /\ tx' = [tx EXCEPT ![t].event = "handled"] /\ UpsertLoan(tx[t].id)
        /\ sweep' = sweep /\ crashes' = crashes /\ losses' = losses
        /\ loan' = loan /\ xfer' = xfer /\ reg' = reg
    BY <1>3 DEF LoanRegOfTransfer, Arrived
  <2>2. PICK x : x = [tx[t] EXCEPT !.event = "handled"]
    OBVIOUS
  <2>3. /\ x \in LoanTxs /\ tx' = [tx EXCEPT ![t] = x] /\ Fits(t, x)
        /\ x.event = "handled"
    BY <1>0, <2>1, <2>2 DEF LoanTxs, TxOf, Fits
  <2>4. Relayed({}) /\ tx' \in [Txs -> LoanTxs] /\ RelayCounters'
    BY <1>0, <2>1, <2>3, OneRelayed DEF RelayCounters
  <2>5. \A s \in Txs : tx'[s].event = "read" => tx[s].event = "read"
    BY <1>0, <2>3
  <2>6. LoanTxsKept({}) /\ LenderSteady
    BY <1>0, <2>1, <2>4, <2>5 DEF LoanTxsKept, LenderSteady
  <2>7. Made(tx[t].id)
    BY <1>0, <2>1 DEF LoanTxSound
  <2> QED
    BY <1>0, <2>1, <2>6, <2>7, LoanUpserted
<1>4. CASE LoanRegOfRefinance(t)
  <2>1. /\ reg[t].due /\ UpsertLoan(reg[t].new)
        /\ reg' = [reg EXCEPT ![t].due = FALSE]
        /\ tx' = IF tx[t].row = "absent" THEN [tx EXCEPT ![t].row = "MINED", ![t].link = 0] ELSE tx
        /\ sweep' = sweep /\ crashes' = crashes /\ losses' = losses /\ loan' = loan /\ xfer' = xfer
    BY <1>4 DEF LoanRegOfRefinance
  <2>2. /\ Relayed({}) /\ tx' \in [Txs -> LoanTxs]
        /\ \A s \in Txs : tx'[s].event = "read" => tx[s].event = "read"
    <3>1. CASE tx[t].row = "absent"
      <4>1. PICK x : x = [tx[t] EXCEPT !.row = "MINED", !.link = 0]
        OBVIOUS
      <4>2. 0 \in LoanRefs
        BY DEF LoanRefs
      <4>3. /\ x \in LoanTxs /\ tx' = [tx EXCEPT ![t] = x] /\ Fits(t, x) /\ x.event = tx[t].event
        BY <1>0, <2>1, <3>1, <4>1, <4>2 DEF LoanTxs, TxOf, Fits
      <4> QED
        BY <1>0, <4>3, OneRelayed
    <3>2. CASE tx[t].row # "absent"
      <4>1. tx' = tx
        BY <2>1, <3>2
      <4> QED
        BY <1>0, <4>1 DEF Relayed, RelayedTx
    <3> QED
      BY <3>1, <3>2
  <2>3. LoanTxsKept({})
    BY <1>0, <2>1, <2>2 DEF LoanTxsKept, RelayCounters
  <2>4. PICK x : x = [reg[t] EXCEPT !.due = FALSE]
    OBVIOUS
  <2>5. x \in Regs /\ x.new = reg[t].new
    BY <1>0, <2>4 DEF Regs
  <2>6. ~x.due
    BY <1>0, <2>4 DEF Regs
  <2>7. reg' = [reg EXCEPT ![t] = x]
    BY <2>1, <2>4
  <2>8. LenderSteady
    BY <1>0, <2>1, <2>5, <2>6, <2>7 DEF LenderSteady
  <2> QED
    BY <1>0, <2>1, <2>3, <2>8, LoanUpserted DEF LoanTxSound
<1>5. CASE HandleNocIssued(t) \/ HandleLoanRefinanced(t)
  <2>1. /\ tx[t].op \in {"issueNOC", "refinanceLoan"} /\ tx[t].event # "none" /\ AppliedBy(t)
        /\ record' = ClearedId(tx[t].id)
        /\ loan' = loan /\ xfer' = xfer /\ reg' = reg
    BY <1>5 DEF HandleNocIssued, HandleLoanRefinanced, HandleCleared, Arrived
  <2>2. LoanTxsKept({}) /\ LenderSteady
    BY <1>0, <2>1, LoanRelay DEF LenderSteady
  <2>3. Closed(tx[t].id)
    BY <1>0, <2>1 DEF LoanTxSound, ClearSound
  <2>4. PICK rows : rows = RecordOf(tx[t].id)
    OBVIOUS
  <2>5. record' = [r \in LoanRows |->
                     IF r \in rows THEN [record[r] EXCEPT !.status = "CLEARED", !.noc = TRUE]
                     ELSE record[r]]
    BY <2>1, <2>4 DEF ClearedId, RecordOf
  <2>6. \A r \in LoanRows : r \in rows => Closed(record[r].lid)
    BY <2>3, <2>4 DEF RecordOf
  <2> QED
    BY <2>2, <2>5, <2>6, LoanCleared
<1>6. CASE HandlePendingLoanCancelled(t)
  <2>1. PICK gone :
          /\ tx[t].event # "none" /\ record' = Deleted(gone)
          /\ tx' = [Cascaded(gone) EXCEPT ![t].event = "applied"]
    BY <1>6 DEF HandlePendingLoanCancelled, Arrived
  <2>2. /\ sweep' = sweep /\ crashes' = crashes /\ losses' = losses
        /\ loan' = loan /\ xfer' = xfer /\ reg' = reg
    BY <1>6 DEF HandlePendingLoanCancelled
  <2>3. 0 \in LoanRefs
    BY DEF LoanRefs
  <2>4. tx' \in [Txs -> LoanTxs] /\ Relayed(gone)
    BY <1>0, <2>1, <2>3, CascadeHandled DEF LoanTxs
  <2>5. ASSUME NEW s \in Txs, tx'[s].event = "read" PROVE tx[s].event = "read"
    <3>1. PICK x : x = Cascaded(gone)[s]
      OBVIOUS
    <3>2. x.event = tx[s].event /\ x \in LoanTxs
      BY <1>0, <2>3, <3>1, CascadedTx DEF LoanTxs
    <3>3. tx'[s] = x \/ tx'[s] = [x EXCEPT !.event = "applied"]
      BY <2>1, <3>1 DEF Cascaded
    <3> QED
      BY <2>5, <3>2, <3>3 DEF LoanTxs, TxOf
  <2>6. LoanTxsKept(gone) /\ LenderSteady
    BY <1>0, <2>2, <2>4, <2>5 DEF LoanTxsKept, LenderSteady, RelayCounters
  <2> QED
    BY <2>1, <2>6, LoanDeleted
<1> QED
  BY <1>1, <1>2, <1>3, <1>4, <1>5, <1>6 DEF LenderHandle

(* A replayed refinancing clears the row of the old loan and writes another  *)
(* of the new one.                                                          *)
LEMMA LoanRefinanced ==
    ASSUME LoanInv, LoanTxsKept({}), LenderSteady, NEW n \in LoanNos, Made(n), NEW r \in LoanRefs,
           r # 0 => Closed(record[r].lid) /\ record[r].lid # n, NEW q \in LoanRows,
           IF RecordOf(n) # {} THEN q \in RecordOf(n) ELSE NextRecord(q),
           record' = [Cleared(r) EXCEPT ![q] = [status |-> "ACTIVE", lid |-> n,
                                                bank |-> loan[n].bank, noc |-> Cleared(r)[q].noc]]
    PROVE  LoanInv'
<1>0. /\ record \in [LoanRows -> LoanRecords] /\ 0 \notin LoanRows
      /\ r # 0 => r \in LoanRows
  BY LoanShape, LoanParts DEF LoanInv
<1>1. q # r
  <2>1. record[q].lid = n \/ record[q] = NoRecord
    BY DEF RecordOf, NextRecord
  <2>2. NoRecord.lid = 0
    BY DEF NoRecord
  <2> QED
    BY <1>0, <2>1, <2>2 DEF Closed
<1>2. LoanOnward
  BY DEF LoanOnward, LenderSteady
<1>3. /\ Cleared(r) = [s \in LoanRows |->
             IF s = r THEN [record[s] EXCEPT !.status = "CLEARED", !.noc = TRUE] ELSE record[s]]
  BY <1>0 DEF Cleared
<1>4. Cleared(r)[q] = record[q]
  BY <1>1, <1>3
<1>5. /\ record'[q] = [status |-> "ACTIVE", lid |-> n, bank |-> loan[n].bank, noc |-> record[q].noc]
      /\ r # 0 => record'[r] = [record[r] EXCEPT !.status = "CLEARED", !.noc = TRUE]
      /\ \A s \in LoanRows \ {q, r} : record'[s] = record[s]
      /\ record' = [s \in LoanRows |-> record'[s]]
  BY <1>0, <1>1, <1>3, <1>4
<1>6. ASSUME NEW s \in LoanRows PROVE record'[s] \in LoanRecords /\ RecordKept(s, {})
  <2>1. CASE s = q
    BY <1>5, <2>1, UpsertedRow
  <2>2. CASE s = r
    BY <1>0, <1>5, <2>2, ClearedRow
  <2>3. CASE s # q /\ s # r
    <3>1. record'[s] = record[s]
      BY <1>5, <2>3
    <3> QED
      BY <1>0, <1>2, <3>1, RecordUntouched
  <2> QED
    BY <2>1, <2>2, <2>3
<1>7. record' \in [LoanRows -> LoanRecords]
  BY <1>5, <1>6
<1> QED
  BY <1>6, <1>7, LoanSteady

LEMMA LoanCascade ==
    ASSUME tx \in [Txs -> LoanTxs], NEW gone, tx' = Cascaded(gone), RelayCounters'
    PROVE  LoanTxsKept(gone)
<1>1. 0 \in LoanRefs
  BY DEF LoanRefs
<1>2. tx' \in [Txs -> LoanTxs] /\ Relayed(gone)
  BY <1>1, CascadeStep DEF LoanTxs
<1>3. \A s \in Txs : tx'[s].event = tx[s].event
  BY <1>1, CascadedTx DEF LoanTxs
<1> QED
  BY <1>2, <1>3 DEF LoanTxsKept

LEMMA LoanReplayStep ==
    ASSUME LoanInv, NEW t \in Txs, LenderReplay(t)
    PROVE  LoanInv'
<1>0. /\ tx \in [Txs -> LoanTxs] /\ RelayCounters /\ xfer \in LenderTransfer /\ reg \in [Txs -> Regs]
      /\ tx[t].id \in LoanNos /\ reg[t].new \in LoanNos /\ LoanTxSound(t)
      /\ 0 \notin LoanRows /\ (tx[t].link # 0 => tx[t].link \in LoanRows)
      /\ tx[t].link \in LoanRefs /\ record \in [LoanRows -> LoanRecords]
  BY LoanShape, LoanParts DEF LoanInv, LoanLinks
<1>1. loan' = loan /\ xfer' = xfer /\ reg' = reg /\ tx[t].chain = "mined"
  BY DEF LenderReplay, ReplayLoanReg, ReplayLoanClear, ReplayCancelPending, ReplayRefinance, FoundMined
<1>2. LenderSteady
  BY <1>0, <1>1 DEF LenderSteady
<1>3. CASE ReplayLoanReg(t)
  <2>1. Replayed(t) /\ tx[t].op = "registerLoan"
    BY <1>3 DEF ReplayLoanReg, FoundMined
  <2>2. LoanTxsKept({})
    BY <2>1, LoanRelay
  <2>3. CASE tx[t].id # 0 /\ tx[t].link # 0
    <3>1. record' = [record EXCEPT ![tx[t].link].status = "ACTIVE", ![tx[t].link].lid = tx[t].id]
      BY <1>3, <2>3 DEF ReplayLoanReg, Activated
    <3> QED
      BY <1>0, <1>2, <2>1, <2>2, <2>3, <3>1, LoanIdentified
  <2>4. CASE tx[t].id = 0 \/ tx[t].link = 0
    <3>1. record' = record
      BY <1>0, <1>3, <2>4 DEF ReplayLoanReg, Activated
    <3> QED
      BY <1>2, <2>2, <3>1, LoanUntouched
  <2> QED
    BY <2>3, <2>4
<1>4. CASE ReplayLoanClear(t)
  <2>1. Replayed(t) /\ tx[t].op = "issueNOC" /\ record' = Cleared(tx[t].link)
    BY <1>4 DEF ReplayLoanClear, FoundMined
  <2>2. LoanTxsKept({})
    BY <2>1, LoanRelay
  <2>3. PICK rows : rows = {tx[t].link}
    OBVIOUS
  <2>4. record' = [r \in LoanRows |->
                     IF r \in rows THEN [record[r] EXCEPT !.status = "CLEARED", !.noc = TRUE]
                     ELSE record[r]]
    BY <1>0, <2>1, <2>3 DEF Cleared
  <2>5. \A r \in LoanRows : r \in rows => Closed(record[r].lid)
    BY <1>0, <1>1, <2>1, <2>3 DEF LoanTxSound, ClearSound
  <2> QED
    BY <1>2, <2>2, <2>4, <2>5, LoanCleared
<1>5. CASE ReplayCancelPending(t)
  <2>1. PICK gone : record' = Deleted(gone) /\ tx' = Cascaded(gone)
    BY <1>5 DEF ReplayCancelPending
  <2>2. sweep' = sweep /\ crashes' = crashes /\ losses' = losses
    BY <1>5 DEF ReplayCancelPending
  <2>3. LoanTxsKept(gone)
    BY <1>0, <2>1, <2>2, LoanCascade DEF RelayCounters
  <2> QED
    BY <1>2, <2>1, <2>3, LoanDeleted
<1>6. CASE ReplayRefinance(t)
  <2>1. Replayed(t) /\ tx[t].op = "refinanceLoan"
    BY <1>6 DEF ReplayRefinance, FoundMined
  <2>2. LoanTxsKept({})
    BY <2>1, LoanRelay
  <2>3. PICK r \in LoanRefs, n \in LoanNos : r = tx[t].link /\ n = reg[t].new
    BY <1>0
  <2>4. PICK q \in LoanRows :
          /\ IF RecordOf(n) # {} THEN q \in RecordOf(n) ELSE NextRecord(q)
          /\ record' = [Cleared(r) EXCEPT ![q] = [status |-> "ACTIVE", lid |-> n,
                                                  bank |-> loan[n].bank, noc |-> Cleared(r)[q].noc]]
    BY <1>6, <2>3 DEF ReplayRefinance
  <2>5. Made(n) /\ (r # 0 => Closed(record[r].lid) /\ record[r].lid # n)
    BY <1>0, <1>1, <2>1, <2>3 DEF LoanTxSound, ClearSound
  <2> QED
    BY <1>2, <2>2, <2>4, <2>5, LoanRefinanced
<1> QED
  BY <1>3, <1>4, <1>5, <1>6 DEF LenderReplay

LEMMA LoanRollBackStep ==
    ASSUME LoanInv, NEW t \in Txs, LenderRollBack(t)
    PROVE  LoanInv'
<1>0. /\ tx \in [Txs -> LoanTxs] /\ RelayCounters /\ xfer \in LenderTransfer /\ reg \in [Txs -> Regs] 
      /\ LoanTxSound(t)
      /\ 0 \notin LoanRows /\ (tx[t].link # 0 => tx[t].link \in LoanRows)
      /\ record \in [LoanRows -> LoanRecords]
  BY LoanShape, LoanParts DEF LoanInv, LoanLinks
<1>1. loan' = loan /\ xfer' = xfer /\ reg' = reg
  BY DEF LenderRollBack, RollBackLoanReg, RollBackNoc, RollBackNothing
<1>2. LenderSteady
  BY <1>0, <1>1 DEF LenderSteady
<1>3. CASE RollBackLoanReg(t)
  <2>1. PICK gone : record' = Deleted(gone) /\ tx' = Cascaded(gone)
    BY <1>3 DEF RollBackLoanReg
  <2>2. sweep' = 0 /\ crashes' = crashes /\ losses' = losses
    BY <1>3 DEF RollBackLoanReg
  <2>3. LoanTxsKept(gone)
    BY <1>0, <2>1, <2>2, LoanCascade DEF RelayCounters
  <2> QED
    BY <1>2, <2>1, <2>3, LoanDeleted
<1>4. CASE RollBackNoc(t)
  <2>1. /\ RolledBack /\ tx[t].op = "issueNOC"
        /\ record' = [r \in LoanRows |->
                        IF r = tx[t].link THEN [record[r] EXCEPT !.status = "ACTIVE", !.noc = FALSE]
                        ELSE record[r]]
    BY <1>4 DEF RollBackNoc, RollingBack
  <2>2. LoanTxsKept({})
    BY <2>1, LoanRelay
  <2>3. CASE tx[t].link # 0
    <3>1. PICK r \in LoanRows : r = tx[t].link
      BY <1>0, <2>3
    <3>2. Made(record[r].lid) /\ Standing(r) /\ record[r] \in LoanRecords
      BY <1>0, <2>1, <2>3, <3>1 DEF LoanTxSound, ClearSound
    <3>3. PICK row : row = [record[r] EXCEPT !.status = "ACTIVE", !.noc = FALSE]
      OBVIOUS
    <3>4. row \in LoanRecords /\ row.status = "ACTIVE" /\ row.lid = record[r].lid
      BY <3>2, <3>3 DEF LoanRecords
    <3>5. ~row.noc
      BY <3>2, <3>3 DEF LoanRecords
    <3>6. record' = [record EXCEPT ![r] = row] /\ record'[r] = row
      BY <1>0, <2>1, <3>1, <3>3
    <3>7. MadeNext(row.lid) /\ StandingNext(r)
      BY <1>1, <3>2, <3>4, <3>6 DEF Made, MadeNext, StandingNext
    <3>8. RecordKept(r, {})
      BY <3>2, <3>4, <3>5, <3>6, <3>7 DEF RecordKept, Standing
    <3> QED
      BY <1>2, <2>2, <3>4, <3>6, <3>8, LoanWritten
  <2>4. CASE tx[t].link = 0
    <3>1. record' = record
      BY <1>0, <2>1, <2>4
    <3> QED
      BY <1>2, <2>2, <3>1, LoanUntouched
  <2> QED
    BY <2>3, <2>4
<1>5. CASE RollBackNothing(t)
  <2>1. RolledBack /\ record' = record
    BY <1>5 DEF RollBackNothing
  <2> QED
    BY <1>2, <2>1, LoanRelay, LoanUntouched
<1> QED
  BY <1>3, <1>4, <1>5 DEF LenderRollBack

(* A transaction is mined, and makes a loan or closes one: the conditions    *)
(* all five ways share.                                                     *)
LEMMA LoanMinedStep ==
    ASSUME LoanInv, NEW t \in Txs, NEW id \in LoanNos, Mined(t, id), record' = record,
           loan' \in [LoanIds -> ChainLoans], xfer' \in LenderTransfer, reg' \in [Txs -> Regs],
           \A s \in Txs \ {t} : reg'[s] = reg[s],
           OneLien', LoanOnward, id # 0 => MadeNext(id), reg'[t].due => MadeNext(reg'[t].new),
           tx[t].op = "registerLoan" => tx[t].id = 0,
           tx[t].op \in {"issueNOC", "refinanceLoan"} =>
             ClosedNext(id) /\ (tx[t].link # 0 => ClosedNext(record[tx[t].link].lid)),
           tx[t].op = "refinanceLoan" =>
             MadeNext(reg'[t].new) /\ (tx[t].link # 0 => record[tx[t].link].lid # reg'[t].new),
           tx[t].op # "approveTransfer"
    PROVE  LoanInv'
<1>0. /\ tx \in [Txs -> LoanTxs] /\ RelayCounters /\ record \in [LoanRows -> LoanRecords]
      /\ LoanTxSound(t)
  BY LoanShape DEF LoanInv, LoanLinks
<1>1. /\ tx'[t].op = tx[t].op /\ tx'[t].id = id /\ tx'[t].link = tx[t].link
      /\ tx'[t].chain = "mined" /\ tx'[t].row = tx[t].row
      /\ tx'[t].event = "ready" /\ tx'[t].seen = tx[t].seen
      /\ \A s \in Txs \ {t} : tx'[s] = tx[s]
      /\ tx' \in [Txs -> LoanTxs] /\ RelayCounters'
  BY <1>0, MinedStep DEF LoanTxs
<1>2. \A r \in LoanRows : RecordKept(r, {})
  BY RecordUntouched
<1>3. tx[t].op = "registerLoan" => RegSound(t)'
  <2>1. SUFFICES ASSUME tx[t].op = "registerLoan" PROVE RegSound(t)'
    OBVIOUS
  <2>2. RegSound(t) /\ tx[t].id = 0
    BY <1>0, <2>1 DEF LoanTxSound
  <2> QED
    BY <1>1, <2>1, <2>2 DEF RegSound
<1>4. tx[t].op \in {"issueNOC", "refinanceLoan"} => ClearSound(t)'
  BY <1>1 DEF ClearSound, Made, MadeNext, Closed, ClosedNext
<1>5. LoanTxSound(t)'
  BY <1>0, <1>1, <1>3, <1>4 DEF LoanTxSound, Made, MadeNext, Standing
<1>6. tx'[t].op = "registerLoan" => \A s \in Txs \ {t} :
        tx[s].op = "registerLoan" /\ tx[s].link # 0 => tx[s].link # tx'[t].link
  BY <1>0, <1>1 DEF LoanTxSound, RegSound
<1> QED
  BY <1>0, <1>1, <1>2, <1>5, <1>6, LoanOneTx

(* A new loan, while there is no lien or the only one is closed             *)
LEMMA LoanMade ==
    ASSUME LoanInv, NEW n \in LoanIds, loan[n].state = "none", NEW b \in LoanBys, Lien = {},
           loan' = NewLoan(n, b)
    PROVE  loan' \in [LoanIds -> ChainLoans] /\ OneLien' /\ LoanOnward /\ MadeNext(n)
<1>0. loan \in [LoanIds -> ChainLoans] /\ n # 0
  BY LoanShape, LoanParts DEF LoanInv
<1>1. PICK x : x = [bank |-> b, state |-> "active"]
  OBVIOUS
<1>2. x \in ChainLoans /\ x.state = "active"
  BY <1>1 DEF ChainLoans
<1>3. /\ loan' \in [LoanIds -> ChainLoans] /\ loan'[n] = x
      /\ \A l \in LoanIds \ {n} : loan'[l] = loan[l]
  BY <1>0, <1>1, <1>2 DEF NewLoan
<1> QED
  BY <1>0, <1>2, <1>3 DEF OneLien, LoanOnward, MadeNext, Lien

LEMMA OnlyLien ==
    ASSUME LoanInv, NEW l \in Lien, NEW m \in LoanIds, m # l
    PROVE  loan[m].state \in {"none", "closed"}
<1>1. loan[m] \in ChainLoans
  BY LoanParts DEF LoanInv
<1>2. loan[m].state \in {"none", "active", "closed"}
  BY <1>1 DEF ChainLoans
<1> QED
  BY <1>2 DEF LoanInv, OneLien, Lien

LEMMA LoanMineStep ==
    ASSUME LoanInv, NEW t \in Txs, LenderMine(t)
    PROVE  LoanInv'
<1>0. /\ tx \in [Txs -> LoanTxs] /\ reg \in [Txs -> Regs] /\ loan \in [LoanIds -> ChainLoans]
      /\ record \in [LoanRows -> LoanRecords] /\ xfer \in LenderTransfer
      /\ LoanTxSound(t) /\ tx[t].by \in LoanBys /\ 0 \in LoanNos /\ 0 \in LoanBys
      /\ \A l \in LoanIds : l # 0 /\ l \in LoanNos /\ loan[l] \in ChainLoans
      /\ tx[t].link # 0 => tx[t].link \in LoanRows
      /\ \A r \in LoanRows : record[r].lid \in LoanNos
      /\ \A l \in LoanNos : l # 0 => l \in LoanIds
  BY LoanShape, LoanParts DEF LoanInv, LoanLinks, LoanNos, LoanBys
<1>1. CASE LoanTxReverts(t)
  <2>1. /\ TxReverts(t) /\ loan' = loan /\ xfer' = xfer /\ record' = record /\ reg' = reg
    BY <1>1 DEF LoanTxReverts
  <2>2. LoanTxsKept({}) /\ LenderSteady
    BY <1>0, <2>1, LoanRelay DEF LenderSteady
  <2> QED
    BY <2>1, <2>2, LoanUntouched
<1>2. tx[t].op = "registerLoan" /\ tx[t].chain = "pool" => tx[t].id = 0
  BY <1>0 DEF LoanTxSound, RegSound
<1>3. reg[t].due /\ LoanOnward => MadeNext(reg[t].new)
  BY <1>0, LoanParts, MadeOnward DEF LoanTxSound, LoanInv
<1>4. ASSUME NEW l \in LoanIds, MineNewLoan(t, l) PROVE LoanInv'
  <2>1. /\ tx[t].op = "registerLoan" /\ tx[t].chain = "pool" /\ Lien = {} /\ loan[l].state = "none"
        /\ loan' = NewLoan(l, tx[t].by) /\ Mined(t, l)
        /\ xfer' = xfer /\ record' = record /\ reg' = reg
    BY <1>4 DEF MineNewLoan, InPool, NextLoan
  <2>2. loan' \in [LoanIds -> ChainLoans] /\ OneLien' /\ LoanOnward /\ MadeNext(l)
    BY <1>0, <2>1, LoanMade
  <2> QED
    BY <1>0, <1>2, <1>3, <2>1, <2>2, LoanMinedStep
<1>5. CASE MineAttach(t) \/ MineDetach(t)
  <2>1. /\ tx[t].op \in {"registerLoan", "cancelPendingLoan"} /\ tx[t].chain = "pool" /\ Mined(t, 0)
        /\ loan' = loan /\ record' = record /\ reg' = reg
        /\ \E b \in LoanBys : xfer' = [xfer EXCEPT !.bank = b]
    BY <1>0, <1>5 DEF MineAttach, MineDetach, InPool
  <2>2. xfer' \in LenderTransfer
    BY <1>0, <2>1 DEF LenderTransfer
  <2>3. OneLien' /\ LoanOnward
    BY <2>1 DEF LoanInv, OneLien, LoanOnward
  <2> QED
    BY <1>0, <1>2, <1>3, <2>1, <2>2, <2>3, LoanMinedStep
<1>6. ASSUME NEW l \in LoanIds, MineNoc(t, l) PROVE LoanInv'
  <2>1. /\ tx[t].op = "issueNOC" /\ l \in Lien /\ Mined(t, l)
        /\ loan' = [loan EXCEPT ![l].state = "closed"]
        /\ xfer' = xfer /\ record' = record /\ reg' = reg
    BY <1>6 DEF MineNoc, InPool
  <2>2. PICK x : x = [loan[l] EXCEPT !.state = "closed"]
    OBVIOUS
  <2>3. x \in ChainLoans /\ x.state = "closed"
    BY <1>0, <2>2 DEF ChainLoans
  <2>4. /\ loan' \in [LoanIds -> ChainLoans] /\ loan'[l].state = "closed"
        /\ \A m \in LoanIds \ {l} : loan'[m] = loan[m]
    BY <1>0, <2>1, <2>2, <2>3
  <2>5. OneLien' /\ LoanOnward
    BY <2>4 DEF LoanInv, OneLien, LoanOnward
  <2>6. \A m \in LoanIds : loan[m].state # "none" => ClosedNext(m)
    BY <1>0, <2>1, <2>4, OnlyLien DEF ClosedNext
  <2>7. ClosedNext(l) /\ MadeNext(l)
    BY <1>0, <2>4 DEF ClosedNext, MadeNext
  <2>8. tx[t].link # 0 => ClosedNext(record[tx[t].link].lid)
    BY <1>0, <2>1, <2>6 DEF LoanTxSound, ClearSound, Made
  <2> QED
    BY <1>0, <1>3, <2>1, <2>4, <2>5, <2>7, <2>8, LoanMinedStep
<1>7. ASSUME NEW l \in LoanIds, NEW n \in LoanIds, MineRefinance(t, l, n) PROVE LoanInv'
  <2>1. /\ tx[t].op = "refinanceLoan" /\ l \in Lien /\ loan[n].state = "none" /\ Mined(t, l)
        /\ loan' = [NewLoan(n, tx[t].by) EXCEPT ![l].state = "closed"]
        /\ reg' = [reg EXCEPT ![t] = [new |-> n, due |-> TRUE]]
        /\ xfer' = xfer /\ record' = record
    BY <1>7 DEF MineRefinance, InPool, NextLoan
  <2>2. loan[l].state = "active" /\ l # n
    BY <2>1 DEF Lien
  <2>3. PICK x : x = [loan[l] EXCEPT !.state = "closed"]
    OBVIOUS
  <2>4. PICK y : y = [bank |-> tx[t].by, state |-> "active"]
    OBVIOUS
  <2>5. x \in ChainLoans /\ x.state = "closed" /\ y \in ChainLoans /\ y.state = "active"
    BY <1>0, <2>3, <2>4 DEF ChainLoans
  <2>6. loan' = [loan EXCEPT ![n] = y, ![l] = x]
    BY <1>0, <2>1, <2>2, <2>3, <2>4 DEF NewLoan
  <2>7. /\ loan' \in [LoanIds -> ChainLoans] /\ loan'[l].state = "closed"
        /\ loan'[n].state = "active" /\ \A m \in LoanIds \ {l, n} : loan'[m] = loan[m]
    BY <1>0, <2>2, <2>5, <2>6
  <2>8. \A m \in LoanIds : loan[m].state # "none" => loan'[m].state = "closed"
    BY <2>1, <2>7, OnlyLien
  <2>9. LoanOnward /\ OneLien'
    BY <2>7, <2>8 DEF OneLien, LoanOnward
  <2>10. PICK z : z = [new |-> n, due |-> TRUE]
    OBVIOUS
  <2>11. z \in Regs /\ z.new = n
    BY <1>0, <2>10 DEF Regs
  <2>12. reg' \in [Txs -> Regs] /\ reg'[t].new = n /\ \A s \in Txs \ {t} : reg'[s] = reg[s]
    BY <1>0, <2>1, <2>10, <2>11
  <2>13. MadeNext(n) /\ ClosedNext(l) /\ MadeNext(l)
    BY <1>0, <2>7 DEF MadeNext, ClosedNext
  <2>14. tx[t].link # 0 => ClosedNext(record[tx[t].link].lid) /\ record[tx[t].link].lid # n
    BY <1>0, <2>1, <2>8 DEF LoanTxSound, ClearSound, Made, ClosedNext
  <2> QED
    BY <1>0, <2>1, <2>7, <2>9, <2>12, <2>13, <2>14, LoanMinedStep
<1> QED
  BY <1>1, <1>4, <1>5, <1>6, <1>7 DEF LenderMine

(* approveTransfer is a transaction of its own.                             *)
LEMMA LoanApproveStep ==
    ASSUME LoanInv, NEW t \in Txs, NEW l \in LoanIds, ApproveTransfer(t, l)
    PROVE  LoanInv'
<1>0. /\ tx \in [Txs -> LoanTxs] /\ RelayCounters /\ reg \in [Txs -> Regs]
      /\ record \in [LoanRows -> LoanRecords] /\ xfer \in LenderTransfer
      /\ LoanTxSound(t) /\ l \in LoanNos /\ l # 0 /\ reg[t].new \in LoanNos
  BY LoanShape, LoanParts DEF LoanInv, LoanLinks, LoanNos
<1>1. /\ Lien = {} /\ loan[l].state = "none" /\ tx[t] = NoTx
      /\ loan' = NewLoan(l, xfer.bank) /\ xfer' = [open |-> FALSE, bank |-> 0]
      /\ tx' = [tx EXCEPT ![t] = [NoTx EXCEPT !.op = "approveTransfer", !.id = l,
                                              !.chain = "mined", !.event = "ready"]]
      /\ sweep' = sweep /\ crashes' = crashes /\ losses' = losses /\ record' = record /\ reg' = reg
  BY DEF ApproveTransfer, NextLoan, NextTx
<1>2. xfer.bank \in LoanBys
  BY <1>0 DEF LenderTransfer
<1>3. loan' \in [LoanIds -> ChainLoans] /\ OneLien' /\ LoanOnward /\ MadeNext(l)
  BY <1>1, <1>2, LoanMade
<1>4. xfer' \in LenderTransfer
  BY <1>1 DEF LenderTransfer, LoanBys
<1>5. PICK x : x = [tx[t] EXCEPT !.op = "approveTransfer", !.id = l, !.chain = "mined",
                                 !.event = "ready"]
  OBVIOUS
<1>6. "approveTransfer" \in LenderNames
  BY DEF LenderNames, LenderOps
<1>7. x \in LoanTxs
  BY <1>0, <1>5, <1>6 DEF LoanTxs, TxOf
<1>8. /\ x.op = "approveTransfer" /\ x.id = l /\ x.chain = "mined" /\ x.link = 0
  BY <1>0, <1>1, <1>5 DEF NoTx
<1>9. tx' = [tx EXCEPT ![t] = x]
  BY <1>1, <1>5
<1>10. tx' \in [Txs -> LoanTxs] /\ tx'[t] = x /\ \A s \in Txs \ {t} : tx'[s] = tx[s]
  BY <1>0, <1>7, <1>9, OneTx
<1>11. \A r \in LoanRows : RecordKept(r, {})
  BY <1>1, <1>3, RecordUntouched
<1>12. reg[t].due => MadeNext(reg[t].new)
  BY <1>0, <1>3, MadeOnward DEF LoanTxSound
<1>13. LoanTxSound(t)'
  BY <1>0, <1>1, <1>3, <1>8, <1>10, <1>12 DEF LoanTxSound, Made, MadeNext
<1>14. RelayCounters'
  BY <1>0, <1>1 DEF RelayCounters
<1> QED
  BY <1>0, <1>1, <1>3, <1>4, <1>8, <1>10, <1>11, <1>13, <1>14, LoanOneTx

LEMMA LoanInitially == LenderInit => LoanInv
<1> SUFFICES ASSUME LenderInit PROVE LoanInv
  OBVIOUS
<1>1. /\ tx = [t \in Txs |-> NoTx] /\ sweep = 0 /\ crashes = 0 /\ losses = 0
      /\ loan = [l \in LoanIds |-> [bank |-> 0, state |-> "none"]]
      /\ xfer = [open |-> FALSE, bank |-> 0] /\ record = [r \in LoanRows |-> NoRecord]
      /\ reg = [t \in Txs |-> [new |-> 0, due |-> FALSE]]
  BY DEF LenderInit, RelayInit
<1>2. NoTx \in LoanTxs
  <2>1. "none" \in LenderNames /\ 0 \in LoanNos /\ 0 \in LoanBys /\ 0 \in LoanRefs
    BY DEF LenderNames, LoanNos, LoanBys, LoanRefs
  <2> QED
    BY <2>1 DEF LoanTxs, TxOf, NoTx
<1>3. NoRecord \in LoanRecords
  <2>1. NoRecord = [status |-> "absent", lid |-> 0, bank |-> 0, noc |-> FALSE]
    BY DEF NoRecord
  <2> QED
    BY <2>1 DEF LoanRecords, LoanNos, LoanBys
<1>4. [bank |-> 0, state |-> "none"] \in ChainLoans /\ [new |-> 0, due |-> FALSE] \in Regs
  BY DEF ChainLoans, LoanBys, Regs, LoanNos
<1>5. xfer \in LenderTransfer
  BY <1>1 DEF LenderTransfer, LoanBys
<1>6. RelayCounters
  BY <1>1, RelayAssumption DEF RelayCounters
<1>7. LenderTypeOK
  BY <1>1, <1>2, <1>3, <1>4, <1>5, <1>6, LoanShape
<1>8. EventsSound /\ OneLien
  BY <1>1 DEF EventsSound, OneLien, NoTx
<1>9. ASSUME NEW t \in Txs PROVE LoanTxSound(t)
  <2>1. tx[t].id = 0 /\ tx[t].op = "none" /\ tx[t].link = 0
    BY <1>1 DEF NoTx
  <2>2. ~reg[t].due
    BY <1>1
  <2> QED
    BY <2>1, <2>2 DEF LoanTxSound
<1>10. \A r \in LoanRows : record[r].lid = 0 /\ record[r].status = "absent"
  BY <1>1 DEF NoRecord
<1>11. \A r \in LoanRows : ~record[r].noc
  BY <1>1 DEF NoRecord
<1>12. LoanLinks /\ LoansMatchChain
  BY <1>9, <1>10, <1>11 DEF LoanLinks, LoansMatchChain
<1> QED
  BY <1>7, <1>8, <1>12 DEF LoanInv

LEMMA LoanInductive == LoanInv /\ [LenderNext]_lenderVars => LoanInv'
<1> SUFFICES ASSUME LoanInv, [LenderNext]_lenderVars PROVE LoanInv'
  OBVIOUS
<1>0. xfer \in LenderTransfer /\ reg \in [Txs -> Regs]
  BY LoanShape DEF LoanInv
<1>1. CASE \/ \E t \in Txs : RelayStep(t) /\ UNCHANGED lenderRest
           \/ Crash /\ UNCHANGED lenderRest
           \/ UNCHANGED lenderVars
  <2>1. /\ (\E t \in Txs : RelayStep(t)) \/ Crash \/ UNCHANGED relayVars
        /\ loan' = loan /\ xfer' = xfer /\ record' = record /\ reg' = reg
    BY <1>1 DEF lenderVars, lenderRest
  <2>2. LoanTxsKept({}) /\ LenderSteady
    BY <1>0, <2>1, LoanRelay DEF LenderSteady
  <2> QED
    BY <2>1, <2>2, LoanUntouched
<1>2. CASE OpenTransfer
  <2>1. /\ UNCHANGED relayVars /\ loan' = loan /\ record' = record /\ reg' = reg
        /\ xfer' = [open |-> TRUE, bank |-> 0]
    BY <1>2 DEF OpenTransfer
  <2>2. xfer' \in LenderTransfer
    BY <2>1 DEF LenderTransfer, LoanBys
  <2>3. LoanTxsKept({})
    BY <2>1, LoanRelay
  <2>4. LoanOnward
    BY <2>1 DEF LoanOnward
  <2>5. \A r \in LoanRows : RecordKept(r, {})
    BY <2>1, <2>4, RecordUntouched
  <2>6. record' \in [LoanRows -> LoanRecords]
    BY <2>1, LoanShape DEF LoanInv
  <2> QED
    BY <1>0, <2>1, <2>2, <2>3, <2>5, <2>6, LoanSteady DEF LenderSteady
<1> QED
  BY <1>1, <1>2, LoanRequestStep, LoanStoreStep, LoanMineStep, LoanHandleStep, LoanReplayStep,
     LoanRollBackStep, LoanApproveStep DEF LenderNext

(* No loan is shown cleared, or with its NOC, whose lien stands on chain,    *)
(* and none active that the chain never made (LoanMirror).                  *)
THEOREM LoansMatchChainAlways == LenderSpec => []LoansMatchChain
<1>1. LoanInv => LoansMatchChain
  BY DEF LoanInv
<1> QED
  BY <1>1, LoanInitially, LoanInductive, PTL DEF LenderSpec
=============================================================================
