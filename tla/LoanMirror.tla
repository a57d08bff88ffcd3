------------------------------- MODULE LoanMirror -------------------------------
(***************************************************************************)
(* Loans of one vehicle in the database: the bank service, the indexer's   *)
(* handlers of LoanContract and the sweep. No query of this code reads the *)
(* loans of two vehicles. Amounts, tenures, borrowers and the NOC's        *)
(* recipient are left out.                                                 *)
(***************************************************************************)
EXTENDS Relay

CONSTANTS
    MaxLoanIds,   \* bound: loans created on chain
    MaxLoanRows,  \* bound: LoanRecord rows created
    MaxBankIds    \* bound: banks

ASSUME LoanMirrorAssumption == MaxLoanIds \in Nat /\ MaxLoanRows \in Nat /\ MaxBankIds \in Nat

VARIABLES
    loan,      \* LoanContract: bank and state of each loan
    xfer,      \* OwnershipToken: the vehicle's transfer, if any, and the bank
               \* whose loan is attached to it, or 0
    record,    \* LoanRecord rows
    reg        \* of a refinancing: the new loan, and whether its LoanReg event
               \* is still to be handled

lenderRest == <<loan, xfer, record, reg>>
lenderVars == <<relayVars, lenderRest>>

LoanIds == 1 .. MaxLoanIds
LoanRows == 1 .. MaxLoanRows
BankIds == 1 .. MaxBankIds

NoRecord == [status |-> "absent", lid |-> 0, bank |-> 0, noc |-> FALSE]

LenderInit ==
    /\ RelayInit
    /\ loan = [l \in LoanIds |-> [bank |-> 0, state |-> "none"]]
    /\ xfer = [open |-> FALSE, bank |-> 0]
    /\ record = [r \in LoanRows |-> NoRecord]
    /\ reg = [t \in Txs |-> [new |-> 0, due |-> FALSE]]

LenderOps == {"registerLoan", "issueNOC", "cancelPendingLoan", "refinanceLoan", "approveTransfer"}

LenderTx == [op : LenderOps \cup {"none"}, id : LoanIds \cup {0}, by : BankIds \cup {0},
             link : LoanRows \cup {0}, chain : {"unsent", "pool", "mined", "reverted"},
             call : {"idle", "sent"}, row : {"absent", "PENDING", "MINED", "FAILED"},
             event : {"none", "ready", "read", "applied", "handled", "lost"},
             seen : LoanRows \cup {0}]

LenderTypeOK ==
    /\ tx \in [Txs -> LenderTx]
    /\ sweep \in Txs \cup {0} /\ crashes \in 0 .. MaxCrashes /\ losses \in 0 .. MaxLosses
    /\ loan \in [LoanIds -> [bank : BankIds \cup {0}, state : {"none", "active", "closed"}]]
    /\ xfer \in [open : BOOLEAN, bank : BankIds \cup {0}]
    /\ record \in [LoanRows -> [status : {"absent", "deleted", "PENDING", "ACTIVE", "CLEARED"},
                                lid : LoanIds \cup {0}, bank : BankIds \cup {0}, noc : BOOLEAN]]
    /\ reg \in [Txs -> [new : LoanIds \cup {0}, due : BOOLEAN]]

-----------------------------------------------------------------------------
(* Rows                                                                     *)

NextRecord(r) == record[r] = NoRecord /\ \A q \in 1 .. r - 1 : record[q] # NoRecord

RecordOf(l) == {r \in LoanRows : record[r].lid = l}

HasPending == \E r \in LoanRows : record[r].status = "PENDING" /\ ~record[r].noc

(* findActiveOrPendingLoanByDvpId                                           *)
HasOpen == \E r \in LoanRows : record[r].status \in {"ACTIVE", "PENDING"} /\ ~record[r].noc

(* The writes of the handlers, the replays and the roll-backs               *)
Activated(r, l) == [record EXCEPT ![r].status = "ACTIVE", ![r].lid = l]
Cleared(r) == [record EXCEPT ![r].status = "CLEARED", ![r].noc = TRUE]
Deleted(gone) == [r \in LoanRows |-> IF r \in gone THEN [NoRecord EXCEPT !.status = "deleted"]
                                     ELSE record[r]]

ClearedId(l) == [r \in LoanRows |-> IF record[r].lid = l
                                    THEN [record[r] EXCEPT !.status = "CLEARED", !.noc = TRUE]
                                    ELSE record[r]]

(* An upsert by loanId: a row of the loan becomes ACTIVE, or one is made.   *)
UpsertLoan(l) ==
    \E r \in LoanRows :
        /\ IF RecordOf(l) # {} THEN r \in RecordOf(l) ELSE NextRecord(r)
        /\ record' = [record EXCEPT ![r] = [status |-> "ACTIVE", lid |-> l,
                                            bank |-> loan[l].bank, noc |-> @.noc]]

-----------------------------------------------------------------------------
(* The chain. A gas estimate succeeds when the call would.                  *)

Lien == {l \in LoanIds : loan[l].state = "active"}

WouldSucceed(op, b) ==
    CASE op = "registerLoan"      -> IF xfer.open THEN xfer.bank = 0 ELSE Lien = {}
      [] op = "cancelPendingLoan" -> xfer.open /\ xfer.bank = b
      [] OTHER                    -> \E l \in Lien : loan[l].bank = b

NextLoan(l) == loan[l].state = "none" /\ \A m \in 1 .. l - 1 : loan[m].state # "none"

NewLoan(l, b) == [loan EXCEPT ![l] = [bank |-> b, state |-> "active"]]

-----------------------------------------------------------------------------
(* The bank service                                                         *)

(* registerLoan. Whether a transfer is PENDING in the database (which lags   *)
(* behind the chain) decides whether an ACTIVE row forbids it; a PENDING     *)
(* one does in both cases.                                                  *)
RegisterLoan(t, b) ==
    /\ ~HasPending
    /\ \E transferSeen \in BOOLEAN : transferSeen \/ ~HasOpen
    /\ WouldSucceed("registerLoan", b)
    /\ SubmitEntityTx(t, "registerLoan", 0, b, 0)
    /\ UNCHANGED <<loan, xfer, record, reg>>

CreatePendingLoanTx(t, r) ==
    /\ Storing(t, "registerLoan") /\ NextRecord(r)
    /\ StoreTx(t, r)
    /\ record' = [record EXCEPT ![r] = [NoRecord EXCEPT !.status = "PENDING", !.bank = tx[t].by]]
    /\ UNCHANGED <<loan, xfer, reg>>

(* issueNoc and refinanceLoan name the vehicle, not the loan: the contract  *)
(* takes whatever loan of the bank is on it.                                *)
OnActiveLoan(t, r, op) ==
    /\ record[r].status = "ACTIVE" /\ ~record[r].noc
    /\ WouldSucceed(op, record[r].bank)
    /\ SubmitEntityTx(t, op, 0, record[r].bank, r)
    /\ UNCHANGED <<loan, xfer, record, reg>>

IssueNoc(t, r) == OnActiveLoan(t, r, "issueNOC")
RefinanceLoan(t, r) == OnActiveLoan(t, r, "refinanceLoan")

CancelPendingLoan(t, r) ==
    /\ record[r].status = "PENDING" /\ ~record[r].noc
    /\ WouldSucceed("cancelPendingLoan", record[r].bank)
    /\ SubmitEntityTx(t, "cancelPendingLoan", 0, record[r].bank, r)
    /\ UNCHANGED <<loan, xfer, record, reg>>

CreateLoanTx(t, op) ==
    /\ Storing(t, op) /\ StoreTx(t, tx[t].link)
    /\ UNCHANGED <<loan, xfer, record, reg>>

CreatePendingNocTx(t) == CreateLoanTx(t, "issueNOC")
CreateCancelPendingLoanTx(t) == CreateLoanTx(t, "cancelPendingLoan")
CreateRefinanceTx(t) == CreateLoanTx(t, "refinanceLoan")

-----------------------------------------------------------------------------
(* The chain: the owner's and the RTO's transactions, and the bank's        *)

OpenTransfer ==
    /\ ~xfer.open /\ xfer' = [open |-> TRUE, bank |-> 0]
    /\ UNCHANGED <<relayVars, loan, record, reg>>

(* approveTransfer activates the attached loan and emits its LoanReg.       *)
ApproveTransfer(t, l) ==
    /\ xfer.open /\ xfer.bank # 0 /\ Lien = {} /\ NextLoan(l) /\ NextTx(t)
    /\ xfer' = [open |-> FALSE, bank |-> 0]
    /\ loan' = NewLoan(l, xfer.bank)
    /\ tx' = [tx EXCEPT ![t] = [NoTx EXCEPT !.op = "approveTransfer", !.id = l,
                                            !.chain = "mined", !.event = "ready"]]
    /\ UNCHANGED <<sweep, crashes, losses, record, reg>>

MineNewLoan(t, l) ==
    /\ InPool(t, "registerLoan") /\ ~xfer.open /\ Lien = {} /\ NextLoan(l)
    /\ loan' = NewLoan(l, tx[t].by)
    /\ Mined(t, l)
    /\ UNCHANGED <<xfer, record, reg>>

MineAttach(t) ==
    /\ InPool(t, "registerLoan") /\ xfer.open /\ xfer.bank = 0
    /\ xfer' = [xfer EXCEPT !.bank = tx[t].by]
    /\ Mined(t, 0)
    /\ UNCHANGED <<loan, record, reg>>

MineDetach(t) ==
    /\ InPool(t, "cancelPendingLoan") /\ WouldSucceed("cancelPendingLoan", tx[t].by)
    /\ xfer' = [xfer EXCEPT !.bank = 0]
    /\ Mined(t, 0)
    /\ UNCHANGED <<loan, record, reg>>

MineNoc(t, l) ==
    /\ InPool(t, "issueNOC") /\ l \in Lien /\ loan[l].bank = tx[t].by
    /\ loan' = [loan EXCEPT ![l].state = "closed"]
    /\ Mined(t, l)
    /\ UNCHANGED <<xfer, record, reg>>

(* Two events: LoanReg of the new loan, LoanRefinanced of the old one.      *)
MineRefinance(t, l, n) ==
    /\ InPool(t, "refinanceLoan") /\ l \in Lien /\ loan[l].bank = tx[t].by /\ NextLoan(n)
    /\ loan' = [NewLoan(n, tx[t].by) EXCEPT ![l].state = "closed"]
    /\ reg' = [reg EXCEPT ![t] = [new |-> n, due |-> TRUE]]
    /\ Mined(t, l)
    /\ UNCHANGED <<xfer, record>>

LoanTxReverts(t) ==
    /\ TxReverts(t)
    /\ UNCHANGED <<loan, xfer, record, reg>>

-----------------------------------------------------------------------------
(* The indexer. Of a registerLoan with an id: LoanReg.                      *)

LoanRegRead(t) ==
    /\ Arrived(t, "registerLoan") /\ tx[t].id # 0 /\ ReadBy(t)
    /\ UNCHANGED <<loan, xfer, record, reg>>

(* The row the service created can take the loan's id: it is still there,   *)
(* and no other row has it.                                                 *)
Identifiable(r, l) == record[r].status # "deleted" /\ RecordOf(l) \subseteq {r}

(* The row the service created is promoted; without one, upsert by id.      *)
LoanRegWrite(t) ==
    /\ tx[t].op = "registerLoan" /\ SeenBy(t) /\ AppliedBy(t)
    /\ IF tx[t].seen # 0
       THEN Identifiable(tx[t].seen, tx[t].id) /\ record' = Activated(tx[t].seen, tx[t].id)
       ELSE UpsertLoan(tx[t].id)
    /\ UNCHANGED <<loan, xfer, reg>>

LoanRegFails(t) ==
    /\ tx[t].op = "registerLoan" /\ SeenBy(t) /\ Swallowed(t)
    /\ tx[t].seen # 0 /\ ~Identifiable(tx[t].seen, tx[t].id)
    /\ UNCHANGED <<loan, xfer, record, reg>>

(* LoanReg inside approveTransfer: its transaction row, if stored, is not a  *)
(* LOAN_REG and has no loan, so the loan gets a row of its own.             *)
LoanRegOfTransfer(t) ==
    /\ Arrived(t, "approveTransfer")
    /\ tx' = [tx EXCEPT ![t].event = "handled"]
    /\ UpsertLoan(tx[t].id)
    /\ UNCHANGED <<sweep, crashes, losses, loan, xfer, reg>>

(* LoanReg inside refinanceLoan: upsert, and finalizeTx only when the row   *)
(* is not stored yet.                                                       *)
LoanRegOfRefinance(t) ==
    /\ reg[t].due
    /\ UpsertLoan(reg[t].new)
    /\ reg' = [reg EXCEPT ![t].due = FALSE]
    /\ tx' = IF tx[t].row = "absent" THEN [tx EXCEPT ![t].row = "MINED", ![t].link = 0] ELSE tx
    /\ UNCHANGED <<sweep, crashes, losses, loan, xfer>>

(* handleNocIssued and handleLoanRefinanced clear the loan the event names. *)
HandleCleared(t, op) ==
    /\ Arrived(t, op) /\ AppliedBy(t)
    /\ record' = ClearedId(tx[t].id)
    /\ UNCHANGED <<loan, xfer, reg>>

HandleNocIssued(t) == HandleCleared(t, "issueNOC")
HandleLoanRefinanced(t) == HandleCleared(t, "refinanceLoan")

(* Only the transaction row is touched: the loan stays PENDING.             *)
HandlePendingLoanAttached(t) ==
    /\ Arrived(t, "registerLoan") /\ tx[t].id = 0 /\ AppliedBy(t)
    /\ UNCHANGED <<loan, xfer, record, reg>>

(* Every PENDING row of the bank on the vehicle is deleted.                 *)
HandlePendingLoanCancelled(t) ==
    LET gone == {r \in LoanRows : record[r].status = "PENDING" /\ record[r].bank = tx[t].by} IN
    /\ Arrived(t, "cancelPendingLoan")
    /\ record' = Deleted(gone)
    /\ tx' = [Cascaded(gone) EXCEPT ![t].event = "applied"]
    /\ UNCHANGED <<sweep, crashes, losses, loan, xfer, reg>>

-----------------------------------------------------------------------------
(* The sweep                                                                *)

ReplayLoanReg(t) ==
    LET r == tx[t].link IN
    /\ FoundMined(t, "registerLoan") /\ Replayed(t)
    /\ IF tx[t].id = 0 THEN UNCHANGED record
       ELSE Identifiable(r, tx[t].id) /\ record' = Activated(r, tx[t].id)
    /\ UNCHANGED <<loan, xfer, reg>>

(* Fault: only the transaction's row is updated.                            *)
ReplayClearRowOnly(t) ==
    FoundMined(t, "issueNOC") /\ Replayed(t) /\ UNCHANGED lenderRest

ReplayLoanClear(t) ==
    /\ FoundMined(t, "issueNOC") /\ Replayed(t)
    /\ record' = Cleared(tx[t].link)
    /\ UNCHANGED <<loan, xfer, reg>>

(* Its own row goes with the loan's.                                        *)
ReplayCancelPending(t) ==
    /\ FoundMined(t, "cancelPendingLoan")
    /\ record' = Deleted({tx[t].link})
    /\ tx' = Cascaded({tx[t].link})
    /\ UNCHANGED <<sweep, crashes, losses, loan, xfer, reg>>

(* The old loan is cleared and the new one upserted from the same receipt.  *)
ReplayRefinance(t) ==
    LET r == tx[t].link
        n == reg[t].new
    IN
    /\ FoundMined(t, "refinanceLoan") /\ Replayed(t)
    /\ \E q \in LoanRows :
         /\ IF RecordOf(n) # {} THEN q \in RecordOf(n) ELSE NextRecord(q)
         /\ record' = [Cleared(r) EXCEPT ![q] = [status |-> "ACTIVE", lid |-> n,
                                                 bank |-> loan[n].bank, noc |-> @.noc]]
    /\ UNCHANGED <<loan, xfer, reg>>

(* The row may be gone already: then nothing happens.                       *)
RollBackLoanReg(t) ==
    /\ RollingBack(t, "registerLoan")
    /\ record' = Deleted({tx[t].link})
    /\ tx' = Cascaded({tx[t].link}) /\ sweep' = 0
    /\ UNCHANGED <<crashes, losses, loan, xfer, reg>>

(* The loan is made ACTIVE again, whatever cleared it.                      *)
RollBackNoc(t) ==
    /\ RollingBack(t, "issueNOC") /\ RolledBack
    /\ record' = [r \in LoanRows |-> IF r = tx[t].link
                                     THEN [record[r] EXCEPT !.status = "ACTIVE", !.noc = FALSE]
                                     ELSE record[r]]
    /\ UNCHANGED <<loan, xfer, reg>>

(* A cancellation and a refinancing that reverted changed no row.           *)
RollBackNothing(t) ==
    /\ RollingBack(t, "cancelPendingLoan") \/ RollingBack(t, "refinanceLoan")
    /\ RolledBack
    /\ UNCHANGED <<loan, xfer, record, reg>>

-----------------------------------------------------------------------------
LenderRequest(t) ==
    \/ \E b \in BankIds : RegisterLoan(t, b)
    \/ \E r \in LoanRows : IssueNoc(t, r) \/ RefinanceLoan(t, r) \/ CancelPendingLoan(t, r)

LenderStore(t) ==
    \/ CreatePendingNocTx(t) \/ CreateCancelPendingLoanTx(t) \/ CreateRefinanceTx(t)
    \/ \E r \in LoanRows : CreatePendingLoanTx(t, r)

LenderMine(t) ==
    \/ \E l \in LoanIds : MineNewLoan(t, l) \/ MineNoc(t, l) \/ \E n \in LoanIds : MineRefinance(t, l, n)
    \/ MineAttach(t) \/ MineDetach(t) \/ LoanTxReverts(t)

LenderHandle(t) ==
    \/ LoanRegRead(t) \/ LoanRegWrite(t) \/ LoanRegFails(t)
    \/ LoanRegOfTransfer(t) \/ HandleNocIssued(t) \/ HandleLoanRefinanced(t)
    \/ HandlePendingLoanAttached(t) \/ HandlePendingLoanCancelled(t)

LenderReplay(t) ==
    ReplayLoanReg(t) \/ ReplayLoanClear(t) \/ ReplayCancelPending(t) \/ ReplayRefinance(t)

LenderRollBack(t) == RollBackLoanReg(t) \/ RollBackNoc(t) \/ RollBackNothing(t)

LenderSettles(t) == (FinalizeTx(t) \/ SweepReverted(t)) /\ UNCHANGED lenderRest

LenderNext ==
    \/ \E t \in Txs :
         \/ LenderRequest(t) \/ LenderStore(t) \/ LenderMine(t)
         \/ LenderHandle(t) \/ LoanRegOfRefinance(t)
         \/ LenderReplay(t) \/ LenderRollBack(t)
         \/ \E l \in LoanIds : ApproveTransfer(t, l)
         \/ RelayStep(t) /\ UNCHANGED lenderRest
    \/ OpenTransfer
    \/ Crash /\ UNCHANGED lenderRest

LenderSpec == LenderInit /\ [][LenderNext]_lenderVars

-----------------------------------------------------------------------------
(* Properties                                                               *)

(* No loan is shown cleared, or with its NOC, while its lien stands on      *)
(* chain, and none is shown active that the chain never made: neither a     *)
(* stale row, nor a NOC that met another loan than the one it was asked     *)
(* for, nor a replay after it makes one so.                                 *)
LoansMatchChain ==
    \A r \in LoanRows :
        /\ record[r].status = "CLEARED" \/ record[r].noc =>
              record[r].lid # 0 /\ loan[record[r].lid].state = "closed"
        /\ record[r].status = "ACTIVE" =>
              record[r].lid # 0 /\ loan[record[r].lid].state # "none"

(* A clearance stored before its event was missed is found by the sweep.    *)
MissedClearanceIsReplayed ==
    \A t \in Txs, r \in LoanRows :
        (tx[t].row = "PENDING" /\ tx[t].event = "lost" /\ tx[t].op = "issueNOC" /\ tx[t].link = r)
        ~> (record[r].status \in {"CLEARED", "deleted"})

=============================================================================
