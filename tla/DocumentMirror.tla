---------------------------- MODULE DocumentMirror ----------------------------
(***************************************************************************)
(* Insurance policies and PUC certificates of one vehicle in the database: *)
(* the insurance and PUC services, the indexer's handlers of both          *)
(* contracts and the sweep. Coverage, premium, readings and owners are     *)
(* left out; the two contracts' ids are drawn from one set.                *)
(***************************************************************************)
EXTENDS Relay

CONSTANTS
    MaxDocs,     \* bound: documents issued on chain
    MaxDocRows,  \* bound: InsurancePolicy and PucCertificate rows created
    ClaimCap     \* MAX_CLAIMS

ASSUME DocumentAssumption == MaxDocs \in Nat /\ MaxDocRows \in Nat /\ ClaimCap \in Nat

VARIABLES
    paper,    \* InsuranceToken and PUCToken: the documents
    current,  \* ownToPolicy and ownToPUC of the vehicle, or 0
    ending,   \* documents whose PolicyTerminated or PUCTerminated is unhandled
    scrapped, \* the vehicle has been scrapped
    doc       \* the rows

docRest == <<paper, current, ending, scrapped, doc>>
docVars == <<relayVars, docRest>>

Docs == 1 .. MaxDocs
DocRows == 1 .. MaxDocRows
Kinds == {"policy", "puc"}

NoPaper == [kind |-> "none", valid |-> FALSE, passed |-> FALSE, past |-> FALSE, claims |-> 0]
NoDoc == [kind |-> "none", status |-> "absent", did |-> 0, passed |-> FALSE, past |-> FALSE,
          claims |-> 0]

DocInit ==
    /\ RelayInit
    /\ paper = [d \in Docs |-> NoPaper]
    /\ current = [k \in Kinds |-> 0]
    /\ ending = {} /\ scrapped = FALSE
    /\ doc = [r \in DocRows |-> NoDoc]

(* The function a transaction calls, and the kind of its document           *)
Issues == [issuePolicy |-> "policy", issuePUC |-> "puc", issueFailedPUC |-> "puc"]
Expires == [expirePolicy |-> "policy", expirePUC |-> "puc"]

(* Insurers and test centres have services, handlers and replays of their   *)
(* own, which differ where the definitions below say so.                    *)
KindOfTx(t) == IF tx[t].op \in DOMAIN Issues THEN Issues[tx[t].op]
               ELSE IF tx[t].op \in DOMAIN Expires THEN Expires[tx[t].op] ELSE "none"
OfPolicy(t) == KindOfTx(t) = "policy"
OfPuc(t) == KindOfTx(t) = "puc"

DocTx == [op : DOMAIN Issues \cup DOMAIN Expires \cup {"fileClaim", "none"},
          id : Docs \cup {0}, by : 0 .. ClaimCap, link : DocRows \cup {0},
          chain : {"unsent", "pool", "mined", "reverted"}, call : {"idle", "sent"},
          row : {"absent", "PENDING", "MINED", "FAILED"},
          event : {"none", "ready", "read", "applied", "handled", "lost"},
          seen : DocRows \cup {0}]

DocTypeOK ==
    /\ tx \in [Txs -> DocTx]
    /\ sweep \in Txs \cup {0} /\ crashes \in 0 .. MaxCrashes /\ losses \in 0 .. MaxLosses
    /\ paper \in [Docs -> [kind : Kinds \cup {"none"}, valid : BOOLEAN, passed : BOOLEAN,
                           past : BOOLEAN, claims : 0 .. ClaimCap]]
    /\ current \in [Kinds -> Docs \cup {0}]
    /\ ending \subseteq Docs /\ scrapped \in BOOLEAN
    /\ doc \in [DocRows -> [kind : Kinds \cup {"none"},
                            status : {"absent", "deleted", "ACTIVE", "EXPIRED", "CANCELLED"},
                            did : Docs \cup {0}, passed : BOOLEAN, past : BOOLEAN,
                            claims : 0 - MaxTxs .. ClaimCap]]

-----------------------------------------------------------------------------
(* Rows. polId and certId are unique.                                       *)

NextDocRow(r) == doc[r] = NoDoc /\ \A q \in 1 .. r - 1 : doc[q] # NoDoc

DocRowOf(d) == {r \in DocRows : doc[r].did = d}

DocMarked(rows, status) ==
    [r \in DocRows |-> IF r \in rows THEN [doc[r] EXCEPT !.status = status] ELSE doc[r]]

(* Rows of a policy in force, VALID (here ACTIVE too) ones of a PUC         *)
ActiveRows(k) ==
    {r \in DocRows : doc[r].kind = k /\ doc[r].status = "ACTIVE" /\ (k = "puc" => doc[r].passed)}

-----------------------------------------------------------------------------
(* The chain; also what a gas estimate tests                                *)

InForcePaper(d) == d # 0 /\ paper[d].valid /\ ~paper[d].past

DocAccepted(op, d) ==
    CASE op = "issuePolicy"        -> ~scrapped /\ ~InForcePaper(current["policy"])
      [] op \in DOMAIN Issues      -> ~scrapped
      [] op = "fileClaim"          -> InForcePaper(d) /\ paper[d].claims < ClaimCap
      [] OTHER                     -> paper[d].past

NextPaper(d) == paper[d] = NoPaper /\ \A c \in 1 .. d - 1 : paper[c] # NoPaper

(* A document in force gives way to the new one; a failed test replaces none. *)
MineIssueDoc(t, d) ==
    LET k == Issues[tx[t].op]
        failed == tx[t].op = "issueFailedPUC"
    IN
    /\ tx[t].chain = "pool" /\ tx[t].op \in DOMAIN Issues /\ DocAccepted(tx[t].op, 0)
    /\ NextPaper(d)
    /\ paper' = [e \in Docs |->
                   IF e = d THEN [NoPaper EXCEPT !.kind = k, !.valid = ~failed,
                                                 !.passed = ~failed, !.past = failed]
                   ELSE IF ~failed /\ e = current[k] THEN [paper[e] EXCEPT !.valid = FALSE]
                   ELSE paper[e]]
    /\ current' = [current EXCEPT ![k] = IF failed THEN @ ELSE d]
    /\ Mined(t, d)
    /\ UNCHANGED <<ending, scrapped, doc>>

MineExpire(t) ==
    /\ tx[t].chain = "pool" /\ tx[t].op \in DOMAIN Expires /\ DocAccepted(tx[t].op, tx[t].id)
    /\ paper' = [paper EXCEPT ![tx[t].id].valid = FALSE]
    /\ Mined(t, tx[t].id)
    /\ UNCHANGED <<current, ending, scrapped, doc>>

(* ClaimFiled carries the new total.                                        *)
MineClaim(t) ==
    LET d == tx[t].id IN
    /\ InPool(t, "fileClaim") /\ DocAccepted("fileClaim", d)
    /\ paper' = [paper EXCEPT ![d].claims = @ + 1]
    /\ tx' = [tx EXCEPT ![t].chain = "mined", ![t].event = "ready", ![t].by = paper'[d].claims]
    /\ UNCHANGED <<sweep, crashes, losses, current, ending, scrapped, doc>>

DocTxReverts(t) ==
    /\ TxReverts(t)
    /\ UNCHANGED docRest

(* scrapVehicle terminates what is current.                                 *)
ScrapTerminates ==
    LET over == {d \in Docs : paper[d].valid /\ \E k \in Kinds : current[k] = d} IN
    /\ ~scrapped /\ scrapped' = TRUE
    /\ paper' = [d \in Docs |-> IF d \in over THEN [paper[d] EXCEPT !.valid = FALSE] ELSE paper[d]]
    /\ ending' = over
    /\ UNCHANGED <<relayVars, current, doc>>

(* The date of a document passes, on chain and in the row made for it.      *)
DatePasses(d) ==
    LET madeFor == {r \in DocRows : doc[r].did = d
                      \/ \E t \in Txs : tx[t].op \in DOMAIN Issues /\ tx[t].id = d /\ tx[t].link = r}
    IN
    /\ paper[d] # NoPaper /\ ~paper[d].past
    /\ paper' = [paper EXCEPT ![d].past = TRUE]
    /\ doc' = [r \in DocRows |-> IF r \in madeFor THEN [doc[r] EXCEPT !.past = TRUE] ELSE doc[r]]
    /\ UNCHANGED <<relayVars, current, ending, scrapped>>

-----------------------------------------------------------------------------
(* The services                                                             *)

RequestIssue(t, op) ==
    /\ DocAccepted(op, 0)
    /\ SubmitEntityTx(t, op, 0, 0, 0)
    /\ UNCHANGED docRest

(* The row of the vehicle may be stale: the gas estimate asks the chain.    *)
IssuePolicyDoc(t) ==
    /\ \A r \in ActiveRows("policy") : doc[r].past
    /\ RequestIssue(t, "issuePolicy")

IssuePucDoc(t, op) == op \in {"issuePUC", "issueFailedPUC"} /\ RequestIssue(t, op)

CreateIssueTx(t, r) ==
    /\ tx[t].call = "sent" /\ tx[t].op \in DOMAIN Issues /\ NextDocRow(r)
    /\ StoreTx(t, r)
    /\ doc' = [doc EXCEPT ![r] = [NoDoc EXCEPT !.kind = Issues[tx[t].op], !.status = "ACTIVE",
                                               !.passed = tx[t].op # "issueFailedPUC",
                                               !.past = tx[t].op = "issueFailedPUC"]]
    /\ UNCHANGED <<paper, current, ending, scrapped>>

CreatePendingPolicyTx(t, r) == OfPolicy(t) /\ CreateIssueTx(t, r)
CreatePendingPucTx(t, r) == OfPuc(t) /\ CreateIssueTx(t, r)

MarkExpired(t, r, op) ==
    /\ op \in DOMAIN Expires /\ doc[r].kind = Expires[op]
    /\ doc[r].status \notin {"EXPIRED", "deleted"} /\ doc[r].past /\ doc[r].did # 0
    /\ DocAccepted(op, doc[r].did)
    /\ SubmitEntityTx(t, op, doc[r].did, 0, r)
    /\ UNCHANGED docRest

MarkPolicyExpired(t, r) == MarkExpired(t, r, "expirePolicy")
MarkPucExpired(t, r) == MarkExpired(t, r, "expirePUC")

FileClaimOn(t, r) ==
    /\ doc[r].kind = "policy" /\ doc[r].status = "ACTIVE" /\ ~doc[r].past
    /\ doc[r].claims < ClaimCap /\ doc[r].did # 0
    /\ DocAccepted("fileClaim", doc[r].did)
    /\ SubmitEntityTx(t, "fileClaim", doc[r].did, 0, r)
    /\ UNCHANGED docRest

CreateDocTx(t, op) == Storing(t, op) /\ StoreTx(t, tx[t].link) /\ UNCHANGED docRest

CreatePolicyExpireTx(t) == CreateDocTx(t, "expirePolicy")
CreatePucExpireTx(t) == CreateDocTx(t, "expirePUC")
CreateClaimTx(t) == CreateDocTx(t, "fileClaim")

-----------------------------------------------------------------------------
(* The indexer                                                              *)

DocIssuedRead(t) ==
    /\ tx[t].event = "ready" /\ tx[t].op \in DOMAIN Issues /\ ReadBy(t)
    /\ UNCHANGED docRest

HandlePolicyIssued(t) == OfPolicy(t) /\ DocIssuedRead(t)
HandlePUCIssued(t) == OfPuc(t) /\ DocIssuedRead(t)

(* The row the service created takes its id and becomes ACTIVE; else one is  *)
(* upserted by id (without ownTid), but of a PUC only if the transaction row *)
(* exists: it is where the handler finds the centre.                        *)
DocIssuedWrite(t) ==
    LET d == tx[t].id
        r == tx[t].seen
    IN
    /\ tx[t].op \in DOMAIN Issues /\ SeenBy(t) /\ AppliedBy(t)
    /\ \/ /\ r # 0 /\ DocRowOf(d) \subseteq {r}
          /\ doc' = [doc EXCEPT ![r].did = d, ![r].status = "ACTIVE"]
       \/ /\ r = 0 /\ paper[d].kind = "policy"
          /\ \E q \in DocRows :
               /\ IF DocRowOf(d) # {} THEN q \in DocRowOf(d) ELSE NextDocRow(q)
               /\ doc' = [doc EXCEPT ![q].kind = "policy", ![q].did = d, ![q].passed = TRUE,
                                     ![q].past = paper[d].past, ![q].status = "ACTIVE"]
       \/ r = 0 /\ paper[d].kind = "puc" /\ UNCHANGED doc
    /\ UNCHANGED <<paper, current, ending, scrapped>>

DocIssuedFails(t) ==
    /\ tx[t].op \in DOMAIN Issues /\ SeenBy(t) /\ Swallowed(t)
    /\ tx[t].seen # 0 /\ ~(DocRowOf(tx[t].id) \subseteq {tx[t].seen})
    /\ UNCHANGED docRest

HandleDocExpired(t) ==
    /\ tx[t].event = "ready" /\ tx[t].op \in DOMAIN Expires /\ AppliedBy(t)
    /\ doc' = DocMarked(DocRowOf(tx[t].id), "EXPIRED")
    /\ UNCHANGED <<paper, current, ending, scrapped>>

HandlePolicyExpired(t) == OfPolicy(t) /\ HandleDocExpired(t)
HandlePUCExpired(t) == OfPuc(t) /\ HandleDocExpired(t)

(* Fault: the claims are counted again instead of taken from the event.     *)
HandleClaimCounted(t) ==
    /\ Arrived(t, "fileClaim") /\ AppliedBy(t)
    /\ doc' = [r \in DocRows |-> IF doc[r].did = tx[t].id
                                 THEN [doc[r] EXCEPT !.claims = @ + 1] ELSE doc[r]]
    /\ UNCHANGED <<paper, current, ending, scrapped>>

HandleClaimFiled(t) ==
    /\ Arrived(t, "fileClaim") /\ AppliedBy(t)
    /\ doc' = [r \in DocRows |-> IF doc[r].did = tx[t].id
                                 THEN [doc[r] EXCEPT !.claims = tx[t].by] ELSE doc[r]]
    /\ UNCHANGED <<paper, current, ending, scrapped>>

Over == [policy |-> "CANCELLED", puc |-> "EXPIRED"]

(* Fault: the row found by the vehicle keeps its own id.                    *)
TerminatedUnidentified(r, d) == [doc EXCEPT ![r].status = Over[paper[d].kind]]

(* A row not found by id is looked for among the vehicle's active ones, and *)
(* takes the id.                                                            *)
TerminatedRow(r, d) == [doc EXCEPT ![r].status = Over[paper[d].kind], ![r].did = d]

HandleTerminated(d) ==
    LET found == IF DocRowOf(d) # {} THEN DocRowOf(d) ELSE ActiveRows(paper[d].kind) IN
    /\ d \in ending /\ ending' = ending \ {d}
    /\ IF found = {} THEN UNCHANGED doc ELSE \E r \in found : doc' = TerminatedRow(r, d)
    /\ UNCHANGED <<relayVars, paper, current, scrapped>>

HandlePolicyTerminated(d) == paper[d].kind = "policy" /\ HandleTerminated(d)
HandlePUCTerminated(d) == paper[d].kind = "puc" /\ HandleTerminated(d)

(* No transaction row stands for a termination: nothing replays it.         *)
LoseTermination(d) ==
    /\ d \in ending /\ losses < MaxLosses
    /\ ending' = ending \ {d} /\ losses' = losses + 1
    /\ UNCHANGED <<tx, sweep, crashes, paper, current, scrapped, doc>>

-----------------------------------------------------------------------------
(* The sweep                                                                *)

ReplayDocIssue(t) ==
    LET r == tx[t].link IN
    /\ Sweepable(t) /\ tx[t].chain = "mined" /\ tx[t].op \in DOMAIN Issues /\ Replayed(t)
    /\ DocRowOf(tx[t].id) \subseteq {r}
    /\ doc' = [doc EXCEPT ![r].did = tx[t].id, ![r].status = "ACTIVE"]
    /\ UNCHANGED <<paper, current, ending, scrapped>>

ReplayPolicyIssue(t) == OfPolicy(t) /\ ReplayDocIssue(t)
ReplayPucIssue(t) == OfPuc(t) /\ ReplayDocIssue(t)

ReplayDocExpire(t) ==
    /\ Sweepable(t) /\ tx[t].chain = "mined" /\ tx[t].op \in DOMAIN Expires /\ Replayed(t)
    /\ doc' = DocMarked({tx[t].link}, "EXPIRED")
    /\ UNCHANGED <<paper, current, ending, scrapped>>

ReplayPolicyExpire(t) == OfPolicy(t) /\ ReplayDocExpire(t)
ReplayPucExpire(t) == OfPuc(t) /\ ReplayDocExpire(t)

ReplayClaim(t) ==
    /\ FoundMined(t, "fileClaim") /\ Replayed(t)
    /\ doc' = [doc EXCEPT ![tx[t].link].claims = tx[t].by]
    /\ UNCHANGED <<paper, current, ending, scrapped>>

RollBackDocIssue(t) ==
    /\ sweep = t /\ tx[t].op \in DOMAIN Issues
    /\ sweep' = 0 /\ tx' = Cascaded({tx[t].link}) /\ UNCHANGED <<crashes, losses>>
    /\ doc' = [doc EXCEPT ![tx[t].link] = [NoDoc EXCEPT !.status = "deleted"]]
    /\ UNCHANGED <<paper, current, ending, scrapped>>

RollBackPolicyIssue(t) == OfPolicy(t) /\ RollBackDocIssue(t)
RollBackPucIssue(t) == OfPuc(t) /\ RollBackDocIssue(t)

RollBackDocExpire(t) ==
    /\ sweep = t /\ tx[t].op \in DOMAIN Expires /\ RolledBack
    /\ doc' = DocMarked({tx[t].link}, "ACTIVE")
    /\ UNCHANGED <<paper, current, ending, scrapped>>

RollBackPolicyExpire(t) == OfPolicy(t) /\ RollBackDocExpire(t)
RollBackPucExpire(t) == OfPuc(t) /\ RollBackDocExpire(t)

(* The count is taken down by one, though filing did not put it up.         *)
RollBackClaim(t) ==
    /\ RollingBack(t, "fileClaim") /\ RolledBack
    /\ doc' = [doc EXCEPT ![tx[t].link].claims = @ - 1]
    /\ UNCHANGED <<paper, current, ending, scrapped>>

-----------------------------------------------------------------------------
DocRequest(t) ==
    \/ IssuePolicyDoc(t) \/ \E op \in DOMAIN Issues : IssuePucDoc(t, op)
    \/ \E r \in DocRows : FileClaimOn(t, r) \/ MarkPolicyExpired(t, r) \/ MarkPucExpired(t, r)

DocStore(t) ==
    \/ CreatePolicyExpireTx(t) \/ CreatePucExpireTx(t) \/ CreateClaimTx(t)
    \/ \E r \in DocRows : CreatePendingPolicyTx(t, r) \/ CreatePendingPucTx(t, r)

DocMine(t) ==
    MineExpire(t) \/ MineClaim(t) \/ DocTxReverts(t) \/ \E d \in Docs : MineIssueDoc(t, d)

DocHandle(t) ==
    \/ HandlePolicyIssued(t) \/ HandlePUCIssued(t) \/ DocIssuedWrite(t) \/ DocIssuedFails(t)
    \/ HandlePolicyExpired(t) \/ HandlePUCExpired(t) \/ HandleClaimFiled(t)

DocReplay(t) ==
    \/ ReplayPolicyIssue(t) \/ ReplayPucIssue(t)
    \/ ReplayPolicyExpire(t) \/ ReplayPucExpire(t) \/ ReplayClaim(t)

DocRollBack(t) ==
    \/ RollBackPolicyIssue(t) \/ RollBackPucIssue(t)
    \/ RollBackPolicyExpire(t) \/ RollBackPucExpire(t) \/ RollBackClaim(t)

DocNext ==
    \/ \E t \in Txs :
         \/ DocRequest(t) \/ DocStore(t) \/ DocMine(t)
         \/ DocHandle(t) \/ DocReplay(t) \/ DocRollBack(t)
         \/ RelayStep(t) /\ UNCHANGED docRest
    \/ \E d \in Docs :
         HandlePolicyTerminated(d) \/ HandlePUCTerminated(d) \/ LoseTermination(d) \/ DatePasses(d)
    \/ ScrapTerminates
    \/ Crash /\ UNCHANGED docRest

DocSpec == DocInit /\ [][DocNext]_docVars

-----------------------------------------------------------------------------
(* Properties                                                               *)

(* The handler of a termination may take a row by its vehicle alone, rows   *)
(* are ACTIVE before they are on chain, roll-backs restore them: still no   *)
(* document is shown ended that could be in force.                          *)
DocumentsMatchChain ==
    \A r \in DocRows : doc[r].status \in {"EXPIRED", "CANCELLED"} =>
        doc[r].did # 0 /\ ~paper[doc[r].did].valid

(* Events of claims are handled in any order and some of them twice, the     *)
(* sweep repeats the write of each, and a roll-back takes down a count that *)
(* was not put up: until a termination may have taken a row for another     *)
(* document's, no row counts more claims than were filed on its document,   *)
(* and a row without a document counts none.                                *)
ClaimsNotAhead ==
    ~scrapped => \A r \in DocRows :
        doc[r].claims <= (IF doc[r].did = 0 THEN 0 ELSE paper[doc[r].did].claims)

=============================================================================
