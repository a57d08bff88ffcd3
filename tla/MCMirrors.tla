------------------------------- MODULE MCMirrors -------------------------------
(***************************************************************************)
(* The mirrors for TLC: one kind of record at a time, over the transactions *)
(* of Relay they share, and the front end, which mirrors the rows in its    *)
(* cache and the session in its windows. `focus` says which, and the others *)
(* do not move.                                                             *)
(***************************************************************************)
EXTENDS ChallanMirror, LoanMirror, DocumentMirror, TitleMirror, TradeCertMirror, Portal,
        SignIn

VARIABLE focus

fineRest == <<challan, fine, checkout, initiating>>
recordVars == <<relayVars, fineRest, lenderRest, docRest, titleRest, certRest>>
webVars == <<portalVars, signInVars>>

vars == <<recordVars, webVars, focus>>

Init ==
    /\ FineInit /\ LenderInit /\ DocInit /\ TitleInit /\ CertInit /\ PortalInit
    /\ SignInInit
    /\ focus \in {"fines", "loans", "documents", "title", "certificate", "portal",
                 "signIn"}
    /\ focus # "title" => car.status = "none"
    /\ focus # "portal" => page = TradeCertsPage /\ watched = "rtoCerts"

Next ==
    \/ /\ focus = "fines" /\ FineNext
       /\ UNCHANGED <<lenderRest, docRest, titleRest, certRest, webVars, focus>>
    \/ /\ focus = "loans" /\ LenderNext
       /\ UNCHANGED <<fineRest, docRest, titleRest, certRest, webVars, focus>>
    \/ /\ focus = "documents" /\ DocNext
       /\ UNCHANGED <<fineRest, lenderRest, titleRest, certRest, webVars, focus>>
    \/ /\ focus = "title" /\ TitleNext
       /\ UNCHANGED <<fineRest, lenderRest, docRest, certRest, webVars, focus>>
    \/ /\ focus = "certificate" /\ CertNext
       /\ UNCHANGED <<fineRest, lenderRest, docRest, titleRest, webVars, focus>>
    \/ /\ focus = "portal" /\ PortalNext
       /\ UNCHANGED <<recordVars, signInVars, focus>>
    \/ /\ focus = "signIn" /\ SignInNext
       /\ UNCHANGED <<recordVars, portalVars, focus>>

Spec == Init /\ [][Next]_vars

(* Bounds of the run: two transactions where there are many rows or states  *)
(* besides, elsewhere a third once the first is settled, with one row of a  *)
(* fine, and one fewer when a crash or a lost event is met, of which there  *)
(* is one; one document passes its end, while there is one kind of them;    *)
(* two events of wallets unhandled. Of the windows one has a request on its *)
(* way; a token or a session ends once, before a second session is opened;  *)
(* the vehicle is registered once somebody passed KYC; after the last       *)
(* session nothing else is asked for. The accounts are alike, so the first  *)
(* session is of any one of them.                                           *)
LastTx == IF focus \in {"documents", "title"} THEN 2 ELSE MaxTxs

Settled(t) == tx[t].row \in {"MINED", "FAILED"} /\ tx[t].event \in {"none", "handled"}

Faults ==
    /\ \A t \in Txs : t > LastTx => tx[t] = NoTx
    /\ tx[MaxTxs] # NoTx => Settled(1) /\ sweep # 1
    /\ crashes + losses > 0 => crashes + losses = 1 /\ tx[LastTx] = NoTx
    /\ tx[MaxTxs] # NoTx => fine[MaxRows] = NoFine
    /\ Cardinality({d \in Docs : paper[d].past}) <=
         (IF \A d, e \in Docs : {paper[d].kind, paper[e].kind} # Kinds THEN 1 ELSE 0)
    /\ Cardinality(echo) <= 2
    /\ Cardinality({w \in Windows : attempt[w].at \notin {"idle", "signing"}}) <= 1
    /\ Cardinality(lapsed) + Cardinality(ended) <= (IF Len(opened) > 1 THEN 0 ELSE 1)
    /\ holder # Nobody => verified # {}
    /\ opened # <<>> => opened[1].user = CHOOSE a \in Accounts : TRUE
    /\ Len(opened) = MaxOpened =>
         \A w \in Windows : attempt[w].at \in {"idle", "granted", "denied"}

TypeOK ==
    CASE focus = "fines"     -> FineTypeOK
      [] focus = "loans"     -> LenderTypeOK
      [] focus = "documents" -> DocTypeOK
      [] focus = "title"     -> TitleTypeOK
      [] focus = "portal"    -> PortalTypeOK
      [] focus = "signIn"    -> SignInTypeOK
      [] OTHER               -> CertTypeOK
=============================================================================
