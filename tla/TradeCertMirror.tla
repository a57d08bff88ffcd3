---------------------------- MODULE TradeCertMirror ----------------------------
(***************************************************************************)
(* The trade certificate of one dealer in the database: the RTO's service,  *)
(* the indexer's handlers and the sweep. A dealer's certificates are found  *)
(* by wallet, so no query reads those of two dealers. An RTO's service      *)
(* serves the dealers who chose that RTO, once, when they were verified.    *)
(* The certificate does not expire here.                                    *)
(***************************************************************************)
EXTENDS Relay

CONSTANT MaxIssues  \* bound: certificates issued on chain

ASSUME TradeCertAssumption == MaxIssues \in Nat

VARIABLES
    permit,  \* OwnershipToken.tradeCerts of the dealer: certificates issued so
             \* far, and whether the last one is active
    cert     \* the TradeCert row

certRest == <<permit, cert>>
certVars == <<relayVars, permit, cert>>

CertInit ==
    /\ RelayInit
    /\ permit = [issued |-> 0, active |-> FALSE]
    /\ cert = [made |-> FALSE, active |-> FALSE]

CertTx == [op : {"none", "issueTradeCert", "revokeTradeCert"}, id : {0}, by : {0}, link : {0, 1},
           chain : {"unsent", "pool", "mined", "reverted"}, call : {"idle", "sent"},
           row : {"absent", "PENDING", "MINED", "FAILED"},
           event : {"none", "ready", "read", "applied", "handled", "lost"}, seen : {0, 1}]

CertTypeOK ==
    /\ tx \in [Txs -> CertTx]
    /\ sweep \in Txs \cup {0} /\ crashes \in 0 .. MaxCrashes /\ losses \in 0 .. MaxLosses
    /\ permit \in [issued : 0 .. MaxIssues, active : BOOLEAN]
    /\ cert \in [made : BOOLEAN, active : BOOLEAN]

Show(active) == cert' = [cert EXCEPT !.active = active]

-----------------------------------------------------------------------------
(* The chain; also what a gas estimate tests                                *)

CertAccepts(op) == IF op = "issueTradeCert" THEN ~permit.active ELSE permit.active

MineCert(t) ==
    /\ tx[t].chain = "pool" /\ CertAccepts(tx[t].op)
    /\ \/ /\ tx[t].op = "issueTradeCert" /\ permit.issued < MaxIssues
          /\ permit' = [issued |-> permit.issued + 1, active |-> TRUE]
       \/ /\ tx[t].op = "revokeTradeCert"
          /\ permit' = [permit EXCEPT !.active = FALSE]
    /\ Mined(t, 0)
    /\ UNCHANGED cert

CertTxReverts(t) ==
    /\ TxReverts(t)
    /\ UNCHANGED certRest

-----------------------------------------------------------------------------
(* The RTO's service                                                        *)

IssueTradeCert(t) ==
    /\ ~cert.active /\ CertAccepts("issueTradeCert")
    /\ SubmitEntityTx(t, "issueTradeCert", 0, 0, 1)
    /\ UNCHANGED certRest

(* Fault: the certificate is shown at once.                                 *)
CreateTradeCertEarly(t) ==
    /\ Storing(t, "issueTradeCert") /\ StoreTx(t, 1)
    /\ cert' = [made |-> TRUE, active |-> TRUE]
    /\ UNCHANGED permit

(* The row found by the wallet, or a new one, waits for the chain.          *)
CreateTradeCertTx(t) ==
    /\ Storing(t, "issueTradeCert") /\ StoreTx(t, 1)
    /\ cert' = [made |-> TRUE, active |-> FALSE]
    /\ UNCHANGED permit

RevokeTradeCert(t) ==
    /\ cert.active /\ CertAccepts("revokeTradeCert")
    /\ SubmitEntityTx(t, "revokeTradeCert", 0, 0, 1)
    /\ UNCHANGED certRest

CreateRevokeTradeCertTx(t) ==
    /\ Storing(t, "revokeTradeCert") /\ StoreTx(t, 1)
    /\ UNCHANGED certRest

-----------------------------------------------------------------------------
(* The indexer                                                              *)

HandleTradeCertIssued(t) ==
    /\ Arrived(t, "issueTradeCert") /\ AppliedBy(t)
    /\ cert' = [made |-> TRUE, active |-> TRUE]
    /\ UNCHANGED permit

HandleTradeCertRevoked(t) ==
    /\ Arrived(t, "revokeTradeCert") /\ AppliedBy(t)
    /\ Show(FALSE)
    /\ UNCHANGED permit

-----------------------------------------------------------------------------
(* The sweep                                                                *)

ReplayCertIssue(t) ==
    /\ FoundMined(t, "issueTradeCert") /\ Replayed(t) /\ Show(TRUE) /\ UNCHANGED permit

ReplayCertRevoke(t) ==
    /\ FoundMined(t, "revokeTradeCert") /\ Replayed(t) /\ Show(FALSE) /\ UNCHANGED permit

RollBackCertIssue(t) ==
    /\ RollingBack(t, "issueTradeCert") /\ RolledBack /\ Show(FALSE) /\ UNCHANGED permit

RollBackCertRevoke(t) ==
    /\ RollingBack(t, "revokeTradeCert") /\ RolledBack /\ Show(TRUE) /\ UNCHANGED permit

-----------------------------------------------------------------------------
CertStore(t) == CreateTradeCertTx(t) \/ CreateRevokeTradeCertTx(t)

CertReplay(t) == ReplayCertIssue(t) \/ ReplayCertRevoke(t)

CertRollBack(t) == RollBackCertIssue(t) \/ RollBackCertRevoke(t)

CertNext ==
    \/ \E t \in Txs :
         \/ IssueTradeCert(t) \/ RevokeTradeCert(t) \/ CertStore(t)
         \/ MineCert(t) \/ CertTxReverts(t)
         \/ HandleTradeCertIssued(t) \/ HandleTradeCertRevoked(t)
         \/ CertReplay(t) \/ CertRollBack(t)
         \/ RelayStep(t) /\ UNCHANGED certRest
    \/ Crash /\ UNCHANGED certRest

CertSpec == CertInit /\ [][CertNext]_certVars

-----------------------------------------------------------------------------
(* Properties                                                               *)

(* Whatever is replayed, rolled back or handled twice, a dealer shown as     *)
(* certified has been certified on chain. After a revocation the row may be *)
(* stale either way: a second revocation that reverts restores it.          *)
CertNotAhead == cert.active => permit.issued > 0
=============================================================================
