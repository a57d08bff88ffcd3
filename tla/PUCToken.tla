-------------------------------- MODULE PUCToken --------------------------------
(***************************************************************************)
(* PUCToken.sol: emission certificates.  Every test is recorded; only a    *)
(* passed one becomes the title's current certificate.                     *)
(***************************************************************************)
EXTENDS OwnershipToken

CONSTANTS
    Centres,      \* PUC centre wallets
    MaxCerts      \* bound: certificate ids

ASSUME PUCAssumption == MaxCerts \in Nat /\ Nobody \notin Centres

VARIABLES
    centreStatus, \* status of each centre
    certCtr,      \* _certCtr
    puc,          \* pucs
    ownToPUC      \* ownToPUC: the latest passed certificate, 0 if none

pucVars == <<centreStatus, certCtr, puc, ownToPUC>>

CertIds == 1 .. MaxCerts

PUCRecord == [ownTid : 0 .. MaxTokens, expiry : Dates, passed : BOOLEAN, valid : BOOLEAN]
NoPUC     == [ownTid |-> 0, expiry |-> 0, passed |-> FALSE, valid |-> FALSE]

PUCTypeOK ==
    /\ centreStatus \in [Centres -> EntityStatus]
    /\ certCtr \in 0 .. MaxCerts
    /\ puc \in [CertIds -> PUCRecord]
    /\ ownToPUC \in [Tokens -> 0 .. MaxCerts]

PUCInit ==
    /\ centreStatus = [c \in Centres |-> InitialStatus(c)]
    /\ certCtr = 0
    /\ puc = [c \in CertIds |-> NoPUC]
    /\ ownToPUC = [t \in Tokens |-> 0]

IsPUCValid(t) ==
    /\ ownToPUC[t] # 0
    /\ puc[ownToPUC[t]].valid /\ puc[ownToPUC[t]].passed
    /\ now <= puc[ownToPUC[t]].expiry

-----------------------------------------------------------------------------
AdminCentre(c) ==
    /\ centreStatus' = AdminCall(centreStatus, c)
    /\ UNCHANGED <<certCtr, puc, ownToPUC>>

(* Fault: a failed test becomes the current certificate too.                *)
CurrentIsLatest(t, passed) == [ownToPUC EXCEPT ![t] = certCtr + 1]

CurrentAfter(t, passed) ==
    IF passed THEN [ownToPUC EXCEPT ![t] = certCtr + 1] ELSE ownToPUC

RecordTest(t, passed, expiry) ==
    /\ certCtr < MaxCerts
    /\ certCtr' = certCtr + 1
    /\ puc' = [c \in CertIds |->
                 IF c = certCtr' THEN [ownTid |-> t, passed |-> passed, valid |-> passed,
                                       expiry |-> IF passed THEN expiry ELSE 0]
                 ELSE IF passed /\ c = ownToPUC[t] THEN [puc[c] EXCEPT !.valid = FALSE]
                 ELSE puc[c]]
    /\ ownToPUC' = CurrentAfter(t, passed)

(* withinLimits: CO, HC and smoke are within the BSVI bounds.               *)
IssuePUC(c, t, expiry, withinLimits, passed) ==
    /\ centreStatus[c] = "active"
    /\ passed => now < expiry /\ withinLimits
    /\ ExistsAndIsActive(t)
    /\ RecordTest(t, passed, expiry)
    /\ UNCHANGED centreStatus

(* Any centre may mark any expired certificate; a failed one expires at 0.  *)
MarkPUCExpired(c, n) ==
    /\ centreStatus[c] = "active"
    /\ n <= certCtr
    /\ now > puc[n].expiry
    /\ puc' = [puc EXCEPT ![n].valid = FALSE]
    /\ UNCHANGED <<centreStatus, certCtr, ownToPUC>>

(* Fault: scrapVehicle leaves the certificate alone.                        *)
KeepPUC(t) == UNCHANGED pucVars

(* Called by DigitalVehiclePassport.scrapVehicle                            *)
TerminatePUC(t) ==
    /\ HasSystemRole("puc", "dvp")
    /\ puc' = [n \in CertIds |->
                 IF n = ownToPUC[t] THEN [puc[n] EXCEPT !.valid = FALSE] ELSE puc[n]]
    /\ UNCHANGED <<centreStatus, certCtr, ownToPUC>>
=============================================================================
