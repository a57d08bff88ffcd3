----------------------------- MODULE MCVehicleSystem -----------------------------
(***************************************************************************)
(* VehicleSystem for TLC.  The sets of the instance are in the .cfg files; *)
(* citizens and vehicles are interchangeable in all of them.               *)
(***************************************************************************)
EXTENDS VehicleSystem, TLC

Symmetry == Permutations(Users) \cup Permutations(Vehicles)

(* Bound of the run on compliance: fines on several vehicles at one moment, *)
(* or documents of one vehicle over time; only the entities of the topic    *)
(* are suspended.                                                           *)
NoneSuspended(registry) == \A e \in DOMAIN registry : registry[e] # "inactive"

FinesOnly == now = 0 /\ InsuranceInit /\ PUCInit /\ NoneSuspended(mfgStatus)

DocumentsOnly ==
    /\ ChallanInit /\ Cardinality({d \in Vehicles : DvpExists(d)}) <= 1
    /\ NoneSuspended(rto) /\ NoneSuspended(scrapStatus)

OneTopic == FinesOnly \/ DocumentsOnly

(* Bound of the run on titles: one vehicle over time, at the last moment     *)
(* without fines, or several at one moment, each sold once at most, without *)
(* fines, failed tests and revoked dealers.                                 *)
OneVehicle ==
    /\ Cardinality({d \in Vehicles : DvpExists(d)}) <= 1
    /\ now = 2 => ChallanInit
    /\ \A p \in PolicyIds : policy[p].expiry <= 2
    /\ \A n \in CertIds : puc[n].expiry <= 2
    /\ \A dl \in Dealers : tradeCert[dl].validTill <= 1

OneMoment ==
    /\ now = 0 /\ ChallanInit
    /\ \A t \in Tokens : own[t].xferCnt <= 1
    /\ \A p \in PolicyIds : policy[p].expiry <= 1
    /\ \A n \in CertIds : puc[n] = NoPUC \/ puc[n].expiry = 1
    /\ \A dl \in Dealers : tradeCert[dl].validTill = IF tradeCert[dl].active THEN 1 ELSE 0

VehicleOrMoment == OneVehicle \/ OneMoment
=============================================================================
