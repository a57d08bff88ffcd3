------------------------------- MODULE VehicleLib -------------------------------
(***************************************************************************)
(* What the six contracts share: block time, the status of a registered    *)
(* entity (RTO, manufacturer, scrap centre, police station, insurer, PUC   *)
(* centre) and the SYSTEM_ROLE grants that let one contract call another.  *)
(*                                                                         *)
(* A transaction is atomic: a revert undoes it whole, so a call that       *)
(* reverts is an action that is not enabled.                               *)
(***************************************************************************)
EXTENDS Integers, FiniteSets

CONSTANTS
    Nobody,        \* the zero address, and the zero of every other mapping
    Admin,         \* holder of ADMIN_ROLE: the MoRTH multi-signature wallet
    MaxTime,       \* bound: the last block time explored
    AdminScope,    \* bound: the entities Admin registers and toggles in a run;
                   \*        the others start registered and active
    SystemGrants   \* pairs <<callee, caller>> that hold SYSTEM_ROLE

VARIABLE now       \* block.timestamp, in abstract units

ASSUME TimeAssumption == MaxTime \in Nat

Clock == 0 .. MaxTime

(* A date a caller may pass; MaxTime + 1 never passes within the bound.     *)
Dates == 0 .. MaxTime + 1

Tick == now < MaxTime /\ now' = now + 1

HasSystemRole(callee, caller) == <<callee, caller>> \in SystemGrants

-----------------------------------------------------------------------------
(* An entity is its wallet; wallet, code and id are one-to-one in every     *)
(* registry but the banks' (see LoanContract), and the entity's role is     *)
(* granted and revoked together with its active flag.                      *)
EntityStatus == {"unregistered", "active", "inactive"}

InitialStatus(e) == IF e \in AdminScope THEN "unregistered" ELSE "active"

(* regRTO, regMfg, regScrap, regPolice, regIns, regCenter                   *)
Registered(registry, e) ==
    [registry EXCEPT ![e] = IF @ = "unregistered" THEN "active" ELSE @]

(* toggleRTOStatus and its five twins                                       *)
Toggled(registry, e) ==
    [registry EXCEPT ![e] = IF @ = "active" THEN "inactive"
                            ELSE IF @ = "inactive" THEN "active" ELSE @]

(* One call of the administrator on an entity: its registration if it is    *)
(* unknown, a toggle of its status if it is known.                          *)
AdminCall(registry, e) ==
    IF registry[e] = "unregistered" THEN Registered(registry, e)
                                    ELSE Toggled(registry, e)
=============================================================================
