---------------------------- MODULE ChallanContract ----------------------------
(***************************************************************************)
(* ChallanContract.sol: traffic fines (challans) per title, with two O(1)  *)
(* counters per title -- pending fines and their total -- that the rest of *)
(* the system reads instead of the list.                                   *)
(*                                                                         *)
(* challans[ownTid] and the index that _findChallan decodes are modelled   *)
(* as one function from challan id to its record, which names its title.   *)
(***************************************************************************)
EXTENDS OwnershipToken, FiniteSetsExt

CONSTANTS
    PoliceStations,  \* police station wallets
    Amounts,         \* the amounts a fine may have
    MaxChallans      \* bound: challan ids

ASSUME ChallanAssumption ==
    MaxChallans \in Nat /\ Amounts \subseteq Nat \ {0} /\ Nobody \notin PoliceStations

VARIABLES
    policeStatus,    \* status of each police station
    challanCtr,      \* _challanCtr
    challan,         \* the issued challans
    pendingCount,    \* pendingChallanCount
    pendingAmount    \* pendingAmount

challanVars == <<policeStatus, challanCtr, challan, pendingCount, pendingAmount>>

ChallanIds == 1 .. MaxChallans

ChallanRecord == [ownTid : 0 .. MaxTokens, police : PoliceStations \cup {Nobody},
                  amount : Amounts \cup {0}, isPaid : BOOLEAN, isCancelled : BOOLEAN]
NoChallan     == [ownTid |-> 0, police |-> Nobody, amount |-> 0,
                  isPaid |-> FALSE, isCancelled |-> FALSE]

ChallanTypeOK ==
    /\ policeStatus \in [PoliceStations -> EntityStatus]
    /\ challanCtr \in 0 .. MaxChallans
    /\ challan \in [ChallanIds -> ChallanRecord]
    /\ pendingCount \in [Tokens -> Nat]
    /\ pendingAmount \in [Tokens -> Nat]

ChallanInit ==
    /\ policeStatus = [p \in PoliceStations |-> InitialStatus(p)]
    /\ challanCtr = 0
    /\ challan = [c \in ChallanIds |-> NoChallan]
    /\ pendingCount = [t \in Tokens |-> 0]
    /\ pendingAmount = [t \in Tokens |-> 0]

HasPendingChallans(t) == pendingCount[t] > 0

(* A challan of title t that is neither paid nor cancelled                  *)
Unsettled(c, t) ==
    challan[c].ownTid = t /\ ~challan[c].isPaid /\ ~challan[c].isCancelled

UnsettledOf(t) == {c \in ChallanIds : Unsettled(c, t)}

-----------------------------------------------------------------------------
AdminPolice(p) ==
    /\ policeStatus' = AdminCall(policeStatus, p)
    /\ UNCHANGED <<challanCtr, challan, pendingCount, pendingAmount>>

IssueChallan(p, t, amount) ==
    /\ policeStatus[p] = "active"
    /\ ExistsAndIsActive(t)
    /\ challanCtr < MaxChallans
    /\ challanCtr' = challanCtr + 1
    /\ challan' = [challan EXCEPT ![challanCtr'] =
                     [ownTid |-> t, police |-> p, amount |-> amount,
                      isPaid |-> FALSE, isCancelled |-> FALSE]]
    /\ pendingCount' = [pendingCount EXCEPT ![t] = @ + 1]
    /\ pendingAmount' = [pendingAmount EXCEPT ![t] = @ + amount]
    /\ UNCHANGED policeStatus

(* The clamped decrements shared by payment and both cancellations          *)
Decremented(n, by) == IF n >= by THEN n - by ELSE 0

(* Fault: the total is not reduced.                                         *)
SettleCountOnly(c, t) ==
    /\ pendingCount' = [pendingCount EXCEPT ![t] = Decremented(@, 1)]
    /\ UNCHANGED <<pendingAmount, policeStatus, challanCtr>>

SettleCounters(c, t) ==
    /\ pendingCount' = [pendingCount EXCEPT ![t] = Decremented(@, 1)]
    /\ pendingAmount' = [pendingAmount EXCEPT ![t] = Decremented(@, challan[c].amount)]
    /\ UNCHANGED <<policeStatus, challanCtr>>

(* Any active station takes the payment.                                    *)
PayChallan(p, t, c) ==
    /\ policeStatus[p] = "active"
    /\ Unsettled(c, t)
    /\ challan' = [challan EXCEPT ![c].isPaid = TRUE]
    /\ SettleCounters(c, t)

(* Only the issuing station withdraws its challan.                          *)
CancelChallan(p, t, c) ==
    /\ policeStatus[p] = "active"
    /\ Unsettled(c, t)
    /\ challan[c].police = p
    /\ challan' = [challan EXCEPT ![c].isCancelled = TRUE]
    /\ SettleCounters(c, t)

AdminCancelChallan(t, c) ==
    /\ Unsettled(c, t)
    /\ challan' = [challan EXCEPT ![c].isCancelled = TRUE]
    /\ SettleCounters(c, t)

(* Called by DigitalVehiclePassport.scrapVehicle                            *)
CancelAllPendingChallans(t) ==
    /\ HasSystemRole("challan", "dvp")
    /\ IF pendingCount[t] = 0
       THEN UNCHANGED <<challan, pendingCount, pendingAmount>>
       ELSE /\ challan' = [c \in ChallanIds |->
                             IF Unsettled(c, t) THEN [challan[c] EXCEPT !.isCancelled = TRUE]
                                                ELSE challan[c]]
            /\ pendingCount' = [pendingCount EXCEPT ![t] = 0]
            /\ pendingAmount' = [pendingAmount EXCEPT ![t] = 0]
    /\ UNCHANGED <<policeStatus, challanCtr>>
=============================================================================
