----------------------------- MODULE InsuranceToken -----------------------------
(***************************************************************************)
(* InsuranceToken.sol: policies bound to a title, the pointer to the       *)
(* current one, expiry, claims and termination on scrap.                   *)
(***************************************************************************)
EXTENDS OwnershipToken

CONSTANTS
    Insurers,           \* insurer wallets
    MaxPolicies,        \* bound: policy ids
    MaxPolicyDuration,  \* MAX_POLICY_DURATION
    MaxClaims           \* MAX_CLAIMS

ASSUME InsuranceAssumption ==
    /\ MaxPolicies \in Nat /\ MaxPolicyDuration \in Nat /\ MaxClaims \in Nat
    /\ Nobody \notin Insurers

VARIABLES
    insurerStatus,      \* status of each insurer
    polCtr,             \* _polCtr
    policy,             \* policies
    ownToPolicy         \* ownToPolicy; 0 if the title never had a policy

insuranceVars == <<insurerStatus, polCtr, policy, ownToPolicy>>

PolicyIds == 1 .. MaxPolicies

PolicyRecord == [ownTid : 0 .. MaxTokens, comp : Insurers \cup {Nobody},
                 expiry : Dates, active : BOOLEAN, claimCnt : 0 .. MaxClaims]
NoPolicy     == [ownTid |-> 0, comp |-> Nobody, expiry |-> 0,
                 active |-> FALSE, claimCnt |-> 0]

InsuranceTypeOK ==
    /\ insurerStatus \in [Insurers -> EntityStatus]
    /\ polCtr \in 0 .. MaxPolicies
    /\ policy \in [PolicyIds -> PolicyRecord]
    /\ ownToPolicy \in [Tokens -> 0 .. MaxPolicies]

InsuranceInit ==
    /\ insurerStatus = [i \in Insurers |-> InitialStatus(i)]
    /\ polCtr = 0
    /\ policy = [p \in PolicyIds |-> NoPolicy]
    /\ ownToPolicy = [t \in Tokens |-> 0]

(* isInsuranceValid, and the PolicyExists test of issuePolicy               *)
InForce(p) == policy[p].active /\ now <= policy[p].expiry
IsInsuranceValid(t) == ownToPolicy[t] # 0 /\ InForce(ownToPolicy[t])

-----------------------------------------------------------------------------
AdminInsurer(i) ==
    /\ insurerStatus' = AdminCall(insurerStatus, i)
    /\ UNCHANGED <<polCtr, policy, ownToPolicy>>

(* The policy the pointer leaves is deactivated in the same transaction.    *)
IssuePolicy(i, t, expiry) ==
    /\ insurerStatus[i] = "active"
    /\ now < expiry /\ expiry <= now + MaxPolicyDuration
    /\ ExistsAndIsActive(t)
    /\ ~IsInsuranceValid(t)
    /\ polCtr < MaxPolicies
    /\ polCtr' = polCtr + 1
    /\ policy' = [p \in PolicyIds |->
                    IF p = polCtr' THEN [ownTid |-> t, comp |-> i, expiry |-> expiry,
                                         active |-> TRUE, claimCnt |-> 0]
                    ELSE IF p = ownToPolicy[t] THEN [policy[p] EXCEPT !.active = FALSE]
                    ELSE policy[p]]
    /\ ownToPolicy' = [ownToPolicy EXCEPT ![t] = polCtr']
    /\ UNCHANGED insurerStatus

(* Any insurer may mark any expired policy.                                 *)
MarkPolicyExpired(i, p) ==
    /\ insurerStatus[i] = "active"
    /\ p <= polCtr
    /\ now > policy[p].expiry
    /\ policy' = [policy EXCEPT ![p].active = FALSE]
    /\ UNCHANGED <<insurerStatus, polCtr, ownToPolicy>>

(* Fault: the limit is tested one too late.                                 *)
ClaimsLeftOrFull(p) == policy[p].claimCnt <= MaxClaims

ClaimsLeft(p) == policy[p].claimCnt < MaxClaims

FileClaim(i, p) ==
    /\ insurerStatus[i] = "active"
    /\ InForce(p)
    /\ policy[p].comp = i
    /\ ClaimsLeft(p)
    /\ policy' = [policy EXCEPT ![p].claimCnt = @ + 1]
    /\ UNCHANGED <<insurerStatus, polCtr, ownToPolicy>>

(* Called by DigitalVehiclePassport.scrapVehicle; never reverts for want of *)
(* a policy.                                                                *)
TerminatePolicy(t) ==
    /\ HasSystemRole("insurance", "dvp")
    /\ policy' = [p \in PolicyIds |->
                    IF p = ownToPolicy[t] THEN [policy[p] EXCEPT !.active = FALSE]
                                          ELSE policy[p]]
    /\ UNCHANGED <<insurerStatus, polCtr, ownToPolicy>>
=============================================================================
