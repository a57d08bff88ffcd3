-------------------------------- MODULE Council --------------------------------
(***************************************************************************)
(* What the governance of the backend promises, with requests, jobs, sweep, *)
(* indexer and transactions left out: a proposal takes a turn, which no     *)
(* longer changes once somebody has signed; it passes at its turn, once,    *)
(* signed by enough members; and only what passed is ever shown executed.   *)
(* SafeGovernance is shown to implement it.                                 *)
(***************************************************************************)
EXTENDS Naturals

CONSTANTS
    Proposals, Members,
    Quorums    \* sets of members whose signatures are enough

VARIABLES
    turnOf,   \* the turn a proposal waits for
    signed,   \* the members who signed it
    turn,     \* the turn it is
    passed,   \* proposals that passed
    shown     \* proposals shown executed

councilVars == <<turnOf, signed, turn, passed, shown>>

CouncilInit ==
    /\ turnOf = [p \in Proposals |-> 0]
    /\ signed = [p \in Proposals |-> {}]
    /\ turn = 0 /\ passed = {} /\ shown = {}

TakeTurn(p) ==
    /\ signed[p] = {}
    /\ \E n \in 0 .. turn : turnOf' = [turnOf EXCEPT ![p] = n]
    /\ UNCHANGED <<signed, turn, passed, shown>>

Sign(p, m) ==
    /\ m \notin signed[p]
    /\ signed' = [signed EXCEPT ![p] = @ \cup {m}]
    /\ UNCHANGED <<turnOf, turn, passed, shown>>

Pass(p) ==
    /\ turnOf[p] = turn /\ p \notin passed /\ signed[p] \in Quorums
    /\ passed' = passed \cup {p} /\ turn' = turn + 1
    /\ UNCHANGED <<turnOf, signed, shown>>

(* What is shown may be taken back: a late cancellation does.               *)
Show(p) ==
    /\ p \in passed
    /\ shown' = shown \cup {p}
    /\ UNCHANGED <<turnOf, signed, turn, passed>>

TakeBack(p) ==
    /\ shown' = shown \ {p}
    /\ UNCHANGED <<turnOf, signed, turn, passed>>

CouncilNext ==
    \E p \in Proposals :
        \/ TakeTurn(p) \/ Pass(p) \/ Show(p) \/ TakeBack(p)
        \/ \E m \in Members : Sign(p, m)

CouncilSpec == CouncilInit /\ [][CouncilNext]_councilVars
=============================================================================
