---------------------------- MODULE MCSafeGovernance ----------------------------
(***************************************************************************)
(* SafeGovernance for TLC. Proposals and members are interchangeable; the  *)
(* runs that check liveness do without the symmetry.                       *)
(***************************************************************************)
EXTENDS SafeGovernance, TLC

Symmetry == Permutations(Proposals) \cup Permutations(Members)

(* Bound of the run on two proposals: crashes, lost jobs, retries and the   *)
(* indexer meet one of them only, and one at a time is called off or given *)
(* up.                                                                     *)
Made == {p \in Proposals : status[p] # "absent"}

FaultsStrikeOne ==
    Cardinality(Made) > 1 =>
        /\ crashes = 0 /\ losses = 0 /\ indexed = {}
        /\ Cardinality(cancelling \cup exhausted) <= 1
        /\ \A p \in Proposals, a \in Attempts \ {0} : queue[p][a] = 0
=============================================================================
