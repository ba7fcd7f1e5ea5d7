------------------------------ MODULE MCSelection ------------------------------
(* Two backends and one key for TLC.                                       *)
EXTENDS SelectionHistory, TLC

CONSTANTS b1, b2, k1

TwoBackends == {b1, b2}
Symmetry == Permutations(Reqs) \cup Permutations(Backends)
SameKey == [r \in Reqs |-> k1]

Full == {[fresh |-> FALSE, running |-> 0, kv |-> 0],
         [fresh |-> TRUE, running |-> 1, kv |-> 90]}
=============================================================================
