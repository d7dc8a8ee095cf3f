------------------------------ MODULE MCKvNode ------------------------------
(* KvNode on one arena key and three requests at a time.                   *)
EXTENDS KvNode

Caps == [k \in Keys |-> 1]
Symmetry == Permutations(Threads)
=============================================================================
