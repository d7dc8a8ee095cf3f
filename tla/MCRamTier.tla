----------------------------- MODULE MCRamTier -----------------------------
(* RamTier on small instances: keys 1 and 2 are arena values, keys 3      *)
(* and 4 dedicated (large) ones.                                           *)
EXTENDS RamTier

Small == {1, 2}
Large == {3, 4}
Symmetry == Permutations(Threads)
Caps == [k \in Keys |-> IF k >= 3 THEN 2 ELSE 1]
=============================================================================
