-------------------------- MODULE MCDiskSlabStore --------------------------
(* DiskSlabStore on a few keys, slots, batches and readers.                *)
EXTENDS DiskSlabStore

Symmetry == Permutations(Keys) \cup Permutations(Slots) \cup Permutations(Threads)
            \cup Permutations(Readers) \cup Permutations(Vals)
=============================================================================
