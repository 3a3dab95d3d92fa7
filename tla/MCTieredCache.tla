--------------------------- MODULE MCTieredCache ---------------------------
(* TieredCache on a few slices and tasks, interchangeable among themselves. *)
EXTENDS TieredCache, TLC

Symmetry == Permutations(Slices) \cup Permutations(Tasks)
=============================================================================
