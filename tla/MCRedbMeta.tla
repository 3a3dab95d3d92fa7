----------------------------- MODULE MCRedbMeta -----------------------------
(* RedbMeta with a few inodes and names; the names are interchangeable. *)
EXTENDS RedbMeta, TLC

Symmetry == Permutations(Names)
=============================================================================
