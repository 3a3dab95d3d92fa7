----------------------------- MODULE MCSqliteMeta ----------------------------
(* SqliteMeta with a few inodes and names; the names are interchangeable. *)
EXTENDS SqliteMeta, TLC

Symmetry == Permutations(Names)
=============================================================================
