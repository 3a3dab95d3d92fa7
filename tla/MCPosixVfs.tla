----------------------------- MODULE MCPosixVfs -----------------------------
(* PosixVfs on a few files, blocks and writes.  Inodes are interchange-      *)
(* able; slice ids are numbers, handed out in order.                         *)
EXTENDS PosixVfs, TLC

Symmetry == Permutations(Inodes)

\* Bound: behaviours in which nothing is read.  No fairness asks for a read, and a
\* read over an L1 that evicts nothing leaves what other tasks look at as it is.
NoReads == \A i \in Inodes : ~Read(i)
=============================================================================
