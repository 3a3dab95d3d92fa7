----------------------------- MODULE MCFlatVfs -----------------------------
(* FlatVfs on two files of the root, or on one in a directory that others    *)
(* write too.  Files, and handles, are interchangeable.                      *)
EXTENDS FlatVfs, TLC

Symmetry == Permutations(Handles) \cup Permutations(Files)
InRoot == [k \in Keys |-> Root]
InDir == [k \in Keys |-> IF k \in Files THEN CHOOSE d \in Dirs : TRUE ELSE Root]
OthersData == Files \X {<<0>>, None}

\* Bound: states with a spoiled file are checked and not continued.
NoneSpoiled == Spoiled = {}
=============================================================================
