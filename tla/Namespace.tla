------------------------------ MODULE Namespace ------------------------------
(***************************************************************************)
(* What the namespace of the posix mode promises, whatever engine keeps    *)
(* it: names of inodes, changed by one call at a time, and inodes that     *)
(* stay while they have a name or the kernel holds them.                   *)
(***************************************************************************)
CONSTANTS Inos, Names, Root

VARIABLES
    kind,     \* per inode, "none" for one that is not there
    entry,    \* the inode a name in a directory stands for, 0 if none
    held      \* the inodes the kernel holds

spaceVars == <<kind, entry, held>>

Named(i) == \E e \in Inos \X Names : entry[e] = i
Full(d) == \E n \in Names : entry[d, n] # 0
Free(d, n) == kind[d] = "dir" /\ entry[d, n] = 0

SpaceInit ==
    /\ kind = [i \in Inos |-> IF i = Root THEN "dir" ELSE "none"]
    /\ entry = [e \in Inos \X Names |-> 0]
    /\ held = {Root}

\* A new inode, with its name.
Make(d, n, i, k) ==
    /\ Free(d, n) /\ kind[i] = "none" /\ ~Named(i)
    /\ kind' = [kind EXCEPT ![i] = k]
    /\ entry' = [entry EXCEPT ![<<d, n>>] = i]
    /\ held' = held \cup {i}

\* One more name for an inode that has one, but for directories.
Name(d, n, i) ==
    /\ Free(d, n) /\ Named(i) /\ kind[i] \notin {"dir", "none"}
    /\ entry' = [entry EXCEPT ![<<d, n>>] = i]
    /\ UNCHANGED <<kind, held>>

\* A name goes; the inode stays.
Unname(d, n) ==
    /\ entry[d, n] # 0 /\ ~Full(entry[d, n])
    /\ entry' = [entry EXCEPT ![<<d, n>>] = 0]
    /\ UNCHANGED <<kind, held>>

\* A name moves, in one step, in the place of the one that was there.
Move(sd, sn, dd, dn) ==
    LET i == entry[sd, sn]
        over == entry[dd, dn]
    IN /\ i # 0 /\ over # i /\ kind[dd] = "dir"
       /\ over # 0 => (kind[i] = "dir") = (kind[over] = "dir")
       /\ entry' = [entry EXCEPT ![<<dd, dn>>] = i, ![<<sd, sn>>] = 0]
       /\ UNCHANGED <<kind, held>>

Hold(i) == Named(i) /\ held' = held \cup {i} /\ UNCHANGED <<kind, entry>>

\* An inode goes when the kernel lets it go and it has no name, neither earlier
\* nor later; a directory may be left behind.
Forget(i) ==
    /\ i \in held \ {Root} /\ held' = held \ {i}
    /\ \/ ~Named(i) /\ kind' = [kind EXCEPT ![i] = "none"]
       \/ (Named(i) \/ kind[i] = "dir") /\ UNCHANGED kind
    /\ UNCHANGED entry

Remount == held' = {Root} /\ UNCHANGED <<kind, entry>>

SpaceNext ==
    \/ \E d \in Inos, n \in Names :
         \/ Unname(d, n)
         \/ \E i \in Inos : Name(d, n, i) \/ \E k \in {"dir", "file", "symlink"} : Make(d, n, i, k)
         \/ \E dd \in Inos, dn \in Names : Move(d, n, dd, dn)
    \/ \E i \in Inos : Hold(i) \/ Forget(i)
    \/ Remount

SpaceSpec == SpaceInit /\ [][SpaceNext]_spaceVars
=============================================================================
