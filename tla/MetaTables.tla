----------------------------- MODULE MetaTables -----------------------------
(***************************************************************************)
(* The metadata database of the posix mode (oxfs-posix/src/types.rs,       *)
(* meta.rs) and the kernel in front of it.  The engines, RedbMeta and      *)
(* SqliteMeta, say how each operation changes the tables; this module says *)
(* what the tables are, which rows an edit touches, which calls the kernel *)
(* lets through, and what the tables promise.                              *)
(*                                                                         *)
(* Not modelled: times, modes and owners, xattr and slice_ref, which no    *)
(* operation uses.  The rows of the chunk table matter here only as        *)
(* present or absent; PosixVfs models what they hold.                      *)
(***************************************************************************)
EXTENDS Integers, FiniteSets, Sequences

CONSTANTS
    Inos,      \* inode numbers the counter may reach, among them Root
    Names

Root == 1      \* ROOT_INODE

ASSUME InosAssumption == Inos \subseteq Nat \ {0} /\ Root \in Inos /\ IsFiniteSet(Inos)
ASSUME NamesAssumption == IsFiniteSet(Names)

VARIABLES
    db,        \* the tables and the inode counter
    held,      \* inodes the kernel has looked up or holds open
    merging    \* inodes with a compaction between get_chunks and replace_slices

\* History: directories a rename replaced while they had entries, inodes whose
\* chunk row a compaction wrote back after forget had removed the inode.
VARIABLES replaced, revived

tableVars == <<db, held, merging, replaced, revived>>

-----------------------------------------------------------------------------
Kinds == {"dir", "file", "symlink"}
NoNode == [kind |-> "none", nlink |-> 0]
NoEdge == [child |-> 0, kind |-> "none"]

Nodes == [kind : Kinds, nlink : Int] \cup {NoNode}
Edges == [child : Inos, kind : Kinds] \cup {NoEdge}
Tables == [nodes : [Inos -> Nodes], edges : [Inos \X Names -> Edges],
           chunks : SUBSET Inos, symlinks : SUBSET Inos, next : Nat]

TypeOK == /\ db \in Tables
          /\ {held, merging, replaced, revived} \subseteq SUBSET Inos

Empty == [nodes |-> [i \in Inos |-> NoNode], edges |-> [e \in Inos \X Names |-> NoEdge],
          chunks |-> {}, symlinks |-> {}, next |-> 0]

Exists(t, i) == t.nodes[i] # NoNode
IsDir(i) == db.nodes[i].kind = "dir"
Entry(d, n) == db.edges[d, n]
Taken(d, n) == Entry(d, n) # NoEdge
Child(d, n) == Entry(d, n).child

\* The edits of single rows; the update of a row that is not there does nothing.
InsertNode(t, i, k) ==
    [t EXCEPT !.nodes[i] = [kind |-> k, nlink |-> IF k = "dir" THEN 2 ELSE 1]]
InsertEdge(t, d, n, i, k) == [t EXCEPT !.edges[<<d, n>>] = [child |-> i, kind |-> k]]
DeleteEdge(t, d, n) == [t EXCEPT !.edges[<<d, n>>] = NoEdge]
\* Mutant: the source name stays.
CopyEdge(t, sd, sn, dd, dn) == [t EXCEPT !.edges[<<dd, dn>>] = t.edges[sd, sn]]
MoveEdge(t, sd, sn, dd, dn) ==
    [t EXCEPT !.edges[<<dd, dn>>] = t.edges[sd, sn], !.edges[<<sd, sn>>] = NoEdge]
AddLinks(t, i, by) ==
    IF Exists(t, i) THEN [t EXCEPT !.nodes[i].nlink = @ + by] ELSE t
DeleteNode(t, i) == [t EXCEPT !.nodes[i] = NoNode]

-----------------------------------------------------------------------------
(* The kernel.  It serves one request at a time on inodes it holds, checks *)
(* types and loops itself, refuses new entries in a removed directory and  *)
(* links to an unlinked inode, and drops a rename of a file onto another   *)
(* name of it; that a directory to be replaced is empty it leaves to the   *)
(* file system.                                                            *)

Live(d) == d = Root \/ \E e \in Inos \X Names : db.edges[e].child = d
InDir(d) == d \in held /\ IsDir(d) /\ Live(d)

\* d and the directories above it: what every set has that has d and, with a
\* directory, the one it is in.
Above(d) ==
    {p \in Inos :
        \A s \in SUBSET Inos :
            d \in s /\ (\A q \in Inos, n \in Names : Child(q, n) \in s => q \in s) => p \in s}

MayLink(i, d) == i \in held /\ Exists(db, i) /\ ~IsDir(i) /\ db.nodes[i].nlink > 0 /\ InDir(d)
MayRename(sd, sn, dd, dn) ==
    LET c == Child(sd, sn)
        over == Child(dd, dn)
    IN /\ Taken(sd, sn) /\ c \in held /\ InDir(sd) /\ InDir(dd)
       /\ IsDir(c) => c \notin Above(dd)
       /\ Taken(dd, dn) => /\ over \in held /\ over # c
                           /\ IsDir(c) <=> IsDir(over)
                           /\ over \notin Above(sd)

\* lookup, the reply of which makes the kernel hold the child.
Lookup(d, n) ==
    /\ InDir(d) /\ Taken(d, n) /\ Exists(db, Child(d, n))
    /\ held' = held \cup {Child(d, n)}
    /\ UNCHANGED <<db, merging, replaced, revived>>

\* The chunk table as the data path uses it, one statement or transaction each.
WriteSlice(i) ==
    /\ i \in held /\ db.nodes[i].kind = "file"
    /\ db' = [db EXCEPT !.chunks = @ \cup {i}]
    /\ UNCHANGED <<held, merging, replaced, revived>>

GetChunks(i) ==
    /\ i \in db.chunks /\ merging' = merging \cup {i}
    /\ UNCHANGED <<db, held, replaced, revived>>

ReplaceSlices(i) ==
    /\ i \in merging /\ merging' = merging \ {i}
    /\ db' = [db EXCEPT !.chunks = @ \cup {i}]
    /\ revived' = IF Exists(db, i) THEN revived ELSE revived \cup {i}
    /\ UNCHANGED <<held, replaced>>

-----------------------------------------------------------------------------
(* What the tables promise.                                                *)

EntriesOf(i) == {e \in Inos \X Names : db.edges[e].child = i}
Subdirs(d) == {n \in Names : Entry(d, n).kind = "dir"}

\* The link count of i is what its entries make it: the entries of a file, two
\* and the subdirectories of a directory.
Counted(i) ==
    Exists(db, i) =>
        IF IsDir(i) THEN Live(i) => db.nodes[i].nlink = 2 + Cardinality(Subdirs(i))
                    ELSE db.nodes[i].nlink = Cardinality(EntriesOf(i))

\* The two ends of the entry e are there, the child as what the entry says.
Resolves(e) ==
    db.edges[e] # NoEdge => /\ Exists(db, e[1])
                            /\ db.nodes[db.edges[e].child].kind = db.edges[e].kind

=============================================================================
