---------------------------- MODULE RedbMetaProofs ----------------------------
(***************************************************************************)
(* The redb engine: types and the owners of nodes and rows; its names:     *)
(* link counts and entries that resolve; the engine as an implementation   *)
(* of Namespace.                                                           *)
(***************************************************************************)
EXTENDS RedbMeta, TableProofs

(* Saturating decrements keep nodes, as the other edits do.                *)

LEMMA SaturatingKeeps ==
  ASSUME NEW t \in Tables, NEW i \in Inos
  PROVE  Keeps(t, Saturating(t, i))
  <1>1. Keeps(t, AddLinks(t, i, -1))
    BY AddLinksKeeps
  <1>2. Keeps(t, t)
    BY DEF Keeps
  <1> QED
    BY <1>1, <1>2 DEF Saturating

\* Dropping an entry and recounting the parents of a move.
LEMMA DroppedKeeps ==
  ASSUME db \in Tables, NEW d \in Inos, NEW n \in Names, NEW c \in Inos
  PROVE  Keeps(db, Dropped(d, n, c))
  <1> DEFINE e == DeleteEdge(db, d, n)
             t == Saturating(e, c)
  <1>1. Keeps(db, e) /\ Keeps(e, t)
    BY DeleteEdgeKeeps, SaturatingKeeps DEF Keeps
  <1>2. Keeps(db, t) /\ Keeps(t, Saturating(t, d))
    BY <1>1, KeepsTrans, SaturatingKeeps DEF Keeps
  <1> HIDE DEF t
  <1>3. Keeps(db, Saturating(t, d))
    BY <1>2, KeepsTrans
  <1>4. Dropped(d, n, c) = IF IsDir(c) THEN Saturating(t, d) ELSE t
    BY DEF Dropped, t
  <1> QED
    BY <1>2, <1>3, <1>4

LEMMA RecountedKeeps ==
  ASSUME NEW t \in Tables, NEW c, NEW sd \in Inos, NEW dd \in Inos
  PROVE  Keeps(t, Recounted(t, c, sd, dd))
  <1>1. Keeps(t, Saturating(t, sd))
    BY SaturatingKeeps
  <1>2. Keeps(Saturating(t, sd), AddLinks(Saturating(t, sd), dd, 1))
    BY <1>1, AddLinksKeeps DEF Keeps
  <1>3. Keeps(t, AddLinks(Saturating(t, sd), dd, 1)) /\ Keeps(t, t)
    BY <1>1, <1>2, KeepsTrans DEF Keeps
  <1> QED
    BY <1>3 DEF Recounted

-----------------------------------------------------------------------------
(* Types, the nodes of the inodes the kernel holds, the owners of rows: an *)
(* operation other than forget keeps every node, and forget removes one    *)
(* that is no longer held together with its rows.                          *)

RedbInv == TypeOK /\ Root \in held /\ HeldExist /\ RowsOwned

LEMMA RedbInvInit == RedbInit => RedbInv
  <1> SUFFICES ASSUME RedbInit PROVE RedbInv
    OBVIOUS
  <1>1. Empty \in Tables /\ Root \in Inos /\ "dir" \in Kinds
    BY NodeTypes, InosAssumption DEF Empty, Tables, Kinds
  <1>2. Keeps(Empty, InsertNode(Empty, Root, "dir")) /\ Exists(InsertNode(Empty, Root, "dir"), Root)
    BY <1>1, InsertNodeKeeps
  <1> DEFINE t == InsertNode(Empty, Root, "dir")
  <1> HIDE DEF t
  <1>3. db = [t EXCEPT !.next = 2] /\ t \in Tables /\ t.chunks = {} /\ t.symlinks = {}
    BY <1>2 DEF RedbInit, Keeps, Empty, t
  <1>4. db \in Tables /\ Exists(db, Root) /\ db.chunks = {} /\ db.symlinks = {}
    BY <1>2, <1>3 DEF Tables, Exists, t
  <1> QED
    BY <1>1, <1>4 DEF RedbInit, RedbInv, TypeOK, HeldExist, RowsOwned

\* A step that keeps the nodes and the rows, and what the kernel holds.
LEMMA KeepsInv ==
  ASSUME RedbInv, Keeps(db, db'), UNCHANGED <<held, merging, revived>>, replaced' \subseteq Inos
  PROVE  RedbInv'
  BY DEF RedbInv, TypeOK, HeldExist, RowsOwned, Keeps, Tables

LEMMA RedbCreate ==
  ASSUME RedbInv, NEW d \in Inos, NEW n \in Names, NEW k \in Kinds, Create(d, n, k)
  PROVE  RedbInv'
  <1> DEFINE i == db.next
             a == InsertNode(db, i, k)
             t == NewEntry(a, d, n, k)
             p == IF k = "dir" THEN AddLinks(t, d, 1) ELSE t
             s == IF k = "symlink" THEN p.symlinks \cup {i} ELSE p.symlinks
  <1>1. i \in Inos /\ db \in Tables /\ i \in Nat
    BY DEF Create, RedbInv, TypeOK, Tables
  <1>2. Keeps(db, a) /\ Exists(a, i)
    BY <1>1, InsertNodeKeeps
  <1>3. Keeps(a, t)
    BY <1>1, <1>2, InsertEdgeKeeps DEF NewEntry, Keeps
  <1>4. Keeps(t, AddLinks(t, d, 1)) /\ Keeps(t, t)
    BY <1>3, AddLinksKeeps DEF Keeps
  <1>5. Keeps(t, p)
    BY <1>4
  <1>6. /\ db' = [p EXCEPT !.next = i + 1, !.symlinks = s]
        /\ held' = held \cup {i} /\ UNCHANGED <<merging, replaced, revived>>
    BY DEF Create
  <1>s. s \subseteq p.symlinks \cup {i}
    OBVIOUS
  <1> HIDE DEF i, a, t, p, s
  <1>7. Keeps(db, p) /\ Exists(p, i)
    BY <1>2, <1>3, <1>5, KeepsTrans, <1>1 DEF Keeps
  <1>8. /\ db' \in Tables /\ db'.chunks = db.chunks /\ db'.symlinks \subseteq db.symlinks \cup {i}
        /\ \A j \in Inos : Exists(db, j) \/ j = i => Exists(db', j)
    <2>1. p \in Tables /\ p.chunks = db.chunks /\ p.symlinks = db.symlinks
      BY <1>7 DEF Keeps
    <2>2. s \in SUBSET Inos /\ i + 1 \in Nat
      BY <1>1, <1>s, <2>1 DEF Tables
    <2>3. db' \in Tables
      BY <1>6, <2>1, <2>2 DEF Tables
    <2>4. db'.nodes = p.nodes /\ db'.chunks = p.chunks /\ db'.symlinks = s
      BY <1>6, <2>1 DEF Tables
    <2> QED
      BY <1>7, <1>s, <2>1, <2>3, <2>4 DEF Keeps, Exists
  <1> QED
    BY <1>1, <1>6, <1>8 DEF RedbInv, TypeOK, HeldExist, RowsOwned, Tables

LEMMA RedbLink ==
  ASSUME RedbInv, NEW d \in Inos, NEW n \in Names, NEW i \in Inos, Link(i, d, n)
  PROVE  RedbInv'
  <1>1. Keeps(db, AddLinks(db, i, 1))
    BY AddLinksKeeps DEF RedbInv, TypeOK
  <1>2. db.nodes[i].kind \in Kinds
    BY DEF Link, MayLink, Exists, RedbInv, TypeOK, Tables, Nodes
  <1>3. Keeps(AddLinks(db, i, 1), db')
    BY <1>1, <1>2, InsertEdgeKeeps DEF Link, Keeps
  <1> QED
    BY <1>1, <1>3, KeepsTrans, KeepsInv DEF Link, RedbInv, TypeOK

LEMMA RedbUnlink ==
  ASSUME RedbInv, NEW d \in Inos, NEW n \in Names, Unlink(d, n)
  PROVE  RedbInv'
  <1>1. db \in Tables /\ Child(d, n) \in Inos
    BY ChildType DEF Unlink, RedbInv, TypeOK
  <1> QED
    BY <1>1, DroppedKeeps, KeepsInv DEF Unlink, RedbInv, TypeOK

LEMMA RedbRename ==
  ASSUME RedbInv, NEW sd \in Inos, NEW sn \in Names, NEW dd \in Inos, NEW dn \in Names,
         Rename(sd, sn, dd, dn)
  PROVE  RedbInv'
  <1> DEFINE c == Child(sd, sn)
             over == Child(dd, dn)
             t == IF Taken(dd, dn) THEN Dropped(dd, dn, over) ELSE db
             u == MoveEdge(t, sd, sn, dd, dn)
  <1>1. db \in Tables /\ (Taken(dd, dn) => over \in Inos)
    BY ChildType DEF RedbInv, TypeOK
  <1>2. Keeps(db, t)
    <2>1. CASE Taken(dd, dn)
      BY <2>1, <1>1, DroppedKeeps
    <2>2. CASE ~Taken(dd, dn)
      BY <2>2, <1>1 DEF Keeps
    <2> QED
      BY <2>1, <2>2
  <1>3. db' = Recounted(u, c, sd, dd) /\ UNCHANGED <<held, merging, revived>>
    BY DEF Rename
  <1>4. replaced' \subseteq Inos
    BY <1>1 DEF Rename, RedbInv, TypeOK
  <1> HIDE DEF c, t
  <1>5. Keeps(t, u)
    BY <1>2, MoveEdgeKeeps DEF Keeps
  <1> HIDE DEF u
  <1>6. Keeps(u, db')
    <2>1. u \in Tables
      BY <1>5 DEF Keeps
    <2>2. Keeps(u, Recounted(u, c, sd, dd))
      BY <2>1, RecountedKeeps
    <2> QED
      BY <1>3, <2>2
  <1>7. Keeps(db, db')
    BY <1>2, <1>5, <1>6, KeepsTrans
  <1> QED
    BY <1>3, <1>4, <1>7, KeepsInv

LEMMA RedbForget ==
  ASSUME RedbInv, NEW i \in Inos, Forget(i)
  PROVE  RedbInv'
  <1>1. /\ i \in held \ {Root} /\ held' = held \ {i}
        /\ db' = IF Linkless(i) THEN Removed(i) ELSE db
        /\ UNCHANGED <<merging, replaced, revived>>
    BY DEF Forget
  <1>2. CASE Linkless(i)
    <2>1. db' = [db EXCEPT !.nodes[i] = NoNode, !.chunks = @ \ {i}, !.symlinks = @ \ {i}]
      BY <1>1, <1>2 DEF Removed, DeleteNode, RedbInv, TypeOK, Tables
    <2>2. /\ db' \in Tables /\ db'.chunks = db.chunks \ {i} /\ db'.symlinks = db.symlinks \ {i}
          /\ \A j \in Inos \ {i} : Exists(db, j) => Exists(db', j)
      BY <2>1, NodeTypes DEF RedbInv, TypeOK, Tables, Exists
    <2> QED
      BY <1>1, <2>2 DEF RedbInv, TypeOK, HeldExist, RowsOwned, Tables
  <1>3. CASE ~Linkless(i)
    BY <1>1, <1>3 DEF RedbInv, TypeOK, HeldExist, RowsOwned
  <1> QED
    BY <1>2, <1>3

\* The chunk rows.
LEMMA RedbChunks ==
  ASSUME RedbInv, NEW i \in Inos, WriteSlice(i) \/ GetChunks(i) \/ ReplaceSlices(i)
  PROVE  RedbInv'
  <1>1. CASE GetChunks(i)
    BY <1>1 DEF GetChunks, RedbInv, TypeOK, HeldExist, RowsOwned
  <1>2. ASSUME db' = [db EXCEPT !.chunks = @ \cup {i}]
        PROVE  /\ db' \in Tables /\ db'.chunks = db.chunks \cup {i} /\ db'.symlinks = db.symlinks
               /\ \A j \in Inos : Exists(db', j) <=> Exists(db, j)
    BY <1>2 DEF RedbInv, TypeOK, Tables, Exists
  <1>3. CASE WriteSlice(i)
    <2>1. Exists(db, i)
      BY <1>3 DEF WriteSlice, RedbInv, HeldExist
    <2> QED
      BY <1>2, <1>3, <2>1 DEF WriteSlice, RedbInv, TypeOK, HeldExist, RowsOwned, Tables
  <1>4. CASE ReplaceSlices(i)
    BY <1>2, <1>4 DEF ReplaceSlices, RedbInv, TypeOK, HeldExist, RowsOwned, Tables
  <1> QED
    BY <1>1, <1>3, <1>4

LEMMA RedbInvNext == RedbInv /\ [RedbNext]_tableVars => RedbInv'
  <1> SUFFICES ASSUME RedbInv, [RedbNext]_tableVars PROVE RedbInv'
    OBVIOUS
  <1>1. ASSUME NEW d \in Inos, NEW n \in Names, Lookup(d, n) PROVE RedbInv'
    BY <1>1, ChildType DEF Lookup, RedbInv, TypeOK, HeldExist, RowsOwned
  <1>2. CASE Remount
    BY <1>2 DEF Remount, RedbInv, TypeOK, HeldExist, RowsOwned
  <1>3. CASE UNCHANGED tableVars
    BY <1>3 DEF tableVars, RedbInv, TypeOK, HeldExist, RowsOwned
  <1> QED
    BY <1>1, <1>2, <1>3, RedbCreate, RedbLink, RedbUnlink, RedbRename, RedbForget, RedbChunks
    DEF RedbNext

LEMMA RedbInvAlways == RedbSpec => []RedbInv
  BY RedbInvInit, RedbInvNext, PTL DEF RedbSpec

\* The tables are well typed.
THEOREM RedbTypeCorrect == RedbSpec => []TypeOK
  <1>1. RedbInv => TypeOK
    BY DEF RedbInv
  <1> QED
    BY <1>1, RedbInvAlways, PTL

\* Whatever is unlinked or replaced, the node of an inode the kernel holds is
\* there until it forgets it (redb_engine.rs:317-469, 659-693).
THEOREM HeldNodesStay == RedbSpec => []HeldExist
  <1>1. RedbInv => HeldExist
    BY DEF RedbInv
  <1> QED
    BY <1>1, RedbInvAlways, PTL

\* forget leaves no chunk and no symlink row behind; only a compaction that was
\* under way writes one back (redb_engine.rs:580-589, 659-693).
THEOREM RowsHaveOwners == RedbSpec => []RowsOwned
  <1>1. RedbInv => RowsOwned
    BY DEF RedbInv
  <1> QED
    BY <1>1, RedbInvAlways, PTL

-----------------------------------------------------------------------------
(* The names: their inductive invariant.                                   *)

\* An entry is in a directory, its child is a node of the kind it says, and
\* neither the root nor that directory.
Resolved(t) ==
    \A d \in Inos, n \in Names : t.edges[<<d, n>>] # NoEdge =>
        LET x == t.edges[<<d, n>>]
        IN /\ t.nodes[d].kind = "dir"
           /\ t.nodes[x.child].kind = x.kind
           /\ x.child \notin {Root, d}

\* The counter is past every node.
Counter(t) == \A i \in Inos : t.nodes[i] # NoNode => i < t.next

\* The link counts, that of a directory without entry among them: it is never
\* zero, for forget would take the directory for a file that has no name.
Tally(t) ==
    \A i \in Inos : t.nodes[i] # NoNode =>
        IF t.nodes[i].kind = "dir"
        THEN /\ t.nodes[i].nlink >= 1
             /\ LiveIn(t.edges, i) => t.nodes[i].nlink = 2 + Cardinality(SubdirsIn(t.edges, i))
        ELSE t.nodes[i].nlink = Cardinality(EntriesIn(t.edges, i))

NamesOK(t) == /\ t \in Tables
              /\ t.nodes[Root].kind = "dir"
              /\ Resolved(t) /\ OneParent(t) /\ Counter(t) /\ Tally(t)
\* Only a directory that a rename replaced has entries and is not in the tree.
Covered(g, r) ==
    \A x \in Inos, m \in Names : g[<<x, m>>] # NoEdge => LiveIn(g, x) \/ x \in r

NamesInv == NamesOK(db) /\ Covered(db.edges, replaced)

\* Where the count is above zero a saturating decrement is one.
LEMMA SaturatingRelinks ==
  ASSUME NEW t \in Tables, NEW i \in Inos, t.nodes[i] # NoNode => t.nodes[i].nlink >= 1
  PROVE  Relinked(t, Saturating(t, i), i, -1)
  <1>1. CASE t.nodes[i].nlink > 0
    BY <1>1, AddLinksRelinks DEF Saturating
  <1>2. CASE ~(t.nodes[i].nlink > 0)
    <2>1. t.nodes[i] = NoNode
      BY <1>2, NoNodeKind
    <2> QED
      BY <1>2, <2>1 DEF Saturating, Relinked
  <1> QED
    BY <1>1, <1>2

\* A directory the kernel works in, and what an entry in it leads to.
LEMMA DirRow ==
  ASSUME NamesOK(db), NEW d \in Inos, InDir(d)
  PROVE  /\ db.nodes[d].kind = "dir" /\ db.nodes[d] # NoNode /\ LiveIn(db.edges, d)
         /\ db.nodes[d].nlink = 2 + Cardinality(SubdirsIn(db.edges, d))
  BY NoNodeKind DEF NamesOK, Tally, InDir, IsDir, Live, LiveIn, Places, Kinds

LEMMA ChildRow ==
  ASSUME NamesOK(db), NEW d \in Inos, NEW n \in Names, Taken(d, n), NEW c, c = Child(d, n)
  PROVE  /\ c \in Inos \ {Root, d}
         /\ Exists(db, c)
         /\ db.edges[<<d, n>>] # NoEdge
         /\ db.edges[<<d, n>>].kind = db.nodes[c].kind
         /\ db.nodes[c].nlink \in Int /\ db.nodes[c].nlink >= 1
         /\ IsDir(c) => db.nodes[c].nlink >= 2
         /\ LiveIn(db.edges, c)
  <1> DEFINE g == db.edges
  <1>1. /\ g[<<d, n>>] # NoEdge /\ g[<<d, n>>].child = c /\ c \in Inos \ {Root, d}
        /\ g[<<d, n>>].kind = db.nodes[c].kind /\ db \in Tables /\ <<d, n>> \in Places
    BY NoEdgeKind DEF NamesOK, Resolved, Taken, Entry, Child, Places
  <1>2. db.nodes[c] # NoNode /\ db.nodes[c].nlink \in Int /\ LiveIn(g, c)
    BY <1>1, NoNodeKind, NoEdgeKind DEF LiveIn, Kinds
  <1>3. <<d, n>> \in EntriesIn(g, c)
    BY <1>1 DEF EntriesIn
  <1>4. Cardinality(EntriesIn(g, c)) >= 1 /\ Cardinality(SubdirsIn(g, c)) \in Nat
    BY <1>3, CountTypes, FS_EmptySet
  <1>5. db.nodes[c].nlink >= 1 /\ (IsDir(c) => db.nodes[c].nlink >= 2)
    BY <1>1, <1>2, <1>4 DEF NamesOK, Tally, IsDir
  <1> QED
    BY <1>1, <1>2, <1>5 DEF Exists

\* What dropping an entry does: the edge goes, its child has one link less, and
\* so has the directory if the child is one.
DroppedRow(d, n, c, u) ==
    /\ u \in Tables /\ u.next = db.next
    /\ u.edges = [db.edges EXCEPT ![<<d, n>>] = NoEdge]
    /\ \A j \in Inos : u.nodes[j].kind = db.nodes[j].kind
    /\ \A j \in Inos : db.nodes[j] # NoNode =>
         u.nodes[j].nlink = db.nodes[j].nlink - One(j = c) - One(j = d /\ IsDir(c))

LEMMA DroppedRows ==
  ASSUME NamesOK(db), NEW d \in Inos, NEW n \in Names, InDir(d), Taken(d, n),
         NEW c, c = Child(d, n)
  PROVE  DroppedRow(d, n, c, Dropped(d, n, c))
  <1> DEFINE e == DeleteEdge(db, d, n)
             t == Saturating(e, c)
             u == Saturating(t, d)
  <1>1. /\ db \in Tables /\ c \in Inos /\ c # d /\ db.nodes[c] # NoNode
        /\ db.nodes[c].nlink \in Int /\ db.nodes[c].nlink >= 1
        /\ db.nodes[d] # NoNode /\ db.nodes[d].kind = "dir" /\ db.nodes[d].nlink \in Int
        /\ db.nodes[d].nlink >= 1
    <2>1. /\ db.nodes[d].nlink = 2 + Cardinality(SubdirsIn(db.edges, d))
          /\ db.nodes[d] # NoNode /\ db.nodes[d].kind = "dir" /\ db \in Tables
      BY DirRow DEF NamesOK
    <2>2. db.nodes[d].nlink \in Int /\ db.nodes[d].nlink >= 1
      BY <2>1, CountTypes
    <2>3. c \in Inos /\ c # d /\ db.nodes[c].nlink \in Int /\ db.nodes[c].nlink >= 1
      BY ChildRow
    <2>4. Exists(db, c)
      BY ChildRow
    <2> QED
      BY <2>1, <2>2, <2>3, <2>4 DEF Exists
  <1>2. /\ e \in Tables /\ e.nodes = db.nodes /\ e.next = db.next
        /\ e.edges = [db.edges EXCEPT ![<<d, n>>] = NoEdge]
    BY <1>1, NodeTypes DEF DeleteEdge, Tables, Places
  <1>3. Relinked(e, t, c, -1)
    BY <1>1, <1>2, SaturatingRelinks
  <1> HIDE DEF e, t
  <1>4. t \in Tables /\ \A j \in Inos : t.nodes[j] = NoNode <=> db.nodes[j] = NoNode
    BY <1>1, <1>2, <1>3, NoNodeKind DEF Relinked
  <1>5. t.nodes[d].nlink = db.nodes[d].nlink
    BY <1>1, <1>2, <1>3 DEF Relinked
  <1>6. Relinked(t, u, d, -1)
    BY <1>1, <1>4, <1>5, SaturatingRelinks
  <1> HIDE DEF u
  <1>7. Dropped(d, n, c) = IF IsDir(c) THEN u ELSE t
    BY DEF Dropped, u, t, e
  <1>8. \A j \in Inos : db.nodes[j] # NoNode => db.nodes[j].nlink \in Int
    BY <1>1, NoNodeKind
  <1>9. CASE IsDir(c)
    BY <1>1, <1>2, <1>3, <1>4, <1>6, <1>7, <1>8, <1>9 DEF Relinked, DroppedRow, One
  <1>10. CASE ~IsDir(c)
    BY <1>1, <1>2, <1>3, <1>4, <1>7, <1>8, <1>10 DEF Relinked, DroppedRow, One
  <1> QED
    BY <1>9, <1>10

-----------------------------------------------------------------------------
(* The operations keep the invariant.                                      *)

LEMMA NamesUnlink ==
  ASSUME NamesInv, NEW d \in Inos, NEW n \in Names, Unlink(d, n)
  PROVE  NamesInv'
  <1> DEFINE g == db.edges
             h == db'.edges
             c == Child(d, n)
  <1>1. NamesOK(db) /\ db \in Tables /\ InDir(d) /\ Taken(d, n) /\ ~NotEmpty(c)
    BY DEF Unlink, NamesInv, NamesOK
  <1>2. DroppedRow(d, n, c, db')
    BY <1>1, DroppedRows DEF Unlink
  <1>3. /\ c \in Inos /\ c # Root /\ c # d /\ g[<<d, n>>] # NoEdge /\ g[<<d, n>>].child = c
        /\ g[<<d, n>>].kind = db.nodes[c].kind
        /\ db.nodes[c].nlink \in Int /\ db.nodes[c].nlink >= 1
        /\ db.nodes[c].kind = "dir" => db.nodes[c].nlink >= 2
    <2>1. /\ c \in Inos /\ c # Root /\ c # d /\ g[<<d, n>>] # NoEdge
          /\ g[<<d, n>>].kind = db.nodes[c].kind
          /\ db.nodes[c].nlink \in Int /\ db.nodes[c].nlink >= 1
          /\ IsDir(c) => db.nodes[c].nlink >= 2
      BY <1>1, ChildRow
    <2> QED
      BY <2>1 DEF Child, Entry, IsDir
  <1>4. Exists(db, c)
    BY <1>1, ChildRow
  <1>5. /\ g \in [Places -> Edges] /\ h = [g EXCEPT ![<<d, n>>] = NoEdge]
        /\ db' \in Tables /\ db'.next = db.next
        /\ \A j \in Inos : db'.nodes[j].kind = db.nodes[j].kind
        /\ \A j \in Inos : db.nodes[j] # NoNode => db'.nodes[j].nlink =
             db.nodes[j].nlink - One(j = c) - One(j = d /\ db.nodes[c].kind = "dir")
    BY <1>1, <1>2, EdgesType DEF DroppedRow, IsDir
  <1>6. /\ \A a \in Inos, m \in Names : h[<<a, m>>] = IF a = d /\ m = n THEN NoEdge ELSE g[<<a, m>>]
        /\ \A e \in Places : h[e] = IF e = <<d, n>> THEN NoEdge ELSE g[e]
    BY <1>5 DEF Places
  <1>7. \A j \in Inos : db'.nodes[j] = NoNode <=> db.nodes[j] = NoNode
    BY <1>1, <1>5, NoNodeKind
  <1>8. \A j \in Inos : db.nodes[j] # NoNode => db.nodes[j].nlink \in Int
    BY <1>1, NoNodeKind
  <1>9. \A j \in Inos :
          /\ Cardinality(EntriesIn(h, j)) = Cardinality(EntriesIn(g, j)) - One(j = c)
          /\ Cardinality(SubdirsIn(h, j)) =
               Cardinality(SubdirsIn(g, j)) - One(j = d /\ db.nodes[c].kind = "dir")
    <2>1. Differ(g, h, d, n) /\ g[<<d, n>>] # NoEdge /\ h[<<d, n>>] = NoEdge
      BY <1>3, <1>5, NodeTypes DEF Differ, Places
    <2>2. ASSUME NEW j \in Inos
          PROVE  /\ Cardinality(EntriesIn(h, j)) =
                      Cardinality(EntriesIn(g, j)) - One(j = g[<<d, n>>].child)
                 /\ Cardinality(SubdirsIn(h, j)) =
                      Cardinality(SubdirsIn(g, j)) - One(j = d /\ g[<<d, n>>].kind = "dir")
      BY <2>1, TakeCounts
    <2> QED
      BY <2>2, <1>3
  <1>10. \A j \in Inos : Cardinality(EntriesIn(g, j)) \in Nat /\ Cardinality(SubdirsIn(g, j)) \in Nat
    BY CountTypes
  <1> HIDE DEF h, g, c
  <1>11. \A j \in Inos : LiveIn(h, j) => LiveIn(g, j)
    BY <1>6, InosAssumption DEF LiveIn, NoEdge
  <1>12. db.nodes[d].kind = "dir" /\ LiveIn(g, d)
    BY <1>1, DirRow DEF g
  <1>13. Resolved(db')
    <2> SUFFICES ASSUME NEW a \in Inos, NEW m \in Names, h[<<a, m>>] # NoEdge
                 PROVE  /\ db'.nodes[a].kind = "dir"
                        /\ db'.nodes[h[<<a, m>>].child].kind = h[<<a, m>>].kind
                        /\ h[<<a, m>>].child \notin {Root, a}
      BY DEF Resolved, h
    <2>1. h[<<a, m>>] = g[<<a, m>>] /\ g[<<a, m>>] # NoEdge
      BY <1>6
    <2>2. /\ db.nodes[a].kind = "dir" /\ g[<<a, m>>].child \notin {Root, a}
          /\ db.nodes[g[<<a, m>>].child].kind = g[<<a, m>>].kind
      BY <2>1, <1>1 DEF NamesOK, Resolved, g
    <2>3. g[<<a, m>>].child \in Inos
      BY <2>1, <1>1, NoEdgeKind DEF g
    <2> QED
      BY <2>1, <2>2, <2>3, <1>5
  <1>14. OneParent(db')
    <2> SUFFICES ASSUME NEW e \in Places, NEW f \in Places, h[e] # NoEdge, h[e].kind = "dir",
                        h[f].child = h[e].child
                 PROVE  e = f
      BY DEF OneParent, h
    <2>1. h[e] = g[e] /\ h[e].child # 0
      <3>1. PICK a \in Inos, m \in Names : e = <<a, m>>
        BY DEF Places
      <3> QED
        BY <3>1, <1>1, <1>6, NoEdgeKind DEF g
    <2>2. h[f] = g[f]
      BY <2>1, <1>6 DEF NoEdge
    <2> QED
      BY <2>1, <2>2, <1>1 DEF NamesOK, OneParent, g
  <1>15. Counter(db')
    BY <1>1, <1>5, <1>7 DEF NamesOK, Counter
  <1>16. db.nodes[c].kind = "dir" => ~LiveIn(h, c)
    <2> SUFFICES ASSUME db.nodes[c].kind = "dir", NEW f \in Places, h[f].child = c PROVE FALSE
      BY <1>3 DEF LiveIn
    <2>1. f # <<d, n>> /\ g[f].child = c /\ <<d, n>> \in Places
      BY <1>3, <1>6, InosAssumption DEF NoEdge, Places
    <2> QED
      BY <2>1, <1>1, <1>3 DEF NamesOK, OneParent, g
  <1>17. Tally(db')
    <2> SUFFICES ASSUME NEW j \in Inos, db.nodes[j] # NoNode
                 PROVE  IF db.nodes[j].kind = "dir"
                        THEN /\ db'.nodes[j].nlink >= 1
                             /\ LiveIn(h, j) =>
                                  db'.nodes[j].nlink = 2 + Cardinality(SubdirsIn(h, j))
                        ELSE db'.nodes[j].nlink = Cardinality(EntriesIn(h, j))
      BY <1>5, <1>7 DEF Tally, h
    <2>1. IF db.nodes[j].kind = "dir"
          THEN /\ db.nodes[j].nlink >= 1
               /\ LiveIn(g, j) => db.nodes[j].nlink = 2 + Cardinality(SubdirsIn(g, j))
          ELSE db.nodes[j].nlink = Cardinality(EntriesIn(g, j))
      BY <1>1 DEF NamesOK, Tally, g
    <2>2. CASE db.nodes[j].kind = "dir" /\ j = c
      BY <2>1, <2>2, <1>3, <1>5, <1>16 DEF One
    <2>5. /\ db'.nodes[j].nlink =
               db.nodes[j].nlink - One(j = c) - One(j = d /\ db.nodes[c].kind = "dir")
          /\ Cardinality(EntriesIn(h, j)) = Cardinality(EntriesIn(g, j)) - One(j = c)
          /\ Cardinality(SubdirsIn(h, j)) =
               Cardinality(SubdirsIn(g, j)) - One(j = d /\ db.nodes[c].kind = "dir")
          /\ db.nodes[j].nlink \in Int /\ Cardinality(EntriesIn(g, j)) \in Nat
          /\ Cardinality(SubdirsIn(g, j)) \in Nat /\ (LiveIn(h, j) => LiveIn(g, j))
      BY <1>5, <1>8, <1>9, <1>10, <1>11
    <2>3. CASE db.nodes[j].kind = "dir" /\ j # c
      BY <2>1, <2>3, <2>5, <1>12 DEF One
    <2>4. CASE db.nodes[j].kind # "dir"
      BY <2>1, <2>4, <2>5, <1>12 DEF One
    <2> QED
      BY <2>2, <2>3, <2>4
  <1>18. Covered(h, replaced')
    <2> SUFFICES ASSUME NEW x \in Inos, NEW m \in Names, h[<<x, m>>] # NoEdge, x \notin replaced
                 PROVE  LiveIn(h, x)
      BY DEF Covered, Unlink
    <2>1. g[<<x, m>>] # NoEdge /\ LiveIn(g, x)
      BY <1>6 DEF NamesInv, Covered, g
    <2>2. x # c
      <3>1. db.nodes[x].kind = "dir"
        BY <2>1, <1>1 DEF NamesOK, Resolved, g
      <3> QED
        BY <2>1, <3>1, <1>1 DEF NotEmpty, IsDir, Taken, Entry, g
    <2>3. CASE x = Root
      BY <2>3 DEF LiveIn
    <2>4. ASSUME NEW e \in Places, g[e].child = x
          PROVE  LiveIn(h, x)
      BY <2>2, <2>4, <1>3, <1>6 DEF LiveIn
    <2> QED
      BY <2>1, <2>3, <2>4 DEF LiveIn
  <1>19. db'.nodes[Root].kind = "dir"
    BY <1>1, <1>5, InosAssumption DEF NamesOK
  <1> QED
    BY <1>5, <1>13, <1>14, <1>15, <1>17, <1>18, <1>19 DEF NamesInv, NamesOK, h

\* What a new entry does, for a new inode or one more for a file: the entry n of d
\* leads to i, of kind k, the counts of the two follow, the rest stays.
PutRow(d, n, i, k) ==
    /\ i \notin {Root, d} /\ db.nodes[d].kind = "dir" /\ LiveIn(db.edges, d)
    /\ db.edges[<<d, n>>] = NoEdge /\ \A m \in Names : db.edges[<<i, m>>] = NoEdge
    /\ \A e \in Places : db.edges[e].child = i => k # "dir" /\ db.edges[e].kind = k
    /\ db'.edges = [db.edges EXCEPT ![<<d, n>>] = [child |-> i, kind |-> k]]
    /\ db'.next >= db.next /\ i < db'.next
    /\ db'.nodes[i].kind = k
    /\ db'.nodes[i].nlink = IF k = "dir" THEN 2 ELSE Cardinality(EntriesIn(db.edges, i)) + 1
    /\ \A j \in Inos \ {i} : db'.nodes[j].kind = db.nodes[j].kind
    /\ \A j \in Inos \ {i} : db.nodes[j] # NoNode =>
         db'.nodes[j].nlink = db.nodes[j].nlink + One(j = d /\ k = "dir")

LEMMA PutInv ==
  ASSUME NamesInv, db' \in Tables, replaced' = replaced,
         NEW d \in Inos, NEW n \in Names, NEW i \in Inos, NEW k \in Kinds,
         PutRow(d, n, i, k)
  PROVE  NamesInv'
  <1> DEFINE g == db.edges
             h == db'.edges
             r == [child |-> i, kind |-> k]
  <1> USE DEF PutRow
  <1>1. NamesOK(db) /\ db \in Tables /\ g \in [Places -> Edges] /\ h = [g EXCEPT ![<<d, n>>] = r]
    BY EdgesType DEF NamesInv, NamesOK
  <1>2. r \in Edges /\ r # NoEdge /\ r.child = i /\ r.kind = k
    BY DEF Edges, NoEdge, Kinds
  <1> HIDE DEF g, h, r
  <1>3. /\ \A a \in Inos, m \in Names : h[<<a, m>>] = IF a = d /\ m = n THEN r ELSE g[<<a, m>>]
        /\ \A e \in Places : h[e] = IF e = <<d, n>> THEN r ELSE g[e]
        /\ g[<<d, n>>] = NoEdge /\ <<d, n>> \in Places
    BY <1>1 DEF Places, g
  <1>4. \A j \in Inos \ {i} : /\ db'.nodes[j] = NoNode <=> db.nodes[j] = NoNode
                              /\ db.nodes[j] # NoNode => db.nodes[j].nlink \in Int
    BY <1>1, NoNodeKind
  <1>5. \A j \in Inos :
          /\ Cardinality(EntriesIn(h, j)) = Cardinality(EntriesIn(g, j)) + One(j = i)
          /\ Cardinality(SubdirsIn(h, j)) = Cardinality(SubdirsIn(g, j)) + One(j = d /\ k = "dir")
    <2>1. Differ(g, h, d, n) /\ h[<<d, n>>] = r
      BY <1>1, <1>2, <1>3 DEF Differ, Places
    <2>2. ASSUME NEW j \in Inos
          PROVE  /\ Cardinality(EntriesIn(h, j)) = Cardinality(EntriesIn(g, j)) + One(j = r.child)
                 /\ Cardinality(SubdirsIn(h, j)) =
                      Cardinality(SubdirsIn(g, j)) + One(j = d /\ r.kind = "dir")
      BY <1>2, <1>3, <2>1, PutCounts
    <2> QED
      BY <2>2, <1>2
  <1>6. \A j \in Inos : Cardinality(EntriesIn(g, j)) \in Nat /\ Cardinality(SubdirsIn(g, j)) \in Nat
    BY CountTypes
  <1>7. \A j \in Inos : /\ LiveIn(g, j) => LiveIn(h, j)
                        /\ j # i /\ LiveIn(h, j) => LiveIn(g, j)
    <2> SUFFICES ASSUME NEW j \in Inos
                 PROVE  /\ LiveIn(g, j) => LiveIn(h, j)
                        /\ j # i /\ LiveIn(h, j) => LiveIn(g, j)
      OBVIOUS
    <2>1. \A e \in Places : g[e].child = j => h[e].child = j
      BY <1>3, InosAssumption DEF NoEdge
    <2>2. \A e \in Places : j # i /\ h[e].child = j => g[e].child = j
      BY <1>2, <1>3
    <2> QED
      BY <2>1, <2>2 DEF LiveIn
  <1>8. Resolved(db')
    <2> SUFFICES ASSUME NEW a \in Inos, NEW m \in Names, h[<<a, m>>] # NoEdge
                 PROVE  /\ db'.nodes[a].kind = "dir"
                        /\ db'.nodes[h[<<a, m>>].child].kind = h[<<a, m>>].kind
                        /\ h[<<a, m>>].child \notin {Root, a}
      BY DEF Resolved, h
    <2>1. CASE a = d /\ m = n
      BY <2>1, <1>2, <1>3
    <2>2. CASE ~(a = d /\ m = n)
      <3>1. h[<<a, m>>] = g[<<a, m>>] /\ g[<<a, m>>] # NoEdge /\ a # i /\ <<a, m>> \in Places
        BY <2>2, <1>3 DEF g, Places
      <3>2. /\ db.nodes[a].kind = "dir" /\ g[<<a, m>>].child \notin {Root, a}
            /\ db.nodes[g[<<a, m>>].child].kind = g[<<a, m>>].kind
        BY <3>1, <1>1 DEF NamesOK, Resolved, g
      <3>3. g[<<a, m>>].child \in Inos
        BY <3>1, <1>1, NoEdgeKind DEF g
      <3>4. g[<<a, m>>].child = i => g[<<a, m>>].kind = k
        BY <3>1 DEF g
      <3> QED
        BY <3>1, <3>2, <3>3, <3>4
    <2> QED
      BY <2>1, <2>2
  <1>9. OneParent(db')
    <2> SUFFICES ASSUME NEW e \in Places, NEW f \in Places, h[e] # NoEdge, h[e].kind = "dir",
                        h[f].child = h[e].child, e # f
                 PROVE  FALSE
      BY DEF OneParent, h
    <2>1. \A x \in Places : g[x].child = i => k # "dir"
      BY DEF g
    <2>2. CASE e = <<d, n>>
      BY <2>1, <2>2, <1>2, <1>3
    <2>3. CASE f = <<d, n>>
      <3>1. g[e].child = i /\ g[e].kind = k /\ g[e].kind = "dir"
        BY <2>3, <1>2, <1>3 DEF g
      <3> QED
        BY <3>1, <2>1
    <2>4. CASE e # <<d, n>> /\ f # <<d, n>>
      BY <2>4, <1>1, <1>3 DEF NamesOK, OneParent, g
    <2> QED
      BY <2>2, <2>3, <2>4
  <1>10. Counter(db')
    <2>1. /\ db.next \in Nat /\ db'.next \in Nat /\ Inos \subseteq Nat
          /\ \A j \in Inos : db.nodes[j] # NoNode => j < db.next
      BY <1>1, InosAssumption DEF NamesOK, Counter, Tables
    <2> QED
      BY <2>1, <1>4 DEF Counter
  <1>11. Tally(db')
    <2> SUFFICES ASSUME NEW j \in Inos, db'.nodes[j] # NoNode
                 PROVE  IF db'.nodes[j].kind = "dir"
                        THEN /\ db'.nodes[j].nlink >= 1
                             /\ LiveIn(h, j) =>
                                  db'.nodes[j].nlink = 2 + Cardinality(SubdirsIn(h, j))
                        ELSE db'.nodes[j].nlink = Cardinality(EntriesIn(h, j))
      BY DEF Tally, h
    <2>1. /\ Cardinality(EntriesIn(h, j)) = Cardinality(EntriesIn(g, j)) + One(j = i)
          /\ Cardinality(SubdirsIn(h, j)) = Cardinality(SubdirsIn(g, j)) + One(j = d /\ k = "dir")
          /\ Cardinality(EntriesIn(g, j)) \in Nat /\ Cardinality(SubdirsIn(g, j)) \in Nat
      BY <1>5, <1>6
    <2>2. CASE j = i
      <3>1. SubdirsIn(g, i) = {}
        BY DEF SubdirsIn, g, NoEdge
      <3>2. Cardinality(SubdirsIn(g, i)) = 0
        BY <3>1, FS_EmptySet
      <3>3. db'.nodes[i].nlink = IF k = "dir" THEN 2 ELSE Cardinality(EntriesIn(g, i)) + 1
        BY DEF g
      <3> QED
        BY <2>1, <2>2, <3>2, <3>3 DEF One
    <2>3. CASE j # i
      <3>1. /\ db.nodes[j] # NoNode /\ db'.nodes[j].kind = db.nodes[j].kind
            /\ db'.nodes[j].nlink = db.nodes[j].nlink + One(j = d /\ k = "dir")
            /\ db.nodes[j].nlink \in Int /\ (LiveIn(h, j) => LiveIn(g, j))
        BY <2>3, <1>4, <1>7
      <3>2. IF db.nodes[j].kind = "dir"
            THEN /\ db.nodes[j].nlink >= 1
                 /\ LiveIn(g, j) => db.nodes[j].nlink = 2 + Cardinality(SubdirsIn(g, j))
            ELSE db.nodes[j].nlink = Cardinality(EntriesIn(g, j))
        BY <3>1, <1>1 DEF NamesOK, Tally, g
      <3> QED
        BY <2>1, <2>3, <3>1, <3>2 DEF One
    <2> QED
      BY <2>2, <2>3
  <1>12. Covered(h, replaced')
    <2>1. LiveIn(g, d) /\ Covered(g, replaced)
      BY DEF g, NamesInv
    <2> QED
      BY <2>1, <1>3, <1>7 DEF Covered
  <1>13. db'.nodes[Root].kind = "dir"
    BY <1>1, InosAssumption DEF NamesOK
  <1> QED
    BY <1>8, <1>9, <1>10, <1>11, <1>12, <1>13 DEF NamesInv, NamesOK, h

\* Nothing is in or leads to an inode that is not there.
LEMMA Unused ==
  ASSUME NamesOK(db), NEW i \in Inos, db.nodes[i] = NoNode
  PROVE  /\ \A m \in Names : db.edges[<<i, m>>] = NoEdge
         /\ \A e \in Places : db.edges[e].child # i
  <1>1. db \in Tables /\ db.nodes[i].kind = "none"
    BY NoNodeKind DEF NamesOK
  <1>2. ASSUME NEW d \in Inos, NEW m \in Names, db.edges[<<d, m>>] # NoEdge
        PROVE  d # i /\ db.edges[<<d, m>>].child # i
    <2>1. /\ db.nodes[d].kind = "dir"
          /\ db.nodes[db.edges[<<d, m>>].child].kind = db.edges[<<d, m>>].kind
      BY <1>2 DEF NamesOK, Resolved
    <2>2. db.edges[<<d, m>>].kind \in Kinds
      BY <1>1, <1>2, NoEdgeKind
    <2> QED
      BY <1>1, <2>1, <2>2 DEF Kinds
  <1>3. ASSUME NEW d \in Inos, NEW m \in Names, db.edges[<<d, m>>].child = i
        PROVE  FALSE
    BY <1>1, <1>2, <1>3, NoEdgeKind, InosAssumption
  <1> QED
    BY <1>2, <1>3 DEF Places

LEMMA CreatedRows ==
  ASSUME NamesInv, TypeOK', NEW d \in Inos, NEW n \in Names, NEW k \in Kinds, Create(d, n, k)
  PROVE  db.next \in Inos /\ db.nodes[db.next] = NoNode /\ PutRow(d, n, db.next, k)
  <1> DEFINE i == db.next
             a == InsertNode(db, i, k)
             b == NewEntry(a, d, n, k)
             p == IF k = "dir" THEN AddLinks(b, d, 1) ELSE b
             s == IF k = "symlink" THEN p.symlinks \cup {i} ELSE p.symlinks
             row == [kind |-> k, nlink |-> IF k = "dir" THEN 2 ELSE 1]
  <1>1. /\ NamesOK(db) /\ db \in Tables /\ InDir(d) /\ ~Taken(d, n) /\ i \in Inos
        /\ db' = [p EXCEPT !.next = i + 1, !.symlinks = s] /\ replaced' = replaced /\ db' \in Tables
    BY DEF Create, NamesInv, NamesOK, TypeOK
  <1>2. i \in Nat /\ db.nodes[i] = NoNode
    BY <1>1, InosAssumption DEF NamesOK, Counter
  <1>3. /\ db.nodes[d].kind = "dir" /\ db.nodes[d] # NoNode /\ LiveIn(db.edges, d)
        /\ db.edges[<<d, n>>] = NoEdge /\ i # d /\ i # Root
    <2>1. db.nodes[Root].kind = "dir" /\ db.nodes[i].kind = "none"
      BY <1>1, <1>2 DEF NamesOK, NoNode
    <2> QED
      BY <1>1, <1>2, <2>1, DirRow DEF Taken, Entry
  <1>4. row \in Nodes /\ row.kind = k /\ row.nlink = IF k = "dir" THEN 2 ELSE 1
    BY NodeTypes
  <1>5. /\ a \in Tables /\ a.edges = db.edges /\ a.next = db.next
        /\ a.nodes = [db.nodes EXCEPT ![i] = row]
    <2>1. a = [db EXCEPT !.nodes[i] = row]
      BY DEF InsertNode
    <2> HIDE DEF a, row, i
    <2> QED
      BY <2>1, <1>1, <1>4 DEF Tables
  <1>6. /\ b \in Tables /\ b.nodes = a.nodes /\ b.next = a.next
        /\ b.edges = [db.edges EXCEPT ![<<d, n>>] = [child |-> i, kind |-> k]]
    <2>1. [child |-> i, kind |-> k] \in Edges
      BY <1>1 DEF Edges
    <2>2. b = [a EXCEPT !.edges[<<d, n>>] = [child |-> i, kind |-> k]]
      BY DEF NewEntry, InsertEdge
    <2> HIDE DEF a, b, i
    <2> QED
      BY <2>1, <2>2, <1>5 DEF Tables
  <1> HIDE DEF a, b, row
  <1>7. /\ p \in Tables /\ p.edges = b.edges /\ p.next = b.next
        /\ \A j \in Inos : p.nodes[j].kind = b.nodes[j].kind
        /\ \A j \in Inos : b.nodes[j] # NoNode =>
             p.nodes[j].nlink = b.nodes[j].nlink + One(j = d /\ k = "dir")
    <2>0. \A j \in Inos : b.nodes[j] # NoNode => b.nodes[j].nlink \in Int
      BY <1>6, NoNodeKind
    <2>1. CASE k = "dir"
      <3>1. Relinked(b, p, d, 1)
        BY <2>1, <1>6, AddLinksRelinks
      <3> HIDE DEF p
      <3>2. \A j \in Inos : One(j = d /\ k = "dir") = IF j = d THEN 1 ELSE 0
        BY <2>1 DEF One
      <3>3. \A j \in Inos : b.nodes[j] # NoNode =>
              p.nodes[j].nlink = b.nodes[j].nlink + (IF j = d THEN 1 ELSE 0)
        <4> TAKE j \in Inos
        <4> HAVE b.nodes[j] # NoNode
        <4>1. b.nodes[j].nlink \in Int
          BY <2>0
        <4> QED
          BY <3>1, <4>1 DEF Relinked
      <3> QED
        BY <3>1, <3>2, <3>3 DEF Relinked
    <2>2. CASE k # "dir"
      <3>1. \A j \in Inos : One(j = d /\ k = "dir") = 0
        BY <2>2 DEF One
      <3>2. p = b
        BY <2>2
      <3>3. \A j \in Inos : b.nodes[j] # NoNode => b.nodes[j].nlink + 0 = b.nodes[j].nlink
        BY <2>0
      <3> QED
        BY <1>6, <3>1, <3>2, <3>3
    <2> QED
      BY <2>1, <2>2
  <1> HIDE DEF p, s
  <1>8. db'.nodes = p.nodes /\ db'.edges = p.edges /\ db'.next = i + 1
    BY <1>1, <1>7 DEF Tables
  <1> HIDE DEF i
  <1>9. /\ a.nodes[i] = row /\ (\A j \in Inos \ {i} : a.nodes[j] = db.nodes[j])
        /\ row # NoNode
    BY <1>1, <1>4, <1>5 DEF Tables, NoNode, Kinds
  <1>10. EntriesIn(db.edges, i) = {}
    BY <1>1, <1>2, Unused DEF EntriesIn
  <1>11. /\ db'.nodes[i].kind = k
         /\ db'.nodes[i].nlink = IF k = "dir" THEN 2 ELSE Cardinality(EntriesIn(db.edges, i)) + 1
    <2>1. Cardinality(EntriesIn(db.edges, i)) = 0
      BY <1>10, FS_EmptySet
    <2>2. b.nodes[i] # NoNode /\ b.nodes[i].kind = k
          /\ b.nodes[i].nlink = IF k = "dir" THEN 2 ELSE 1
      BY <1>4, <1>6, <1>9
    <2> QED
      BY <1>1, <1>3, <1>7, <1>8, <2>1, <2>2 DEF One
  <1>12. \A j \in Inos \ {i} :
           /\ db'.nodes[j].kind = db.nodes[j].kind
           /\ db.nodes[j] # NoNode =>
                db'.nodes[j].nlink = db.nodes[j].nlink + One(j = d /\ k = "dir")
    BY <1>6, <1>7, <1>8, <1>9
  <1>13. db'.next >= db.next /\ i < db'.next
    BY <1>2, <1>8 DEF i
  <1>14. db'.edges = [db.edges EXCEPT ![<<d, n>>] = [child |-> i, kind |-> k]]
    BY <1>6, <1>7, <1>8
  <1>15. /\ \A m \in Names : db.edges[<<i, m>>] = NoEdge
         /\ \A e \in Places : db.edges[e].child # i
    BY <1>1, <1>2, Unused
  <1> QED
    BY <1>1, <1>2, <1>3, <1>11, <1>12, <1>13, <1>14, <1>15 DEF PutRow, i

LEMMA LinkedRows ==
  ASSUME NamesInv, TypeOK', NEW d \in Inos, NEW n \in Names, NEW i \in Inos, Link(i, d, n)
  PROVE  db.nodes[i].kind \in Kinds \ {"dir"} /\ PutRow(d, n, i, db.nodes[i].kind)
  <1> DEFINE k == db.nodes[i].kind
             a == AddLinks(db, i, 1)
  <1>1. /\ NamesOK(db) /\ db \in Tables /\ db' \in Tables /\ InDir(d) /\ ~Taken(d, n)
        /\ db.nodes[i] # NoNode /\ k # "dir" /\ replaced' = replaced
        /\ db' = InsertEdge(a, d, n, i, k)
    BY DEF Link, MayLink, Exists, IsDir, NamesInv, NamesOK, TypeOK
  <1>2. k \in Kinds /\ db.nodes[i].nlink \in Int
    BY <1>1, NoNodeKind
  <1>3. Relinked(db, a, i, 1)
    BY <1>1, AddLinksRelinks
  <1> HIDE DEF a
  <1>4. /\ db'.nodes = a.nodes /\ db'.next = db.next
        /\ db'.edges = [db.edges EXCEPT ![<<d, n>>] = [child |-> i, kind |-> k]]
    BY <1>1, <1>3 DEF InsertEdge, Relinked, Tables
  <1>5. /\ db.nodes[d].kind = "dir" /\ LiveIn(db.edges, d) /\ db.edges[<<d, n>>] = NoEdge
        /\ i # d /\ i # Root
    BY <1>1, DirRow DEF NamesOK, Taken, Entry
  <1>6. \A m \in Names : db.edges[<<i, m>>] = NoEdge
    BY <1>1 DEF NamesOK, Resolved
  <1>7. \A e \in Places : db.edges[e].child = i => k # "dir" /\ db.edges[e].kind = k
    <2> SUFFICES ASSUME NEW x \in Inos, NEW m \in Names, db.edges[<<x, m>>].child = i
                 PROVE  db.edges[<<x, m>>].kind = k
      BY <1>1 DEF Places
    <2>1. db.edges[<<x, m>>] # NoEdge
      BY InosAssumption DEF NoEdge
    <2> QED
      BY <2>1, <1>1 DEF NamesOK, Resolved
  <1>8. db'.nodes[i].nlink = IF k = "dir" THEN 2 ELSE Cardinality(EntriesIn(db.edges, i)) + 1
    <2>1. db.nodes[i].nlink = Cardinality(EntriesIn(db.edges, i))
      BY <1>1 DEF NamesOK, Tally
    <2> QED
      BY <2>1, <1>1, <1>3, <1>4 DEF Relinked
  <1>9. db'.next >= db.next /\ i < db'.next
    BY <1>1, <1>4 DEF NamesOK, Counter, Tables
  <1>10. \A j \in Inos : db'.nodes[j].kind = db.nodes[j].kind
    BY <1>3, <1>4 DEF Relinked
  <1>11. \A j \in Inos \ {i} : db.nodes[j] # NoNode =>
           db'.nodes[j].nlink = db.nodes[j].nlink + One(j = d /\ k = "dir")
    BY <1>1, <1>3, <1>4, NoNodeKind DEF Relinked, One
  <1> HIDE DEF k
  <1>12. db'.nodes[i].kind = k
    BY <1>10 DEF k
  <1> QED
    BY <1>1, <1>2, <1>4, <1>5, <1>6, <1>7, <1>8, <1>9, <1>10, <1>11, <1>12 DEF PutRow, k

LEMMA NamesCreate ==
  ASSUME NamesInv, TypeOK', NEW d \in Inos, NEW n \in Names, NEW k \in Kinds, Create(d, n, k)
  PROVE  NamesInv'
  BY CreatedRows, PutInv DEF Create, TypeOK

LEMMA NamesLink ==
  ASSUME NamesInv, TypeOK', NEW d \in Inos, NEW n \in Names, NEW i \in Inos, Link(i, d, n)
  PROVE  NamesInv'
  BY LinkedRows, PutInv DEF Link, TypeOK

\* A step that leaves nodes and entries as they are.
LEMMA SameInv ==
  ASSUME NamesInv, TypeOK', db'.nodes = db.nodes, db'.edges = db.edges, db'.next = db.next,
         replaced' = replaced
  PROVE  NamesInv'
  BY DEF NamesInv, NamesOK, Resolved, OneParent, Counter, Tally, Covered, TypeOK

LEMMA NamesForget ==
  ASSUME NamesInv, TypeOK', NEW i \in Inos, Forget(i)
  PROVE  NamesInv'
  <1>1. CASE ~Linkless(i)
    BY <1>1, SameInv DEF Forget
  <1>2. CASE Linkless(i)
    <2>1. /\ NamesOK(db) /\ db \in Tables /\ db' \in Tables /\ replaced' = replaced
          /\ db.nodes[i] # NoNode /\ db.nodes[i].nlink = 0
      BY <1>2 DEF Forget, Linkless, Exists, NamesInv, NamesOK, TypeOK
    <2>2. /\ db'.edges = db.edges /\ db'.next = db.next
          /\ db'.nodes[i] = NoNode /\ \A j \in Inos \ {i} : db'.nodes[j] = db.nodes[j]
      BY <1>2, <2>1 DEF Forget, Removed, DeleteNode, Tables
    <2>3. db.nodes[i].kind # "dir" /\ Cardinality(EntriesIn(db.edges, i)) = 0
      BY <2>1 DEF NamesOK, Tally
    <2>4. EntriesIn(db.edges, i) = {}
      BY <2>3, CountTypes, FS_EmptySet
    <2>5. \A a \in Inos, m \in Names : db.edges[<<a, m>>].child # i
      BY <2>4 DEF EntriesIn, Places
    <2>6. \A m \in Names : db.edges[<<i, m>>] = NoEdge
      BY <2>1, <2>3 DEF NamesOK, Resolved
    <2>7. Resolved(db')
      <3> SUFFICES ASSUME NEW a \in Inos, NEW m \in Names, db.edges[<<a, m>>] # NoEdge
                   PROVE  LET x == db.edges[<<a, m>>]
                          IN /\ db'.nodes[a].kind = "dir"
                             /\ db'.nodes[x.child].kind = x.kind
                             /\ x.child \notin {Root, a}
        BY <2>2 DEF Resolved
      <3> QED
        BY <2>1, <2>2, <2>5, <2>6, NoEdgeKind DEF NamesOK, Resolved
    <2>8. OneParent(db') /\ Counter(db') /\ Tally(db')
      BY <2>1, <2>2 DEF NamesOK, OneParent, Counter, Tally
    <2>9. db'.nodes[Root].kind = "dir" /\ Covered(db'.edges, replaced')
      BY <2>1, <2>2, <2>3, InosAssumption DEF NamesOK, NamesInv
    <2> QED
      BY <2>1, <2>7, <2>8, <2>9 DEF NamesInv, NamesOK
  <1> QED
    BY <1>1, <1>2

LEMMA NamesChunks ==
  ASSUME NamesInv, TypeOK', NEW i \in Inos, WriteSlice(i) \/ GetChunks(i) \/ ReplaceSlices(i)
  PROVE  NamesInv'
  <1>1. replaced' = replaced /\ (db' = db \/ db' = [db EXCEPT !.chunks = @ \cup {i}]) /\ db \in Tables
    BY DEF WriteSlice, GetChunks, ReplaceSlices, NamesInv, NamesOK
  <1>2. db'.nodes = db.nodes /\ db'.edges = db.edges /\ db'.next = db.next
    BY <1>1 DEF Tables
  <1> QED
    BY <1>1, <1>2, SameInv

LEMMA NamesInit == RedbInit /\ TypeOK => NamesInv
  <1> SUFFICES ASSUME RedbInit, TypeOK PROVE NamesInv
    OBVIOUS
  <1> DEFINE row == [kind |-> "dir", nlink |-> 2]
  <1>1. /\ db.edges = [e \in Inos \X Names |-> NoEdge] /\ db.next = 2 /\ db \in Tables
        /\ db.nodes = [[i \in Inos |-> NoNode] EXCEPT ![Root] = row]
    BY InosAssumption DEF RedbInit, InsertNode, Empty, TypeOK
  <1>2. /\ db.nodes[Root] = row /\ \A j \in Inos \ {Root} : db.nodes[j] = NoNode
        /\ \A e \in Places : db.edges[e] = NoEdge
        /\ \A d \in Inos, n \in Names : db.edges[<<d, n>>] = NoEdge
    BY <1>1, InosAssumption DEF Places
  <1>3. SubdirsIn(db.edges, Root) = {}
    BY <1>2, InosAssumption DEF SubdirsIn, NoEdge
  <1>4. Tally(db)
    BY <1>2, <1>3, FS_EmptySet DEF Tally
  <1>5. Resolved(db) /\ OneParent(db) /\ Covered(db.edges, replaced)
    BY <1>2 DEF Resolved, OneParent, Covered
  <1>6. Counter(db)
    BY <1>1, <1>2 DEF Counter, Root
  <1> QED
    BY <1>1, <1>2, <1>4, <1>5, <1>6 DEF NamesInv, NamesOK

-----------------------------------------------------------------------------
(* rename.                                                                 *)

\* What rename does to the tables: the entry moves, the one it replaces goes,
\* gone says whether there is one, and the counts follow.
RenamedRow(sd, sn, dd, dn, gone, u) ==
    LET c == Child(sd, sn)
        over == Child(dd, dn)
    IN /\ \A j \in Inos : u.nodes[j].kind = db.nodes[j].kind
       /\ u.edges = [db.edges EXCEPT ![<<dd, dn>>] = db.edges[<<sd, sn>>], ![<<sd, sn>>] = NoEdge]
       /\ u.next = db.next
       /\ \A j \in Inos : db.nodes[j] # NoNode =>
            u.nodes[j].nlink = db.nodes[j].nlink
                - One(gone /\ j = over) - One(gone /\ j = dd /\ IsDir(over))
                - One(sd # dd /\ j = sd /\ IsDir(c)) + One(sd # dd /\ j = dd /\ IsDir(c))

LEMMA RenamedRows ==
  ASSUME NamesInv, NEW sd \in Inos, NEW sn \in Names, NEW dd \in Inos, NEW dn \in Names,
         Rename(sd, sn, dd, dn)
  PROVE  RenamedRow(sd, sn, dd, dn, Taken(dd, dn), db')
  <1> DEFINE c == Child(sd, sn)
             over == Child(dd, dn)
             gone == Taken(dd, dn)
             t == IF gone THEN Dropped(dd, dn, over) ELSE db
             u == MoveEdge(t, sd, sn, dd, dn)
             v == Saturating(u, sd)
             w == AddLinks(v, dd, 1)
  <1>1. /\ NamesOK(db) /\ db \in Tables /\ InDir(sd) /\ InDir(dd) /\ Taken(sd, sn)
        /\ gone => over # c /\ over \notin Above(sd)
        /\ db' = Recounted(u, c, sd, dd)
    BY DEF Rename, MayRename, NamesInv, NamesOK
  <1>2. <<sd, sn>> # <<dd, dn>> /\ (gone => over # sd)
    BY <1>1, InAbove DEF Child, Taken, Entry
  <1>3. \A j \in Inos : db.nodes[j] # NoNode => db.nodes[j].nlink \in Int
    BY <1>1, NoNodeKind
  <1>4. /\ db.nodes[sd] # NoNode /\ db.nodes[sd].nlink >= 2 /\ db.nodes[dd] # NoNode
    <2>1. /\ db.nodes[sd] # NoNode /\ db.nodes[dd] # NoNode
          /\ db.nodes[sd].nlink = 2 + Cardinality(SubdirsIn(db.edges, sd))
      BY <1>1, DirRow
    <2> QED
      BY <2>1, CountTypes
  <1>5. /\ t \in Tables /\ t.next = db.next
        /\ \A j \in Inos : t.nodes[j].kind = db.nodes[j].kind
        /\ \A j \in Inos : db.nodes[j] # NoNode => t.nodes[j].nlink =
             db.nodes[j].nlink - One(gone /\ j = over) - One(gone /\ j = dd /\ IsDir(over))
        /\ t.edges = IF gone THEN [db.edges EXCEPT ![<<dd, dn>>] = NoEdge] ELSE db.edges
    <2>1. CASE gone
      <3>1. DroppedRow(dd, dn, over, Dropped(dd, dn, over))
        BY <1>1, <2>1, DroppedRows
      <3> QED
        BY <2>1, <3>1 DEF DroppedRow, One
    <2>2. CASE ~gone
      BY <2>2, <1>1, <1>3 DEF One
    <2> QED
      BY <2>1, <2>2
  <1> HIDE DEF t, gone, c, over
  <1>6. t.edges[<<sd, sn>>] = db.edges[<<sd, sn>>] /\ t.edges \in [Places -> Edges]
    BY <1>1, <1>2, <1>5, EdgesType DEF Places
  <1>7. /\ u \in Tables /\ u.nodes = t.nodes /\ u.next = t.next
        /\ u.edges = [t.edges EXCEPT ![<<dd, dn>>] = t.edges[<<sd, sn>>], ![<<sd, sn>>] = NoEdge]
    BY <1>5, NodeTypes DEF MoveEdge, Tables
  <1>8. u.edges = [db.edges EXCEPT ![<<dd, dn>>] = db.edges[<<sd, sn>>], ![<<sd, sn>>] = NoEdge]
    <2>1. db.edges \in [Places -> Edges]
      BY <1>1, EdgesType
    <2> QED
      BY <2>1, <1>2, <1>5, <1>6, <1>7 DEF Places
  <1> HIDE DEF u
  <1>9. CASE ~(IsDir(c) /\ sd # dd)
    <2>1. db' = u
      BY <1>1, <1>9 DEF Recounted
    <2>2. /\ \A j \in Inos : u.nodes[j].kind = db.nodes[j].kind
          /\ \A j \in Inos : db.nodes[j] # NoNode => u.nodes[j].nlink =
               db.nodes[j].nlink - One(gone /\ j = over) - One(gone /\ j = dd /\ IsDir(over))
                - One(sd # dd /\ j = sd /\ IsDir(c)) + One(sd # dd /\ j = dd /\ IsDir(c))
      BY <1>3, <1>5, <1>7, <1>9 DEF One
    <2> QED
      BY <2>1, <2>2, <1>5, <1>7, <1>8 DEF RenamedRow, c, over, gone
  <1>10. CASE IsDir(c) /\ sd # dd
    <2>1. db' = w
      BY <1>1, <1>10 DEF Recounted
    <2>2. u.nodes[sd].nlink >= 1
      BY <1>2, <1>3, <1>4, <1>5, <1>7, <1>10 DEF One
    <2>3. Relinked(u, v, sd, -1)
      BY <1>7, <2>2, SaturatingRelinks
    <2> HIDE DEF v
    <2>4. Relinked(v, w, dd, 1)
      BY <2>3, AddLinksRelinks DEF Relinked
    <2> HIDE DEF w
    <2>5. \A j \in Inos : /\ u.nodes[j] = NoNode <=> db.nodes[j] = NoNode
                          /\ v.nodes[j] = NoNode <=> db.nodes[j] = NoNode
      BY <1>1, <1>5, <1>7, <2>3, NoNodeKind DEF Relinked
    <2>6. w.edges = u.edges /\ w.next = db.next
      BY <1>5, <1>7, <2>3, <2>4 DEF Relinked
    <2>7. \A j \in Inos : w.nodes[j].kind = db.nodes[j].kind
      BY <1>5, <1>7, <2>3, <2>4 DEF Relinked
    <2>8. \A j \in Inos : db.nodes[j] # NoNode => w.nodes[j].nlink =
            db.nodes[j].nlink - One(gone /\ j = over) - One(gone /\ j = dd /\ IsDir(over))
                - One(sd # dd /\ j = sd /\ IsDir(c)) + One(sd # dd /\ j = dd /\ IsDir(c))
      <3> SUFFICES ASSUME NEW j \in Inos, db.nodes[j] # NoNode
                   PROVE  w.nodes[j].nlink =
            db.nodes[j].nlink - One(gone /\ j = over) - One(gone /\ j = dd /\ IsDir(over))
                - One(sd # dd /\ j = sd /\ IsDir(c)) + One(sd # dd /\ j = dd /\ IsDir(c))
        OBVIOUS
      <3>1. /\ u.nodes[j].nlink =
               db.nodes[j].nlink - One(gone /\ j = over) - One(gone /\ j = dd /\ IsDir(over))
            /\ db.nodes[j].nlink \in Int
        BY <1>3, <1>5, <1>7
      <3>2. v.nodes[j].nlink = u.nodes[j].nlink - One(j = sd)
        BY <3>1, <2>3, <2>5 DEF Relinked, One
      <3>3. w.nodes[j].nlink = v.nodes[j].nlink + One(j = dd)
        BY <3>1, <3>2, <2>4, <2>5 DEF Relinked, One
      <3> QED
        BY <1>10, <3>1, <3>2, <3>3 DEF One
    <2> QED
      BY <2>1, <2>6, <2>7, <2>8, <1>8 DEF RenamedRow, c, over, gone
  <1> QED
    BY <1>9, <1>10

LEMMA NamesRename ==
  ASSUME NamesInv, TypeOK', NEW sd \in Inos, NEW sn \in Names, NEW dd \in Inos, NEW dn \in Names,
         Rename(sd, sn, dd, dn)
  PROVE  NamesInv'
  <1> DEFINE g == db.edges
             h == db'.edges
             c == Child(sd, sn)
             over == Child(dd, dn)
             gone == Taken(dd, dn)
             D(i) == db.nodes[i].kind = "dir"
  <1>1. /\ NamesOK(db) /\ db \in Tables /\ db' \in Tables /\ InDir(sd) /\ InDir(dd)
        /\ Taken(sd, sn)
        /\ D(c) => c \notin Above(dd)
        /\ gone => over # c /\ over \notin Above(sd)
    BY DEF Rename, MayRename, NamesInv, NamesOK, TypeOK, IsDir
  <1>2. RenamedRow(sd, sn, dd, dn, gone, db')
    BY RenamedRows
  <1>3. /\ c = g[<<sd, sn>>].child /\ g[<<sd, sn>>] # NoEdge
        /\ over = g[<<dd, dn>>].child /\ (gone <=> g[<<dd, dn>>] # NoEdge)
    BY <1>1 DEF Child, Taken, Entry
  <1>4. /\ c \in Inos /\ c # Root /\ c # sd /\ g[<<sd, sn>>].kind = db.nodes[c].kind
    BY <1>1, ChildRow
  <1>5. gone => /\ over \in Inos /\ over # Root /\ over # dd
                /\ g[<<dd, dn>>].kind = db.nodes[over].kind
                /\ db.nodes[over].nlink \in Int /\ (D(over) => db.nodes[over].nlink >= 2)
    <2>1. ASSUME gone
          PROVE  /\ over \in Inos /\ over # Root /\ over # dd
                 /\ g[<<dd, dn>>].kind = db.nodes[over].kind
                 /\ db.nodes[over].nlink \in Int /\ (IsDir(over) => db.nodes[over].nlink >= 2)
      BY <1>1, <2>1, ChildRow
    <2> QED
      BY <2>1 DEF IsDir
  <1>6. /\ D(sd) /\ LiveIn(g, sd) /\ D(dd) /\ LiveIn(g, dd)
    BY <1>1, DirRow
  <1>7. /\ c # dd /\ (gone => over # sd) /\ <<sd, sn>> # <<dd, dn>>
    <2>1. dd \in Above(dd) /\ sd \in Above(sd)
      BY InAbove
    <2> HIDE DEF c, over, gone
    <2> QED
      BY <2>1, <1>1, <1>3, <1>6
  <1>8. /\ \A j \in Inos : db'.nodes[j].kind = db.nodes[j].kind
        /\ db'.next = db.next /\ Moved(g, h, sd, sn, dd, dn)
        /\ \A j \in Inos : db.nodes[j] # NoNode =>
             db'.nodes[j].nlink = db.nodes[j].nlink
                - One(gone /\ j = over) - One(gone /\ j = dd /\ D(over))
                - One(sd # dd /\ j = sd /\ D(c)) + One(sd # dd /\ j = dd /\ D(c))
    <2>1. db'.next = db.next /\ Moved(g, h, sd, sn, dd, dn)
      BY <1>2 DEF RenamedRow, Moved
    <2>2. \A j \in Inos : db'.nodes[j].kind = db.nodes[j].kind
      BY <1>2 DEF RenamedRow
    <2>3. \A j \in Inos : db.nodes[j] # NoNode =>
             db'.nodes[j].nlink = db.nodes[j].nlink
                - One(gone /\ j = over) - One(gone /\ j = dd /\ D(over))
                - One(sd # dd /\ j = sd /\ D(c)) + One(sd # dd /\ j = dd /\ D(c))
      BY <1>2 DEF RenamedRow, IsDir
    <2> QED
      BY <2>1, <2>2, <2>3
  <1>9. g \in [Places -> Edges]
    BY <1>1, EdgesType
  <1>10. ASSUME NEW j \in Inos
         PROVE  /\ Cardinality(EntriesIn(h, j)) = Cardinality(EntriesIn(g, j)) - One(gone /\ j = over)
                /\ Cardinality(SubdirsIn(h, j)) =
                     Cardinality(SubdirsIn(g, j)) - One(gone /\ j = dd /\ D(over))
                         - One(j = sd /\ D(c)) + One(j = dd /\ D(c))
    <2> DEFINE x == g[<<sd, sn>>]
               y == g[<<dd, dn>>]
    <2> HIDE DEF g, h, c, over, gone
    <2>1. /\ Cardinality(EntriesIn(h, j)) =
               Cardinality(EntriesIn(g, j)) - One(y # NoEdge /\ j = y.child)
          /\ Cardinality(SubdirsIn(h, j)) =
               Cardinality(SubdirsIn(g, j)) - One(y # NoEdge /\ j = dd /\ y.kind = "dir")
                   - One(j = sd /\ x.kind = "dir") + One(j = dd /\ x.kind = "dir")
      BY <1>3, <1>7, <1>8, <1>9, MoveCounts
    <2> QED
      BY <2>1, <1>3, <1>4, <1>5 DEF One
  <1>11. /\ h[<<dd, dn>>] = g[<<sd, sn>>] /\ h[<<sd, sn>>] = NoEdge
         /\ \A e \in Places \ {<<sd, sn>>, <<dd, dn>>} : h[e] = g[e]
         /\ <<sd, sn>> \in Places /\ <<dd, dn>> \in Places
    <2>1. h = [g EXCEPT ![<<dd, dn>>] = g[<<sd, sn>>], ![<<sd, sn>>] = NoEdge]
      BY <1>8 DEF Moved
    <2> HIDE DEF g, h
    <2> QED
      BY <2>1, <1>7, <1>9 DEF Places
  <1> HIDE DEF g, h, c, over, gone
  <1>12. \A j \in Inos : /\ db'.nodes[j] = NoNode <=> db.nodes[j] = NoNode
                         /\ db.nodes[j] # NoNode => db.nodes[j].nlink \in Int
                         /\ Cardinality(EntriesIn(g, j)) \in Nat
                         /\ Cardinality(SubdirsIn(g, j)) \in Nat
    BY <1>1, <1>8, NoNodeKind, CountTypes
  <1>13. ASSUME NEW j \in Inos
         PROVE  /\ LiveIn(h, j) => LiveIn(g, j)
                /\ LiveIn(g, j) /\ ~(gone /\ j = over) => LiveIn(h, j)
                /\ LiveIn(h, j) /\ gone /\ j = over => ~D(over)
    <2>0. j # 0 /\ NoEdge.child = 0
      BY InosAssumption DEF NoEdge
    <2>1. \A e \in Places : h[e].child = j => \E f \in Places : g[f].child = j
      BY <2>0, <1>11
    <2>2. ASSUME NEW e \in Places, g[e].child = j, ~(gone /\ j = over)
          PROVE  \E f \in Places : h[f].child = j
      <3>1. CASE e = <<sd, sn>>
        BY <2>2, <3>1, <1>11
      <3>2. CASE e # <<sd, sn>>
        <4>1. e # <<dd, dn>>
          BY <2>0, <2>2, <1>3
        <4> QED
          BY <2>2, <3>2, <4>1, <1>11
      <3> QED
        BY <3>1, <3>2
    <2>3. ASSUME NEW e \in Places, h[e].child = over, gone, D(over)
          PROVE  FALSE
      <3>1. over # 0 /\ over # c
        BY <2>3, <1>1, <1>5, InosAssumption
      <3>2. e \in Places \ {<<sd, sn>>, <<dd, dn>>} /\ g[e].child = over
        BY <2>0, <2>3, <3>1, <1>3, <1>11
      <3> QED
        BY <3>2, <2>3, <1>1, <1>3, <1>5, <1>11 DEF NamesOK, OneParent, g
    <2> QED
      BY <2>1, <2>2, <2>3, <1>5 DEF LiveIn
  <1>14. Resolved(db')
    <2> SUFFICES ASSUME NEW a \in Inos, NEW m \in Names, h[<<a, m>>] # NoEdge
                 PROVE  /\ db'.nodes[a].kind = "dir"
                        /\ db'.nodes[h[<<a, m>>].child].kind = h[<<a, m>>].kind
                        /\ h[<<a, m>>].child \notin {Root, a}
      BY DEF Resolved, h
    <2>1. CASE <<a, m>> = <<dd, dn>>
      BY <2>1, <1>3, <1>4, <1>6, <1>7, <1>8, <1>11
    <2>2. CASE <<a, m>> # <<dd, dn>>
      <3>1. h[<<a, m>>] = g[<<a, m>>] /\ g[<<a, m>>] # NoEdge
        BY <2>2, <1>11 DEF Places
      <3>2. /\ db.nodes[a].kind = "dir" /\ g[<<a, m>>].child \notin {Root, a}
            /\ db.nodes[g[<<a, m>>].child].kind = g[<<a, m>>].kind
        BY <3>1, <1>1 DEF NamesOK, Resolved, g
      <3>3. g[<<a, m>>].child \in Inos
        BY <3>1, <1>1, NoEdgeKind DEF g
      <3> QED
        BY <3>1, <3>2, <3>3, <1>8
    <2> QED
      BY <2>1, <2>2
  <1>15. OneParent(db')
    <2> SUFFICES ASSUME NEW e \in Places, NEW f \in Places, h[e] # NoEdge, h[e].kind = "dir",
                        h[f].child = h[e].child, e # f
                 PROVE  FALSE
      BY DEF OneParent, h
    <2>0. ASSUME NEW x \in Places, g[x] # NoEdge PROVE g[x].child # 0
      <3>1. PICK a \in Inos, m \in Names : x = <<a, m>>
        BY DEF Places
      <3> QED
        BY <3>1, <2>0, <1>1, NoEdgeKind DEF g
    <2>1. h[e].child # 0
      BY <2>0, <1>3, <1>11
    <2>2. f # <<sd, sn>> /\ e # <<sd, sn>>
      BY <2>1, <1>11 DEF NoEdge
    <2>3. CASE e = <<dd, dn>>
      <3>1. g[f].child = g[<<sd, sn>>].child /\ g[<<sd, sn>>].kind = "dir"
        BY <2>2, <2>3, <1>11
      <3> QED
        BY <3>1, <2>2, <1>1, <1>3, <1>11 DEF NamesOK, OneParent, g
    <2>4. CASE f = <<dd, dn>>
      <3>1. g[<<sd, sn>>].child = g[e].child /\ g[e].kind = "dir" /\ g[e] # NoEdge
        BY <2>2, <2>4, <1>11
      <3> QED
        BY <3>1, <2>2, <1>1, <1>3, <1>11 DEF NamesOK, OneParent, g
    <2>5. CASE e # <<dd, dn>> /\ f # <<dd, dn>>
      BY <2>2, <2>5, <1>1, <1>11 DEF NamesOK, OneParent, g
    <2> QED
      BY <2>3, <2>4, <2>5
  <1>16. Counter(db')
    BY <1>1, <1>8, <1>12 DEF NamesOK, Counter
  <1>17. Tally(db')
    <2> SUFFICES ASSUME NEW j \in Inos, db.nodes[j] # NoNode
                 PROVE  IF D(j)
                        THEN /\ db'.nodes[j].nlink >= 1
                             /\ LiveIn(h, j) =>
                                  db'.nodes[j].nlink = 2 + Cardinality(SubdirsIn(h, j))
                        ELSE db'.nodes[j].nlink = Cardinality(EntriesIn(h, j))
      BY <1>8, <1>12 DEF Tally, h
    <2>1. IF D(j)
          THEN /\ db.nodes[j].nlink >= 1
               /\ LiveIn(g, j) => db.nodes[j].nlink = 2 + Cardinality(SubdirsIn(g, j))
          ELSE db.nodes[j].nlink = Cardinality(EntriesIn(g, j))
      BY <1>1 DEF NamesOK, Tally, g
    <2>2. /\ db'.nodes[j].nlink = db.nodes[j].nlink
                - One(gone /\ j = over) - One(gone /\ j = dd /\ D(over))
                - One(sd # dd /\ j = sd /\ D(c)) + One(sd # dd /\ j = dd /\ D(c))
          /\ Cardinality(EntriesIn(h, j)) = Cardinality(EntriesIn(g, j)) - One(gone /\ j = over)
          /\ Cardinality(SubdirsIn(h, j)) =
               Cardinality(SubdirsIn(g, j)) - One(gone /\ j = dd /\ D(over))
                   - One(j = sd /\ D(c)) + One(j = dd /\ D(c))
          /\ db.nodes[j].nlink \in Int /\ Cardinality(EntriesIn(g, j)) \in Nat
          /\ Cardinality(SubdirsIn(g, j)) \in Nat
      BY <1>8, <1>10, <1>12
    <2>3. CASE ~D(j)
      BY <2>1, <2>2, <2>3, <1>6 DEF One
    <2>4. CASE D(j) /\ gone /\ j = over
      BY <2>1, <2>2, <2>4, <1>5, <1>7, <1>13 DEF One
    <2>5. CASE D(j) /\ ~(gone /\ j = over)
      <3>1. /\ LiveIn(h, j) <=> LiveIn(g, j)
            /\ j = sd \/ j = dd => LiveIn(g, j)
        BY <2>5, <1>6, <1>13
      <3>2. CASE ~LiveIn(g, j)
        BY <2>1, <2>2, <2>5, <3>1, <3>2 DEF One
      <3>3. CASE LiveIn(g, j)
        <4>1. db.nodes[j].nlink = 2 + Cardinality(SubdirsIn(g, j))
          BY <2>1, <2>5, <3>3
        <4>2. db'.nodes[j].nlink = 2 + Cardinality(SubdirsIn(h, j))
          BY <2>2, <2>5, <4>1 DEF One
        <4> QED
          BY <2>5, <4>2, CountTypes
      <3> QED
        BY <3>2, <3>3
    <2> QED
      BY <2>3, <2>4, <2>5
  <1>18. Covered(h, replaced')
    <2> SUFFICES ASSUME NEW x \in Inos, NEW m \in Names, h[<<x, m>>] # NoEdge
                 PROVE  LiveIn(h, x) \/ x \in replaced'
      BY DEF Covered
    <2>1. replaced \subseteq replaced' /\ (gone /\ (\E k \in Names : Taken(over, k)) => over \in replaced')
      BY DEF Rename, gone, over
    <2>2. CASE <<x, m>> = <<dd, dn>>
      BY <2>2, <1>5, <1>6, <1>13
    <2>3. CASE <<x, m>> # <<dd, dn>>
      <3>1. g[<<x, m>>] # NoEdge
        BY <2>3, <1>11 DEF Places
      <3>2. LiveIn(g, x) \/ x \in replaced
        BY <3>1 DEF NamesInv, Covered, g
      <3>3. x = over => \E k \in Names : Taken(over, k)
        BY <3>1 DEF Taken, Entry, g
      <3> QED
        BY <2>1, <3>2, <3>3, <1>13
    <2> QED
      BY <2>2, <2>3
  <1>19. db'.nodes[Root].kind = "dir"
    BY <1>1, <1>8, InosAssumption DEF NamesOK
  <1> QED
    BY <1>1, <1>14, <1>15, <1>16, <1>17, <1>18, <1>19 DEF NamesInv, NamesOK, h

-----------------------------------------------------------------------------
LEMMA NamesNext == RedbInv /\ RedbInv' /\ NamesInv /\ [RedbNext]_tableVars => NamesInv'
  <1> SUFFICES ASSUME RedbInv, RedbInv', NamesInv, [RedbNext]_tableVars PROVE NamesInv'
    OBVIOUS
  <1>1. TypeOK'
    BY DEF RedbInv
  <1>2. ASSUME NEW d \in Inos, NEW n \in Names, Lookup(d, n) PROVE NamesInv'
    BY <1>1, <1>2, SameInv DEF Lookup
  <1>3. CASE Remount
    BY <1>1, <1>3, SameInv DEF Remount
  <1>4. CASE UNCHANGED tableVars
    BY <1>1, <1>4, SameInv DEF tableVars
  <1> QED
    BY <1>1, <1>2, <1>3, <1>4, NamesCreate, NamesLink, NamesUnlink, NamesRename, NamesForget,
       NamesChunks DEF RedbNext

LEMMA NamesAlways == RedbSpec => [](RedbInv /\ NamesInv)
  <1>1. RedbInit => NamesInv
    BY NamesInit, RedbInvInit DEF RedbInv
  <1> QED
    BY <1>1, NamesNext, RedbInvAlways, PTL DEF RedbSpec

\* Through any sequence of creates, links, unlinks, renames over each other and
\* forgets, on any number of inodes and names, the link count of a node is what
\* its entries make it (redb_engine.rs:203-469, 591-641).
THEOREM LinksStayCounted == RedbSpec => []LinksCounted
  <1>1. NamesInv => LinksCounted
    <2> SUFFICES ASSUME NamesInv, NEW i \in Inos, Exists(db, i)
                 PROVE  IF IsDir(i)
                        THEN Live(i) => db.nodes[i].nlink = 2 + Cardinality(Subdirs(i))
                        ELSE db.nodes[i].nlink = Cardinality(EntriesOf(i))
      BY DEF LinksCounted, Counted
    <2>1. /\ Live(i) <=> LiveIn(db.edges, i)
          /\ EntriesOf(i) = EntriesIn(db.edges, i)
      BY DEF Live, LiveIn, EntriesOf, EntriesIn, Places
    <2>2. Subdirs(i) = SubdirsIn(db.edges, i)
      BY DEF Subdirs, SubdirsIn, Entry
    <2> QED
      BY <2>1, <2>2 DEF NamesInv, NamesOK, Tally, IsDir, Exists
  <1> QED
    BY <1>1, NamesAlways, PTL

\* No entry dangles, and each says of what kind its child is: forget, which goes
\* by the link count, removes no node that still has a name
\* (redb_engine.rs:659-693).
THEOREM EntriesStayResolved == RedbSpec => []EntriesResolve
  <1>1. NamesInv => EntriesResolve
    <2> SUFFICES ASSUME NamesInv, NEW d \in Inos, NEW n \in Names, db.edges[<<d, n>>] # NoEdge
                 PROVE  /\ Exists(db, d)
                        /\ db.nodes[db.edges[<<d, n>>].child].kind = db.edges[<<d, n>>].kind
      BY DEF EntriesResolve, Resolves
    <2> QED
      BY NoNodeKind DEF NamesInv, NamesOK, Resolved, Exists
  <1> QED
    BY <1>1, NamesAlways, PTL

\* A directory out of the tree has entries only if a rename replaced it with
\* them: unlink never leaves one behind (redb_engine.rs:317-364, 395-429).
THEOREM OnlyRenameHides == RedbSpec => []NoEntryBelowRemoved
  <1>1. NamesInv => NoEntryBelowRemoved
    <2> SUFFICES ASSUME NamesInv, NEW d \in Inos, NEW n \in Names, Taken(d, n)
                 PROVE  Live(d) \/ d \in replaced
      BY DEF NoEntryBelowRemoved
    <2> QED
      BY DEF NamesInv, Covered, LiveIn, Live, Places, Taken, Entry
  <1> QED
    BY <1>1, NamesAlways, PTL

-----------------------------------------------------------------------------
(* The engine implements Namespace.                                        *)

NKind == [i \in Inos |-> db.nodes[i].kind]
NEntry == [e \in Inos \X Names |-> db.edges[e].child]

LEMMA View ==
  ASSUME NamesInv
  PROVE  /\ \A d \in Inos, n \in Names :
              /\ NEntry[d, n] = 0 <=> ~Taken(d, n)
              /\ NEntry[d, n] = Child(d, n)
         /\ \A i \in Inos : N!Named(i) <=> EntriesIn(db.edges, i) # {}
         /\ \A i \in Inos : N!Full(i) <=> \E n \in Names : Taken(i, n)
  <1>1. db \in Tables
    BY DEF NamesInv, NamesOK
  <1>2. \A d \in Inos, n \in Names : /\ NEntry[d, n] = 0 <=> ~Taken(d, n)
                                     /\ NEntry[d, n] = Child(d, n)
    BY <1>1, NoEdgeKind DEF NEntry, Taken, Entry, Child
  <1>3. \A i \in Inos : N!Named(i) <=> EntriesIn(db.edges, i) # {}
    BY DEF N!Named, EntriesIn, Places
  <1>4. \A i \in Inos : N!Full(i) <=> \E n \in Names : Taken(i, n)
    BY <1>2 DEF N!Full, NEntry
  <1> QED
    BY <1>2, <1>3, <1>4

\* What the kernel holds is there, a node with links has a name, and one without
\* has none.
LEMMA NamedByLinks ==
  ASSUME NamesInv, NEW i \in Inos, db.nodes[i] # NoNode, db.nodes[i].kind # "dir"
  PROVE  N!Named(i) <=> db.nodes[i].nlink # 0
  <1>1. db.nodes[i].nlink = Cardinality(EntriesIn(db.edges, i))
    BY DEF NamesInv, NamesOK, Tally
  <1>2. Cardinality(EntriesIn(db.edges, i)) = 0 <=> EntriesIn(db.edges, i) = {}
    BY CountTypes, FS_EmptySet
  <1> QED
    BY <1>1, <1>2, View

LEMMA InitRefines == RedbInit /\ NamesInv => N!SpaceInit
  <1> SUFFICES ASSUME RedbInit, NamesInv PROVE N!SpaceInit
    OBVIOUS
  <1> DEFINE row == [kind |-> "dir", nlink |-> 2]
  <1>1. /\ db.edges = [e \in Inos \X Names |-> NoEdge] /\ held = {Root}
        /\ db.nodes = [[i \in Inos |-> NoNode] EXCEPT ![Root] = row]
    BY InosAssumption DEF RedbInit, InsertNode, Empty
  <1>2. NKind = [i \in Inos |-> IF i = Root THEN "dir" ELSE "none"]
    BY <1>1, InosAssumption DEF NKind, NoNode
  <1>3. NEntry = [e \in Inos \X Names |-> 0]
    BY <1>1 DEF NEntry, NoEdge
  <1> QED
    BY <1>1, <1>2, <1>3 DEF N!SpaceInit, NKind, NEntry

LEMMA PutView ==
  ASSUME NamesInv, TypeOK', NEW d \in Inos, NEW n \in Names, NEW i \in Inos, NEW k \in Kinds,
         PutRow(d, n, i, k)
  PROVE  /\ N!Free(d, n)
         /\ NKind' = [NKind EXCEPT ![i] = k]
         /\ NEntry' = [NEntry EXCEPT ![<<d, n>>] = i]
  <1>1. N!Free(d, n)
    <2>1. NEntry[d, n] = 0 /\ db.nodes[d].kind = "dir"
      BY View DEF PutRow, Taken, Entry
    <2> QED
      BY <2>1 DEF N!Free, NEntry
  <1>2. NKind' = [NKind EXCEPT ![i] = k]
    BY DEF PutRow, NKind
  <1>3. db.edges \in [Places -> Edges]
    BY EdgesType DEF NamesInv, NamesOK
  <1>4. NEntry' = [NEntry EXCEPT ![<<d, n>>] = i]
    <2> DEFINE r == [child |-> i, kind |-> k]
    <2>1. db'.edges = [db.edges EXCEPT ![<<d, n>>] = r] /\ r.child = i
      BY DEF PutRow
    <2> HIDE DEF r
    <2>2. \A e \in Places : db'.edges[e].child = IF e = <<d, n>> THEN i ELSE db.edges[e].child
      BY <1>3, <2>1 DEF Places
    <2>3. <<d, n>> \in Places
      BY DEF Places
    <2> QED
      BY <2>2, <2>3 DEF NEntry, Places
  <1> QED
    BY <1>1, <1>2, <1>4

\* A step that leaves kinds and entries as they are.
LEMMA SameView ==
  ASSUME db'.nodes = db.nodes, db'.edges = db.edges
  PROVE  NKind' = NKind /\ NEntry' = NEntry
  BY DEF NKind, NEntry

LEMMA CreateRefines ==
  ASSUME NamesInv, TypeOK', NEW d \in Inos, NEW n \in Names, NEW k \in Kinds, Create(d, n, k)
  PROVE  N!SpaceNext
  <1> DEFINE i == db.next
  <1>1. i \in Inos /\ db.nodes[i] = NoNode /\ PutRow(d, n, i, k)
    BY CreatedRows
  <1>2. N!Free(d, n) /\ NKind' = [NKind EXCEPT ![i] = k] /\ NEntry' = [NEntry EXCEPT ![<<d, n>>] = i]
    BY <1>1, PutView
  <1>3. EntriesIn(db.edges, i) = {}
    BY <1>1, Unused DEF NamesInv, EntriesIn
  <1>4. ~N!Named(i) /\ NKind[i] = "none"
    <2>1. NoNode.kind = "none"
      BY DEF NoNode
    <2>2. NKind[i] = "none"
      BY <1>1, <2>1 DEF NKind
    <2> QED
      BY <1>1, <1>3, <2>2, View
  <1>5. N!Make(d, n, i, k)
    BY <1>2, <1>4 DEF N!Make, NKind, NEntry, Create
  <1> QED
    BY <1>1, <1>5 DEF N!SpaceNext, Kinds

LEMMA LinkRefines ==
  ASSUME NamesInv, TypeOK', NEW d \in Inos, NEW n \in Names, NEW i \in Inos, Link(i, d, n)
  PROVE  N!SpaceNext
  <1> DEFINE k == db.nodes[i].kind
  <1>1. k \in Kinds \ {"dir"} /\ PutRow(d, n, i, k)
    BY LinkedRows
  <1>2. N!Free(d, n) /\ NKind' = [NKind EXCEPT ![i] = k] /\ NEntry' = [NEntry EXCEPT ![<<d, n>>] = i]
    BY <1>1, PutView
  <1>3. NKind' = NKind
    BY <1>2 DEF NKind
  <1>4. N!Named(i)
    BY <1>1, NamedByLinks DEF Link, MayLink, Exists
  <1>5. NKind[i] \notin {"dir", "none"}
    BY <1>1 DEF NKind, Kinds
  <1>6. N!Name(d, n, i)
    BY <1>2, <1>3, <1>4, <1>5 DEF N!Name, NKind, NEntry, Link
  <1> QED
    BY <1>6 DEF N!SpaceNext

LEMMA UnlinkRefines ==
  ASSUME NamesInv, TypeOK', NEW d \in Inos, NEW n \in Names, Unlink(d, n)
  PROVE  N!SpaceNext
  <1> DEFINE c == Child(d, n)
  <1>1. NamesOK(db) /\ InDir(d) /\ Taken(d, n) /\ ~NotEmpty(c) /\ held' = held
    BY DEF Unlink, NamesInv
  <1>2. DroppedRow(d, n, c, db')
    BY <1>1, DroppedRows DEF Unlink
  <1>3. c \in Inos /\ NEntry[d, n] = c /\ NEntry[d, n] # 0
    BY <1>1, ChildRow, View
  <1> HIDE DEF c
  <1>4. ~N!Full(c)
    <2>1. ASSUME NEW m \in Names, Taken(c, m) PROVE FALSE
      BY <1>1, <1>3, <2>1 DEF NotEmpty, IsDir, Taken, Entry, NamesOK, Resolved
    <2> QED
      BY <1>3, <2>1, View
  <1>5. NKind' = NKind
    BY <1>2 DEF DroppedRow, NKind
  <1>6. NEntry' = [NEntry EXCEPT ![<<d, n>>] = 0]
    <2>1. db.edges \in [Places -> Edges]
      BY <1>1, EdgesType DEF NamesOK
    <2>2. <<d, n>> \in Places /\ NoEdge.child = 0
      BY DEF Places, NoEdge
    <2>3. \A e \in Places : db'.edges[e].child = IF e = <<d, n>> THEN 0 ELSE db.edges[e].child
      BY <1>2, <2>1, <2>2 DEF DroppedRow
    <2> QED
      BY <2>2, <2>3 DEF NEntry, Places
  <1>7. N!Unname(d, n)
    BY <1>1, <1>3, <1>4, <1>5, <1>6 DEF N!Unname, NKind, NEntry
  <1> QED
    BY <1>7 DEF N!SpaceNext

LEMMA RenameRefines ==
  ASSUME NamesInv, TypeOK', NEW sd \in Inos, NEW sn \in Names, NEW dd \in Inos, NEW dn \in Names,
         Rename(sd, sn, dd, dn)
  PROVE  N!SpaceNext
  <1> DEFINE c == Child(sd, sn)
             over == Child(dd, dn)
  <1>1. /\ NamesOK(db) /\ InDir(dd) /\ Taken(sd, sn)
        /\ Taken(dd, dn) => over # c /\ (IsDir(c) <=> IsDir(over))
        /\ held' = held
    BY DEF Rename, MayRename, NamesInv
  <1>2. RenamedRow(sd, sn, dd, dn, Taken(dd, dn), db')
    BY RenamedRows
  <1>3. /\ NEntry[sd, sn] = c /\ c # 0 /\ c \in Inos
        /\ NEntry[dd, dn] = over /\ (over # 0 <=> Taken(dd, dn)) /\ (over # 0 => over \in Inos)
    <2>1. db \in Tables
      BY <1>1 DEF NamesOK
    <2> QED
      BY <2>1, <1>1, View, NoEdgeKind DEF Taken, Entry, Child
  <1> HIDE DEF c, over
  <1>4. over # c /\ (over # 0 => (NKind[c] = "dir") = (NKind[over] = "dir"))
    BY <1>1, <1>3 DEF IsDir, NKind
  <1>5. NKind[dd] = "dir"
    BY <1>1, DirRow DEF NKind
  <1>6. NKind' = NKind
    BY <1>2 DEF RenamedRow, NKind
  <1>7. NEntry' = [NEntry EXCEPT ![<<dd, dn>>] = c, ![<<sd, sn>>] = 0]
    <2>1. db.edges \in [Places -> Edges]
      BY <1>1, EdgesType DEF NamesOK
    <2>2. db'.edges = [db.edges EXCEPT ![<<dd, dn>>] = db.edges[<<sd, sn>>], ![<<sd, sn>>] = NoEdge]
      BY <1>2 DEF RenamedRow
    <2>3. <<sd, sn>> \in Places /\ <<dd, dn>> \in Places /\ db.edges[<<sd, sn>>].child = c
      BY DEF Places, c, Child, Entry
    <2>4. \A e \in Places : db'.edges[e].child =
            IF e = <<sd, sn>> THEN 0 ELSE IF e = <<dd, dn>> THEN c ELSE db.edges[e].child
      BY <2>1, <2>2, <2>3 DEF NoEdge
    <2> QED
      BY <2>3, <2>4 DEF NEntry, Places
  <1>8. N!Move(sd, sn, dd, dn)
    BY <1>1, <1>3, <1>4, <1>5, <1>6, <1>7 DEF N!Move, NKind, NEntry
  <1> QED
    BY <1>8 DEF N!SpaceNext

LEMMA ForgetRefines ==
  ASSUME RedbInv, NamesInv, NEW i \in Inos, Forget(i)
  PROVE  N!SpaceNext
  <1>1. /\ i \in held \ {Root} /\ held' = held \ {i} /\ db.nodes[i] # NoNode /\ db \in Tables
        /\ db' = IF Linkless(i) THEN Removed(i) ELSE db
    BY DEF Forget, RedbInv, HeldExist, Exists, TypeOK
  <1>2. db.nodes[i].kind = "dir" => db.nodes[i].nlink >= 1
    BY <1>1 DEF NamesInv, NamesOK, Tally
  <1>3. db.nodes[i].kind # "dir" => (N!Named(i) <=> db.nodes[i].nlink # 0)
    BY <1>1, NamedByLinks
  <1>4. CASE Linkless(i)
    <2>1. ~N!Named(i)
      BY <1>2, <1>3, <1>4 DEF Linkless
    <2>2. /\ db'.edges = db.edges
          /\ db'.nodes[i] = NoNode /\ \A j \in Inos \ {i} : db'.nodes[j] = db.nodes[j]
      BY <1>1, <1>4 DEF Removed, DeleteNode, Tables
    <2>3. NEntry' = NEntry /\ NKind' = [NKind EXCEPT ![i] = "none"]
      <3>1. NoNode.kind = "none"
        BY DEF NoNode
      <3> QED
        BY <2>2, <3>1 DEF NEntry, NKind
    <2> QED
      BY <1>1, <2>1, <2>3 DEF N!SpaceNext, N!Forget, NEntry, NKind
  <1>5. CASE ~Linkless(i)
    <2>1. N!Named(i) \/ NKind[i] = "dir"
      BY <1>1, <1>3, <1>5 DEF Linkless, Exists, NKind
    <2>2. NEntry' = NEntry /\ NKind' = NKind
      BY <1>1, <1>5 DEF NEntry, NKind
    <2> QED
      BY <1>1, <2>1, <2>2 DEF N!SpaceNext, N!Forget, NEntry, NKind
  <1> QED
    BY <1>4, <1>5

LEMMA StepRefines ==
  RedbInv /\ RedbInv' /\ NamesInv /\ [RedbNext]_tableVars => [N!SpaceNext]_(N!spaceVars)
  <1> SUFFICES ASSUME RedbInv, RedbInv', NamesInv, [RedbNext]_tableVars
               PROVE  N!SpaceNext \/ UNCHANGED N!spaceVars
    OBVIOUS
  <1>1. TypeOK'
    BY DEF RedbInv
  <1>2. ASSUME NEW d \in Inos, NEW n \in Names, Lookup(d, n) PROVE N!SpaceNext
    <2>1. Child(d, n) \in Inos /\ EntriesIn(db.edges, Child(d, n)) # {}
      <3>1. Child(d, n) \in Inos /\ <<d, n>> \in Places
        BY <1>2, ChildType DEF Lookup, NamesInv, NamesOK, Places
      <3> QED
        BY <3>1 DEF EntriesIn, Child, Entry
    <2>2. N!Named(Child(d, n)) /\ NKind' = NKind /\ NEntry' = NEntry
      BY <1>2, <2>1, View, SameView DEF Lookup
    <2>3. N!Hold(Child(d, n))
      BY <1>2, <2>2 DEF Lookup, N!Hold, NKind, NEntry
    <2> QED
      BY <2>1, <2>3 DEF N!SpaceNext
  <1>3. CASE Remount
    BY <1>3, SameView DEF Remount, N!SpaceNext, N!Remount, NKind, NEntry
  <1>4. ASSUME NEW i \in Inos, WriteSlice(i) \/ GetChunks(i) \/ ReplaceSlices(i)
        PROVE  UNCHANGED N!spaceVars
    <2>1. /\ held' = held /\ db \in Tables
          /\ db' = db \/ db' = [db EXCEPT !.chunks = @ \cup {i}]
      BY <1>4 DEF WriteSlice, GetChunks, ReplaceSlices, NamesInv, NamesOK
    <2>2. db'.nodes = db.nodes /\ db'.edges = db.edges
      BY <2>1 DEF Tables
    <2> QED
      BY <2>1, <2>2, SameView DEF N!spaceVars, NKind, NEntry
  <1>5. CASE UNCHANGED tableVars
    BY <1>5, SameView DEF tableVars, N!spaceVars, NKind, NEntry
  <1> QED
    BY <1>1, <1>2, <1>3, <1>4, <1>5, CreateRefines, LinkRefines, UnlinkRefines, RenameRefines,
       ForgetRefines DEF RedbNext

\* For any number of inodes and names the engine is a namespace: each call is one
\* step on the names, and forget removes just what has none any more
\* (redb_engine.rs:203-469, 591-693).
THEOREM RedbImplementsNamespace == RedbSpec => NamesRefined
  <1>1. RedbInit => N!SpaceInit
    BY InitRefines, NamesInit, RedbInvInit DEF RedbInv
  <1> QED
    BY <1>1, StepRefines, NamesAlways, PTL DEF RedbSpec, NamesRefined, N!SpaceSpec

=============================================================================
