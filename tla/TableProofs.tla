----------------------------- MODULE TableProofs -----------------------------
(***************************************************************************)
(* What the edits of single rows do to the tables, for the proofs about    *)
(* both metadata engines: types, which nodes exist, and how the counts of  *)
(* entries change.                                                         *)
(***************************************************************************)
EXTENDS MetaTables, FiniteSetTheorems, TLAPS

(* What the edits of rows do to the tables: types, and which nodes exist.  *)

\* An edit keeps the nodes there are, and the rows inodes own.
Keeps(t, u) ==
    /\ u \in Tables
    /\ \A i \in Inos : Exists(t, i) => Exists(u, i)
    /\ u.chunks = t.chunks /\ u.symlinks = t.symlinks /\ u.next = t.next

LEMMA KeepsTrans ==
  ASSUME NEW t, NEW u, NEW v, Keeps(t, u), Keeps(u, v)
  PROVE  Keeps(t, v)
  BY DEF Keeps

LEMMA NodeTypes ==
  /\ NoNode \in Nodes /\ NoEdge \in Edges
  /\ \A k \in Kinds, l \in Int : /\ [kind |-> k, nlink |-> l] \in Nodes
                                 /\ [kind |-> k, nlink |-> l] # NoNode
  BY DEF Nodes, Edges, NoNode, NoEdge, Kinds

LEMMA InsertNodeKeeps ==
  ASSUME NEW t \in Tables, NEW i \in Inos, NEW k \in Kinds
  PROVE  Keeps(t, InsertNode(t, i, k)) /\ Exists(InsertNode(t, i, k), i)
  <1> DEFINE row == [kind |-> k, nlink |-> IF k = "dir" THEN 2 ELSE 1]
  <1>1. row \in Nodes /\ row # NoNode
    BY NodeTypes
  <1>2. InsertNode(t, i, k) = [t EXCEPT !.nodes[i] = row]
    BY DEF InsertNode
  <1> HIDE DEF row
  <1> QED
    BY <1>1, <1>2 DEF Keeps, Tables, Exists

LEMMA InsertEdgeKeeps ==
  ASSUME NEW t \in Tables, NEW d \in Inos, NEW n \in Names, NEW i \in Inos, NEW k \in Kinds
  PROVE  Keeps(t, InsertEdge(t, d, n, i, k))
  BY DEF Keeps, Tables, Exists, InsertEdge, Edges

LEMMA DeleteEdgeKeeps ==
  ASSUME NEW t \in Tables, NEW d \in Inos, NEW n \in Names
  PROVE  Keeps(t, DeleteEdge(t, d, n))
  BY NodeTypes DEF Keeps, Tables, Exists, DeleteEdge

LEMMA MoveEdgeKeeps ==
  ASSUME NEW t \in Tables, NEW sd \in Inos, NEW sn \in Names, NEW dd \in Inos, NEW dn \in Names
  PROVE  Keeps(t, MoveEdge(t, sd, sn, dd, dn))
  BY NodeTypes DEF Keeps, Tables, Exists, MoveEdge

LEMMA AddLinksKeeps ==
  ASSUME NEW t \in Tables, NEW i \in Inos, NEW by \in Int
  PROVE  Keeps(t, AddLinks(t, i, by))
  <1>1. CASE Exists(t, i)
    <2> DEFINE row == [t.nodes[i] EXCEPT !.nlink = @ + by]
    <2>1. PICK k \in Kinds, l \in Int : t.nodes[i] = [kind |-> k, nlink |-> l]
      BY <1>1 DEF Exists, Tables, Nodes
    <2>2. row = [kind |-> k, nlink |-> l + by]
      BY <2>1
    <2>3. row \in Nodes /\ row # NoNode
      BY <2>2, NodeTypes
    <2>4. AddLinks(t, i, by) = [t EXCEPT !.nodes[i] = row]
      BY <1>1 DEF AddLinks, Tables
    <2> HIDE DEF row
    <2> QED
      BY <2>3, <2>4 DEF Keeps, Tables, Exists
  <1>2. CASE ~Exists(t, i)
    BY <1>2 DEF AddLinks, Keeps
  <1> QED
    BY <1>1, <1>2

\* The child of an entry is an inode.
LEMMA ChildType ==
  ASSUME db \in Tables, NEW d \in Inos, NEW n \in Names, Taken(d, n)
  PROVE  Child(d, n) \in Inos
  BY DEF Taken, Entry, Child, Tables, Edges

-----------------------------------------------------------------------------
(* Entries and how many there are.                                         *)

Places == Inos \X Names

\* The entries of i, the subdirectories of d and whether d has an entry, in the
\* edges g.
EntriesIn(g, i) == {e \in Places : g[e].child = i}
SubdirsIn(g, d) == {n \in Names : g[<<d, n>>].kind = "dir"}
LiveIn(g, d) == d = Root \/ \E e \in Places : g[e].child = d

\* A directory has one entry at most.
OneParent(t) ==
    \A e, f \in Places :
        t.edges[e] # NoEdge /\ t.edges[e].kind = "dir" /\ t.edges[f].child = t.edges[e].child
            => e = f

LEMMA PlacesFinite == IsFiniteSet(Places) /\ IsFiniteSet(Names)
  BY FS_Product, InosAssumption, NamesAssumption DEF Places

LEMMA CountTypes ==
  ASSUME NEW g, NEW i
  PROVE  /\ IsFiniteSet(EntriesIn(g, i)) /\ IsFiniteSet(SubdirsIn(g, i))
         /\ Cardinality(EntriesIn(g, i)) \in Nat /\ Cardinality(SubdirsIn(g, i)) \in Nat
  <1>1. EntriesIn(g, i) \in SUBSET Places /\ SubdirsIn(g, i) \in SUBSET Names
    BY DEF EntriesIn, SubdirsIn
  <1>2. IsFiniteSet(EntriesIn(g, i)) /\ IsFiniteSet(SubdirsIn(g, i))
    BY <1>1, PlacesFinite, FS_Subset
  <1> QED
    BY <1>2, FS_CardinalityType

\* What one more entry adds.
One(p) == IF p THEN 1 ELSE 0

\* The edges g and h differ at most in the entry n of d.
Differ(g, h, d, n) ==
    /\ g \in [Places -> Edges] /\ h \in [Places -> Edges]
    /\ \A e \in Places : e # <<d, n>> => h[e] = g[e]

LEMMA PutCounts ==
  ASSUME NEW g, NEW h, NEW d \in Inos, NEW n \in Names, Differ(g, h, d, n), NEW r,
         g[<<d, n>>] = NoEdge, h[<<d, n>>] = r, r # NoEdge, NEW i \in Inos
  PROVE  /\ Cardinality(EntriesIn(h, i)) = Cardinality(EntriesIn(g, i)) + One(i = r.child)
         /\ Cardinality(SubdirsIn(h, i)) = Cardinality(SubdirsIn(g, i)) + One(i = d /\ r.kind = "dir")
  <1>0. /\ <<d, n>> \in Places /\ NoEdge.child = 0 /\ NoEdge.kind = "none" /\ i # 0
        /\ \A e \in Places : e # <<d, n>> => h[e] = g[e]
    BY InosAssumption DEF Places, NoEdge, Differ
  <1>1. Cardinality(EntriesIn(h, i)) = Cardinality(EntriesIn(g, i)) + One(i = r.child)
    <2>1. CASE i = r.child
      <3>1. g[<<d, n>>].child # i /\ h[<<d, n>>].child = i
        BY <1>0, <2>1
      <3>2. EntriesIn(h, i) = EntriesIn(g, i) \cup {<<d, n>>} /\ <<d, n>> \notin EntriesIn(g, i)
        BY <1>0, <3>1 DEF EntriesIn
      <3> QED
        <4>1. Cardinality(EntriesIn(h, i)) = Cardinality(EntriesIn(g, i)) + 1
          BY <3>2, CountTypes, FS_AddElement
        <4> QED
          BY <4>1, <2>1 DEF One
    <2>2. CASE i # r.child
      <3>1. EntriesIn(h, i) = EntriesIn(g, i)
        BY <1>0, <2>2 DEF EntriesIn
      <3> QED
        BY <3>1, <2>2, CountTypes DEF One
    <2> QED
      BY <2>1, <2>2
  <1>2. Cardinality(SubdirsIn(h, i)) = Cardinality(SubdirsIn(g, i)) + One(i = d /\ r.kind = "dir")
    <2>0. \A m \in Names : <<i, m>> \in Places /\ (<<i, m>> = <<d, n>> <=> i = d /\ m = n)
      BY DEF Places
    <2>1. CASE i = d /\ r.kind = "dir"
      <3>1. SubdirsIn(h, i) = SubdirsIn(g, i) \cup {n} /\ n \notin SubdirsIn(g, i)
        BY <1>0, <2>0, <2>1 DEF SubdirsIn
      <3> QED
        BY <3>1, <2>1, CountTypes, FS_AddElement DEF One
    <2>2. CASE ~(i = d /\ r.kind = "dir")
      <3>1. SubdirsIn(h, i) = SubdirsIn(g, i)
        BY <1>0, <2>0, <2>2 DEF SubdirsIn
      <3> QED
        BY <3>1, <2>2, CountTypes DEF One
    <2> QED
      BY <2>1, <2>2
  <1> QED
    BY <1>1, <1>2

LEMMA TakeCounts ==
  ASSUME NEW g, NEW h, NEW d \in Inos, NEW n \in Names, Differ(g, h, d, n), NEW r,
         g[<<d, n>>] = r, h[<<d, n>>] = NoEdge, r # NoEdge, NEW i \in Inos
  PROVE  /\ Cardinality(EntriesIn(h, i)) = Cardinality(EntriesIn(g, i)) - One(i = r.child)
         /\ Cardinality(SubdirsIn(h, i)) = Cardinality(SubdirsIn(g, i)) - One(i = d /\ r.kind = "dir")
  <1>1. Differ(h, g, d, n)
    BY DEF Differ
  <1>3. /\ Cardinality(EntriesIn(g, i)) = Cardinality(EntriesIn(h, i)) + One(i = r.child)
        /\ Cardinality(SubdirsIn(g, i)) = Cardinality(SubdirsIn(h, i)) + One(i = d /\ r.kind = "dir")
    BY <1>1, PutCounts
  <1> QED
    BY <1>3, CountTypes DEF One

\* A move is a removal of the entry replaced, one of the source, and an entry.
Moved(g, h, sd, sn, dd, dn) ==
    h = [g EXCEPT ![<<dd, dn>>] = g[<<sd, sn>>], ![<<sd, sn>>] = NoEdge]

LEMMA MoveCounts ==
  ASSUME NEW g \in [Places -> Edges], NEW sd \in Inos, NEW sn \in Names, NEW dd \in Inos,
         NEW dn \in Names, <<sd, sn>> # <<dd, dn>>, NEW x, g[<<sd, sn>>] = x, x # NoEdge,
         NEW y, g[<<dd, dn>>] = y, NEW h, Moved(g, h, sd, sn, dd, dn), NEW j \in Inos
  PROVE  /\ Cardinality(EntriesIn(h, j)) =
              Cardinality(EntriesIn(g, j)) - One(y # NoEdge /\ j = y.child)
         /\ Cardinality(SubdirsIn(h, j)) =
              Cardinality(SubdirsIn(g, j)) - One(y # NoEdge /\ j = dd /\ y.kind = "dir")
                  - One(j = sd /\ x.kind = "dir") + One(j = dd /\ x.kind = "dir")
  <1> DEFINE gone == y # NoEdge
             g1 == [g EXCEPT ![<<dd, dn>>] = NoEdge]
             g2 == [g1 EXCEPT ![<<sd, sn>>] = NoEdge]
  <1>1. /\ Differ(g, g1, dd, dn) /\ g1[<<dd, dn>>] = NoEdge /\ g1[<<sd, sn>>] = x
        /\ Differ(g1, g2, sd, sn) /\ g2[<<sd, sn>>] = NoEdge /\ g2[<<dd, dn>>] = NoEdge
        /\ Differ(g2, h, dd, dn) /\ h[<<dd, dn>>] = x
    BY NodeTypes DEF Differ, Places, Moved
  <1>2. ~gone => g1 = g
    BY DEF Places
  <1>3. /\ Cardinality(EntriesIn(g, j)) \in Nat /\ Cardinality(SubdirsIn(g, j)) \in Nat
        /\ Cardinality(EntriesIn(g1, j)) \in Nat /\ Cardinality(SubdirsIn(g1, j)) \in Nat
        /\ Cardinality(EntriesIn(g2, j)) \in Nat /\ Cardinality(SubdirsIn(g2, j)) \in Nat
    BY CountTypes
  <1>x. x # NoEdge
    OBVIOUS
  <1> HIDE DEF g1, g2
  <1>4. /\ Cardinality(EntriesIn(g1, j)) = Cardinality(EntriesIn(g, j)) - One(gone /\ j = y.child)
        /\ Cardinality(SubdirsIn(g1, j)) =
             Cardinality(SubdirsIn(g, j)) - One(gone /\ j = dd /\ y.kind = "dir")
    <2>1. CASE gone
      <3>1. /\ Cardinality(EntriesIn(g1, j)) = Cardinality(EntriesIn(g, j)) - One(j = y.child)
            /\ Cardinality(SubdirsIn(g1, j)) =
                 Cardinality(SubdirsIn(g, j)) - One(j = dd /\ y.kind = "dir")
        BY <1>1, <2>1, TakeCounts
      <3> QED
        BY <2>1, <3>1 DEF One
    <2>2. CASE ~gone
      BY <1>2, <1>3, <2>2 DEF One
    <2> QED
      BY <2>1, <2>2
  <1>5. /\ Cardinality(EntriesIn(g2, j)) = Cardinality(EntriesIn(g1, j)) - One(j = x.child)
        /\ Cardinality(SubdirsIn(g2, j)) =
             Cardinality(SubdirsIn(g1, j)) - One(j = sd /\ x.kind = "dir")
    BY <1>1, <1>x, TakeCounts
  <1>6. /\ Cardinality(EntriesIn(h, j)) = Cardinality(EntriesIn(g2, j)) + One(j = x.child)
        /\ Cardinality(SubdirsIn(h, j)) =
             Cardinality(SubdirsIn(g2, j)) + One(j = dd /\ x.kind = "dir")
    <2>1. Differ(g2, h, dd, dn) /\ g2[<<dd, dn>>] = NoEdge /\ h[<<dd, dn>>] = x /\ x # NoEdge
      BY <1>1, <1>x
    <2>2. Cardinality(EntriesIn(h, j)) = Cardinality(EntriesIn(g2, j)) + One(j = x.child)
      BY <2>1, PutCounts
    <2>3. Cardinality(SubdirsIn(h, j)) =
             Cardinality(SubdirsIn(g2, j)) + One(j = dd /\ x.kind = "dir")
      BY <2>1, PutCounts
    <2> QED
      BY <2>2, <2>3
  <1>7. /\ Cardinality(EntriesIn(h, j)) = Cardinality(EntriesIn(g, j)) - One(gone /\ j = y.child)
        /\ Cardinality(SubdirsIn(h, j)) =
             Cardinality(SubdirsIn(g, j)) - One(gone /\ j = dd /\ y.kind = "dir")
                 - One(j = sd /\ x.kind = "dir") + One(j = dd /\ x.kind = "dir")
    <2>1. One(j = x.child) \in Nat /\ One(gone /\ j = y.child) \in Nat
      BY DEF One
    <2>2. /\ One(gone /\ j = dd /\ y.kind = "dir") \in Nat
          /\ One(j = sd /\ x.kind = "dir") \in Nat /\ One(j = dd /\ x.kind = "dir") \in Nat
      BY DEF One
    <2> QED
      BY <2>1, <2>2, <1>3, <1>4, <1>5, <1>6
  <1> QED
    BY <1>7

-----------------------------------------------------------------------------
(* What the edits of rows do to kinds and links.                           *)

\* A node that is not there is the one of no kind.
LEMMA NoNodeKind ==
  ASSUME NEW t \in Tables, NEW i \in Inos
  PROVE  /\ t.nodes[i] = NoNode <=> t.nodes[i].kind = "none"
         /\ t.nodes[i] # NoNode => t.nodes[i].kind \in Kinds /\ t.nodes[i].nlink \in Int
  BY DEF Tables, Nodes, NoNode, Kinds

LEMMA NoEdgeKind ==
  ASSUME NEW t \in Tables, NEW d \in Inos, NEW n \in Names
  PROVE  /\ t.edges[<<d, n>>] = NoEdge <=> t.edges[<<d, n>>].kind = "none"
         /\ t.edges[<<d, n>>] = NoEdge <=> t.edges[<<d, n>>].child = 0
         /\ t.edges[<<d, n>>] # NoEdge => /\ t.edges[<<d, n>>].kind \in Kinds
                                          /\ t.edges[<<d, n>>].child \in Inos
  BY InosAssumption DEF Tables, Edges, NoEdge, Kinds

\* An edit that leaves the nodes as they are, but for the links of i: by more.
Relinked(t, u, i, by) ==
    /\ u \in Tables /\ u.edges = t.edges /\ u.next = t.next
    /\ \A j \in Inos : u.nodes[j].kind = t.nodes[j].kind
    /\ \A j \in Inos : t.nodes[j] # NoNode /\ j # i => u.nodes[j].nlink = t.nodes[j].nlink
    /\ t.nodes[i] # NoNode => u.nodes[i].nlink = t.nodes[i].nlink + by

LEMMA AddLinksRelinks ==
  ASSUME NEW t \in Tables, NEW i \in Inos, NEW by \in Int
  PROVE  Relinked(t, AddLinks(t, i, by), i, by)
  <1>1. CASE Exists(t, i)
    <2> DEFINE row == [t.nodes[i] EXCEPT !.nlink = @ + by]
    <2>1. PICK k \in Kinds, l \in Int : t.nodes[i] = [kind |-> k, nlink |-> l]
      BY <1>1 DEF Exists, Tables, Nodes
    <2>2. row = [kind |-> k, nlink |-> l + by]
      BY <2>1
    <2>3. row \in Nodes /\ row.kind = t.nodes[i].kind /\ row.nlink = t.nodes[i].nlink + by
      BY <2>1, <2>2, NodeTypes
    <2>4. AddLinks(t, i, by) = [t EXCEPT !.nodes[i] = row]
      BY <1>1 DEF AddLinks, Tables
    <2> HIDE DEF row
    <2> QED
      BY <2>3, <2>4 DEF Relinked, Tables
  <1>2. CASE ~Exists(t, i)
    BY <1>2 DEF AddLinks, Relinked, Exists
  <1> QED
    BY <1>1, <1>2

LEMMA EdgesType ==
  ASSUME NEW t \in Tables
  PROVE  t.edges \in [Places -> Edges]
  BY DEF Tables, Places

LEMMA InAbove ==
  ASSUME NEW d \in Inos
  PROVE  d \in Above(d)
  BY DEF Above

=============================================================================
