--------------------------- MODULE SqliteMetaProofs ---------------------------
(***************************************************************************)
(* The SQLite engine, whose operations may stop after any statement: the   *)
(* inodes no operation was cut on keep their counts and their entries, a   *)
(* rename keeps a name, and nothing is hidden below a removed directory.   *)
(***************************************************************************)
EXTENDS SqliteMeta, TableProofs

Kind(t, i) == t.nodes[i].kind

-----------------------------------------------------------------------------
(* What every statement keeps, also between the statements of an operation.*)

\* The entry x of d goes from a directory to a node of the kind it says, neither
\* the root nor d itself, as far as the two are there; both are numbers the
\* counter has given out.
Fits(t, d, x) ==
    /\ Kind(t, d) \in {"none", "dir"} /\ Kind(t, x.child) \in {"none", x.kind}
    /\ x.child \notin {Root, d}
    /\ d <= t.next /\ x.child <= t.next

EntriesFit(t) ==
    \A d \in Inos, n \in Names :
        t.edges[<<d, n>>] # NoEdge => Fits(t, d, t.edges[<<d, n>>])

\* Every node but the root has a number the counter has given out.
Numbered(t) == \A i \in Inos : Kind(t, i) # "none" => i <= t.next \/ i = Root

\* The root is a directory, and the first node there is.
RootFirst(t) ==
    /\ Kind(t, Root) \in {"none", "dir"}
    /\ Kind(t, Root) = "none" => /\ \A i \in Inos : Kind(t, i) = "none"
                                 /\ \A e \in Places : t.edges[e] = NoEdge
                                 /\ t.next = 0

\* A directory with entries is in the tree.
FullLive(t) == \A d \in Inos, n \in Names : t.edges[<<d, n>>] # NoEdge => LiveIn(t.edges, d)

Shape(t) ==
    t \in Tables /\ EntriesFit(t) /\ OneParent(t) /\ Numbered(t) /\ RootFirst(t) /\ FullLive(t)

-----------------------------------------------------------------------------
(* What operations keep for the inodes they are not about.                 *)

\* What the entries make the link count of j, and how far it is from that.
Due(t, j) == IF Kind(t, j) = "dir" THEN 2 + Cardinality(SubdirsIn(t.edges, j))
                                   ELSE Cardinality(EntriesIn(t.edges, j))
Off(t, j) == t.nodes[j].nlink - Due(t, j)

\* Nothing is in or leads to j.
Unnamed(t, j) == /\ \A e \in Places : t.edges[e].child # j
                 /\ \A n \in Names : t.edges[<<j, n>>] = NoEdge

\* The link count of j is right, and without its node nothing leads there.
Sound(t, j) ==
    /\ Kind(t, j) = "none" => Unnamed(t, j)
    /\ Kind(t, j) # "none" /\ (Kind(t, j) = "dir" => LiveIn(t.edges, j)) => Off(t, j) = 0

Good(t, T) == Shape(t) /\ \A j \in Inos \ T : Sound(t, j)

-----------------------------------------------------------------------------
(* Shapes.                                                                 *)

LEMMA KindType ==
  ASSUME NEW t \in Tables, NEW i \in Inos
  PROVE  /\ Kind(t, i) \in Kinds \cup {"none"}
         /\ t.nodes[i] = NoNode <=> Kind(t, i) = "none"
         /\ Kind(t, i) # "none" => t.nodes[i].nlink \in Int
  BY NoNodeKind DEF Kind, NoNode

LEMMA OffType ==
  ASSUME NEW t \in Tables, NEW j \in Inos, Kind(t, j) # "none"
  PROVE  Off(t, j) \in Int /\ Due(t, j) \in Nat /\ t.nodes[j].nlink \in Int
  <1>1. t.nodes[j].nlink \in Int
    BY KindType
  <1>2. Due(t, j) \in Nat
    BY CountTypes DEF Due
  <1> QED
    BY <1>1, <1>2 DEF Off

\* A statement that leaves kinds, entries and the counter as they are.
SameNames(t, u) ==
    /\ u \in Tables /\ u.edges = t.edges /\ u.next = t.next
    /\ \A i \in Inos : Kind(u, i) = Kind(t, i)

LEMMA SameShape ==
  ASSUME NEW t, Shape(t), NEW u, SameNames(t, u)
  PROVE  Shape(u)
  <1>1. t \in Tables /\ \A d \in Inos, n \in Names :
          t.edges[<<d, n>>] # NoEdge => t.edges[<<d, n>>].child \in Inos
    BY NoEdgeKind DEF Shape
  <1>2. EntriesFit(u)
    BY <1>1 DEF Shape, EntriesFit, Fits, SameNames
  <1>3. OneParent(u) /\ FullLive(u)
    BY DEF Shape, OneParent, FullLive, SameNames
  <1>4. Numbered(u) /\ RootFirst(u)
    BY InosAssumption DEF Shape, Numbered, RootFirst, SameNames
  <1> QED
    BY <1>2, <1>3, <1>4 DEF Shape, SameNames

\* The node of i goes.
Lost(t, u, i) ==
    /\ u \in Tables /\ u.edges = t.edges /\ u.next = t.next
    /\ Kind(u, i) = "none" /\ \A j \in Inos \ {i} : u.nodes[j] = t.nodes[j]

LEMMA LostShape ==
  ASSUME NEW t, Shape(t), NEW i \in Inos \ {Root}, NEW u, Lost(t, u, i)
  PROVE  Shape(u)
  <1>1. t \in Tables /\ \A d \in Inos, n \in Names :
          t.edges[<<d, n>>] # NoEdge => t.edges[<<d, n>>].child \in Inos
    BY NoEdgeKind DEF Shape
  <1>0. \A j \in Inos : Kind(u, j) \in {"none", Kind(t, j)} /\ (j # i => Kind(u, j) = Kind(t, j))
    BY DEF Lost, Kind
  <1>2. EntriesFit(u)
    BY <1>0, <1>1 DEF Shape, EntriesFit, Fits, Lost
  <1>3. OneParent(u) /\ FullLive(u)
    BY DEF Shape, OneParent, FullLive, Lost
  <1>4. Numbered(u) /\ RootFirst(u)
    BY <1>0, InosAssumption DEF Shape, Numbered, RootFirst, Lost
  <1> QED
    BY <1>2, <1>3, <1>4 DEF Shape, Lost

\* The counter advances.
LEMMA NextShape ==
  ASSUME NEW t, Shape(t), Kind(t, Root) # "none", NEW m \in Nat, m >= t.next,
         NEW u, u = [t EXCEPT !.next = m]
  PROVE  Shape(u) /\ u \in Tables /\ u.nodes = t.nodes /\ u.edges = t.edges /\ u.next = m
  <1>1. u \in Tables /\ u.nodes = t.nodes /\ u.edges = t.edges /\ u.next = m /\ t.next \in Nat
    BY DEF Shape, Tables
  <1>2. \A d \in Inos, n \in Names : t.edges[<<d, n>>] # NoEdge => t.edges[<<d, n>>].child \in Inos
    BY NoEdgeKind DEF Shape
  <1>3. \A i \in Inos : i \in Nat /\ Kind(u, i) = Kind(t, i)
    BY <1>1, InosAssumption DEF Kind
  <1>4. EntriesFit(u)
    <2> SUFFICES ASSUME NEW d \in Inos, NEW n \in Names, t.edges[<<d, n>>] # NoEdge
                 PROVE  Fits(u, d, t.edges[<<d, n>>])
      BY <1>1 DEF EntriesFit
    <2>1. Fits(t, d, t.edges[<<d, n>>]) /\ t.edges[<<d, n>>].child \in Inos
      BY <1>2 DEF Shape, EntriesFit
    <2> QED
      BY <1>1, <1>3, <2>1 DEF Fits
  <1>5. OneParent(u) /\ FullLive(u)
    BY <1>1 DEF Shape, OneParent, FullLive
  <1>6. Numbered(u) /\ RootFirst(u)
    BY <1>1, <1>3, InosAssumption DEF Shape, Numbered, RootFirst
  <1> QED
    BY <1>1, <1>4, <1>5, <1>6 DEF Shape

\* A node for a number that had none: that of the counter, or the root's, the
\* first there is.
New(t, u, i, k) ==
    /\ u \in Tables /\ u.edges = t.edges /\ u.next = t.next
    /\ Kind(u, i) = k /\ u.nodes[i].nlink = IF k = "dir" THEN 2 ELSE 1
    /\ \A j \in Inos \ {i} : u.nodes[j] = t.nodes[j]

LEMMA InsertNodeNew ==
  ASSUME NEW t \in Tables, NEW i \in Inos, NEW k \in Kinds
  PROVE  New(t, InsertNode(t, i, k), i, k)
  <1> DEFINE row == [kind |-> k, nlink |-> IF k = "dir" THEN 2 ELSE 1]
  <1>1. row \in Nodes /\ row.kind = k /\ row.nlink = IF k = "dir" THEN 2 ELSE 1
    BY NodeTypes
  <1>2. InsertNode(t, i, k) = [t EXCEPT !.nodes[i] = row]
    BY DEF InsertNode
  <1> HIDE DEF row
  <1> QED
    BY <1>1, <1>2 DEF New, Tables, Kind

LEMMA NewShape ==
  ASSUME NEW t, Shape(t), NEW i \in Inos, NEW k \in Kinds, NEW u, New(t, u, i, k),
         Unnamed(t, i), IF i = Root THEN k = "dir" ELSE i = t.next /\ Kind(t, Root) # "none"
  PROVE  Shape(u)
  <1>1. t \in Tables /\ t.next \in Nat /\ u.edges = t.edges /\ u.next = t.next /\ u \in Tables
    BY DEF Shape, New, Tables
  <1>2. \A d \in Inos, n \in Names : t.edges[<<d, n>>] # NoEdge => t.edges[<<d, n>>].child \in Inos
    BY <1>1, NoEdgeKind
  <1>3. \A j \in Inos : j # i => Kind(u, j) = Kind(t, j)
    BY DEF New, Kind
  <1>4. EntriesFit(u)
    <2> SUFFICES ASSUME NEW d \in Inos, NEW n \in Names, t.edges[<<d, n>>] # NoEdge
                 PROVE  Fits(u, d, t.edges[<<d, n>>])
      BY <1>1 DEF EntriesFit
    <2>1. Fits(t, d, t.edges[<<d, n>>]) /\ t.edges[<<d, n>>].child \in Inos
      BY <1>2 DEF Shape, EntriesFit
    <2>2. d # i /\ t.edges[<<d, n>>].child # i
      BY DEF Unnamed, Places
    <2> QED
      BY <1>1, <1>3, <2>1, <2>2 DEF Fits
  <1>5. OneParent(u) /\ FullLive(u)
    BY <1>1 DEF Shape, OneParent, FullLive
  <1>6. Numbered(u)
    BY <1>1, <1>3, InosAssumption DEF Shape, Numbered
  <1>7. RootFirst(u)
    <2>1. CASE i = Root
      BY <2>1 DEF RootFirst, New, Kinds
    <2>2. CASE i # Root
      BY <1>3, <2>2, InosAssumption DEF RootFirst, Shape
    <2> QED
      BY <2>1, <2>2
  <1> QED
    BY <1>1, <1>4, <1>5, <1>6, <1>7 DEF Shape

\* An edit of entries.
Rewired(t, u, h) == u \in Tables /\ u.nodes = t.nodes /\ u.next = t.next /\ u.edges = h

\* The entry n of d comes to be, and leads to i, of kind k.
Put(t, u, d, n, i, k) ==
    Rewired(t, u, [t.edges EXCEPT ![<<d, n>>] = [child |-> i, kind |-> k]])

LEMMA InsertEdgePuts ==
  ASSUME NEW t \in Tables, NEW d \in Inos, NEW n \in Names, NEW i \in Inos, NEW k \in Kinds
  PROVE  Put(t, InsertEdge(t, d, n, i, k), d, n, i, k)
  <1>1. [child |-> i, kind |-> k] \in Edges
    BY DEF Edges
  <1> QED
    BY <1>1 DEF Put, Rewired, InsertEdge, Tables

\* May the entry n of d, which is free, be one of i, of kind k?
Fitting(t, d, n, i, k) ==
    /\ Kind(t, d) = "dir" /\ Kind(t, i) = k /\ i \notin {Root, d}
    /\ d <= t.next /\ i <= t.next /\ LiveIn(t.edges, d)
    /\ t.edges[<<d, n>>] = NoEdge
    /\ k = "dir" => Unnamed(t, i)

LEMMA PutShape ==
  ASSUME NEW t, Shape(t), NEW d \in Inos, NEW n \in Names, NEW i \in Inos, NEW k \in Kinds,
         Fitting(t, d, n, i, k), NEW u, Put(t, u, d, n, i, k)
  PROVE  Shape(u)
  <1> DEFINE g == t.edges
             x == [child |-> i, kind |-> k]
             h == [g EXCEPT ![<<d, n>>] = x]
  <1>1. t \in Tables /\ g \in [Places -> Edges] /\ x.child = i /\ x.kind = k /\ x # NoEdge
    BY EdgesType, InosAssumption DEF Shape, NoEdge
  <1>2. u \in Tables /\ u.nodes = t.nodes /\ u.next = t.next /\ u.edges = h
    BY DEF Put, Rewired
  <1>3. \A e \in Places : h[e] = IF e = <<d, n>> THEN x ELSE g[e]
    BY <1>1
  <1>4. \A a \in Inos, m \in Names : <<a, m>> \in Places
    BY DEF Places
  <1>u. Unnamed(t, i) => \A e \in Places : g[e].child # i
    BY DEF Unnamed
  <1>v. g[<<d, n>>] = NoEdge /\ NoEdge.child = 0 /\ i # 0
    BY InosAssumption DEF Fitting, NoEdge
  <1> HIDE DEF g, h, x
  <1>5. EntriesFit(u)
    <2> SUFFICES ASSUME NEW a \in Inos, NEW m \in Names, h[<<a, m>>] # NoEdge
                 PROVE  Fits(u, a, h[<<a, m>>])
      BY <1>2 DEF EntriesFit
    <2>1. CASE <<a, m>> = <<d, n>>
      BY <2>1, <1>1, <1>2, <1>3, <1>4 DEF Fits, Fitting, Kind
    <2>2. CASE <<a, m>> # <<d, n>>
      <3>1. h[<<a, m>>] = g[<<a, m>>]
        BY <2>2, <1>3, <1>4
      <3>2. Fits(t, a, g[<<a, m>>])
        BY <3>1 DEF Shape, EntriesFit, g
      <3> QED
        BY <3>1, <3>2, <1>2 DEF Fits, Kind
    <2> QED
      BY <2>1, <2>2
  <1>6. OneParent(u)
    <2> SUFFICES ASSUME NEW e \in Places, NEW f \in Places, h[e] # NoEdge, h[e].kind = "dir",
                        h[f].child = h[e].child, e # f
                 PROVE  FALSE
      BY <1>2 DEF OneParent
    <2>0. \A a, b \in Places : g[a] # NoEdge /\ g[a].kind = "dir" /\ g[b].child = g[a].child => a = b
      BY DEF Shape, OneParent, g
    <2>1. CASE e = <<d, n>>
      BY <2>1, <1>1, <1>3, <1>u DEF Fitting
    <2>2. CASE f = <<d, n>>
      <3>1. g[e].child = i /\ g[e].kind = "dir" /\ g[e] # NoEdge
        BY <2>2, <1>1, <1>3
      <3>2. k = "dir"
        <4>1. PICK a \in Inos, m \in Names : e = <<a, m>>
          BY DEF Places
        <4>2. Kind(t, i) \in {"none", "dir"}
          BY <4>1, <3>1 DEF Shape, EntriesFit, Fits, g
        <4> QED
          BY <4>2 DEF Fitting, Kinds
      <3> QED
        BY <3>1, <3>2, <1>u DEF Fitting
    <2>3. CASE e # <<d, n>> /\ f # <<d, n>>
      BY <2>0, <2>3, <1>3
    <2> QED
      BY <2>1, <2>2, <2>3
  <1>7. \A a \in Inos : LiveIn(g, a) => LiveIn(h, a)
    <2>1. \A a \in Inos, e \in Places : g[e].child = a => h[e].child = a
      BY <1>3, <1>v, InosAssumption
    <2> QED
      BY <2>1 DEF LiveIn
  <1>8. FullLive(u)
    <2> SUFFICES ASSUME NEW a \in Inos, NEW m \in Names, h[<<a, m>>] # NoEdge PROVE LiveIn(h, a)
      BY <1>2 DEF FullLive
    <2>1. a = d \/ g[<<a, m>>] # NoEdge
      BY <1>3, <1>4
    <2>2. LiveIn(g, a)
      BY <2>1 DEF Fitting, g, Shape, FullLive
    <2> QED
      BY <2>2, <1>7
  <1>9. Numbered(u) /\ Kind(u, Root) = Kind(t, Root) /\ Kind(t, Root) # "none"
    BY <1>2 DEF Shape, Numbered, RootFirst, Kind, Fitting
  <1>10. RootFirst(u)
    BY <1>9 DEF RootFirst, Shape
  <1> QED
    BY <1>2, <1>5, <1>6, <1>8, <1>9, <1>10 DEF Shape

\* The entry n of d goes.
Take(t, u, d, n) == Rewired(t, u, [t.edges EXCEPT ![<<d, n>>] = NoEdge])

LEMMA DeleteEdgeTakes ==
  ASSUME NEW t \in Tables, NEW d \in Inos, NEW n \in Names
  PROVE  Take(t, DeleteEdge(t, d, n), d, n)
  BY NodeTypes DEF Take, Rewired, DeleteEdge, Tables

\* No entry is in i.
Bare(t, i) == \A n \in Names : t.edges[<<i, n>>] = NoEdge

LEMMA TakeShape ==
  ASSUME NEW t, Shape(t), NEW d \in Inos, NEW n \in Names, Bare(t, t.edges[<<d, n>>].child),
         NEW u, Take(t, u, d, n)
  PROVE  Shape(u)
  <1> DEFINE g == t.edges
             h == [g EXCEPT ![<<d, n>>] = NoEdge]
  <1>1. t \in Tables /\ g \in [Places -> Edges]
    BY EdgesType DEF Shape
  <1>2. u \in Tables /\ u.nodes = t.nodes /\ u.next = t.next /\ u.edges = h
    BY DEF Take, Rewired
  <1>3. \A e \in Places : h[e] = IF e = <<d, n>> THEN NoEdge ELSE g[e]
    BY <1>1
  <1>4. \A a \in Inos, m \in Names : <<a, m>> \in Places
    BY DEF Places
  <1>5. NoEdge.child = 0 /\ 0 \notin Inos
    BY InosAssumption DEF NoEdge
  <1>b. \A m \in Names : g[<<g[<<d, n>>].child, m>>] = NoEdge
    BY DEF Bare
  <1> HIDE DEF g, h
  <1>6. EntriesFit(u)
    BY <1>2, <1>3, <1>4 DEF EntriesFit, Fits, Shape, Kind, g
  <1>7. OneParent(u)
    <2> SUFFICES ASSUME NEW e \in Places, NEW f \in Places, h[e] # NoEdge, h[e].kind = "dir",
                        h[f].child = h[e].child
                 PROVE  e = f
      BY <1>2 DEF OneParent
    <2>0. \A a, b \in Places : g[a] # NoEdge /\ g[a].kind = "dir" /\ g[b].child = g[a].child => a = b
      BY DEF Shape, OneParent, g
    <2>1. h[e] = g[e]
      BY <1>3
    <2>2. h[e].child # 0
      <3>1. PICK a \in Inos, m \in Names : e = <<a, m>>
        BY DEF Places
      <3> QED
        BY <3>1, <2>1, <1>1, NoEdgeKind DEF g
    <2>3. h[f] = g[f]
      BY <2>2, <1>3, <1>5
    <2> QED
      BY <2>0, <2>1, <2>3
  <1>8. FullLive(u)
    <2> SUFFICES ASSUME NEW a \in Inos, NEW m \in Names, h[<<a, m>>] # NoEdge PROVE LiveIn(h, a)
      BY <1>2 DEF FullLive
    <2>1. g[<<a, m>>] # NoEdge /\ LiveIn(g, a)
      BY <1>3, <1>4 DEF Shape, FullLive, g
    <2>2. a # g[<<d, n>>].child
      BY <2>1, <1>b
    <2>3. ASSUME NEW e \in Places, g[e].child = a PROVE h[e].child = a
      BY <2>2, <2>3, <1>3
    <2> QED
      BY <2>1, <2>3 DEF LiveIn
  <1>9. Numbered(u) /\ RootFirst(u)
    BY <1>2, <1>3 DEF Shape, Numbered, RootFirst, Kind, g
  <1> QED
    BY <1>2, <1>6, <1>7, <1>8, <1>9 DEF Shape

\* The entry sn of sd becomes the entry dn of dd.
Moves(t, u, sd, sn, dd, dn) ==
    /\ u \in Tables /\ u.nodes = t.nodes /\ u.next = t.next
    /\ Moved(t.edges, u.edges, sd, sn, dd, dn)

LEMMA MoveEdgeMoves ==
  ASSUME NEW t \in Tables, NEW sd \in Inos, NEW sn \in Names, NEW dd \in Inos, NEW dn \in Names
  PROVE  Moves(t, MoveEdge(t, sd, sn, dd, dn), sd, sn, dd, dn)
  BY NodeTypes DEF Moves, Moved, MoveEdge, Tables

\* May the entry sn of sd, of c, become the entry dn of dd, which is free?
Movable(t, sd, sn, dd, dn, c) ==
    /\ t.edges[<<sd, sn>>] # NoEdge /\ t.edges[<<sd, sn>>].child = c
    /\ t.edges[<<dd, dn>>] = NoEdge
    /\ Kind(t, dd) = "dir" /\ LiveIn(t.edges, dd) /\ c # dd /\ dd <= t.next

LEMMA MovesShape ==
  ASSUME NEW t, Shape(t), NEW sd \in Inos, NEW sn \in Names, NEW dd \in Inos, NEW dn \in Names,
         NEW c, Movable(t, sd, sn, dd, dn, c), NEW u, Moves(t, u, sd, sn, dd, dn)
  PROVE  Shape(u) /\ u.edges[<<dd, dn>>].child = c
  <1> DEFINE g == t.edges
             x == g[<<sd, sn>>]
             h == u.edges
  <1>1. t \in Tables /\ g \in [Places -> Edges]
    BY EdgesType DEF Shape
  <1>2. u \in Tables /\ u.nodes = t.nodes /\ u.next = t.next
    BY DEF Moves
  <1>4. \A a \in Inos, m \in Names : <<a, m>> \in Places
    BY DEF Places
  <1>5. x # NoEdge /\ x.child = c /\ g[<<dd, dn>>] = NoEdge /\ NoEdge.child = 0 /\ 0 \notin Inos
    BY InosAssumption DEF Movable, NoEdge
  <1>3. \A e \in Places : h[e] = IF e = <<sd, sn>> THEN NoEdge
                                 ELSE IF e = <<dd, dn>> THEN x ELSE g[e]
    <2>1. h = [g EXCEPT ![<<dd, dn>>] = x, ![<<sd, sn>>] = NoEdge]
      BY DEF Moves, Moved
    <2> HIDE DEF h, x
    <2> QED
      BY <2>1, <1>1
  <1>0. <<sd, sn>> # <<dd, dn>>
    BY <1>5
  <1>6. \A e \in Places : g[e] # NoEdge => g[e].child \in Inos
    BY <1>1, NoEdgeKind DEF Places
  <1>f. Fits(t, sd, x)
    BY <1>5 DEF Shape, EntriesFit
  <1>o. \A a, b \in Places : g[a] # NoEdge /\ g[a].kind = "dir" /\ g[b].child = g[a].child => a = b
    BY DEF Shape, OneParent
  <1> HIDE DEF g, h, x
  <1>7. EntriesFit(u)
    <2> SUFFICES ASSUME NEW a \in Inos, NEW m \in Names, h[<<a, m>>] # NoEdge
                 PROVE  Fits(u, a, h[<<a, m>>])
      BY DEF EntriesFit, h
    <2>1. CASE <<a, m>> = <<dd, dn>>
      <3>1. h[<<a, m>>] = x /\ a = dd
        BY <2>1, <1>0, <1>3, <1>4
      <3> QED
        BY <3>1, <1>2, <1>5, <1>f DEF Fits, Movable, Kind
    <2>2. CASE <<a, m>> # <<dd, dn>>
      <3>1. h[<<a, m>>] = g[<<a, m>>]
        BY <2>2, <1>3, <1>4
      <3>2. Fits(t, a, g[<<a, m>>])
        BY <3>1 DEF Shape, EntriesFit, g
      <3> QED
        BY <3>1, <3>2, <1>2 DEF Fits, Kind
    <2> QED
      BY <2>1, <2>2
  \* Where an entry of the new edges was in the old ones.
  <1> DEFINE was(e) == IF e = <<dd, dn>> THEN <<sd, sn>> ELSE e
  <1>8. \A e \in Places : h[e] # NoEdge => was(e) \in Places /\ h[e] = g[was(e)]
    BY <1>0, <1>3, <1>4 DEF x
  <1>9. \A e, f \in Places : h[e] # NoEdge /\ h[f] # NoEdge /\ was(e) = was(f) => e = f
    BY <1>0, <1>3, <1>4
  <1> HIDE DEF was
  <1>10. OneParent(u)
    <2> SUFFICES ASSUME NEW e \in Places, NEW f \in Places, h[e] # NoEdge, h[e].kind = "dir",
                        h[f].child = h[e].child
                 PROVE  e = f
      BY DEF OneParent, h
    <2>1. h[e].child \in Inos
      BY <1>6, <1>8
    <2>2. h[f] # NoEdge
      BY <2>1, <1>5
    <2> QED
      BY <2>2, <1>8, <1>9, <1>o
  <1>11. \A a \in Inos : LiveIn(g, a) => LiveIn(h, a)
    <2> SUFFICES ASSUME NEW a \in Inos, NEW e \in Places, g[e].child = a
                 PROVE  \E f \in Places : h[f].child = a
      BY DEF LiveIn
    <2>1. CASE e = <<sd, sn>>
      <3>1. h[<<dd, dn>>].child = a
        BY <2>1, <1>0, <1>3, <1>4 DEF x
      <3> QED
        BY <3>1, <1>4
    <2>2. CASE e # <<sd, sn>>
      <3>1. h[e].child = a
        BY <2>2, <1>3, <1>5
      <3> QED
        BY <3>1
    <2> QED
      BY <2>1, <2>2
  <1>12. FullLive(u)
    <2> SUFFICES ASSUME NEW a \in Inos, NEW m \in Names, h[<<a, m>>] # NoEdge PROVE LiveIn(h, a)
      BY DEF FullLive, h
    <2>1. a = dd \/ g[<<a, m>>] # NoEdge
      BY <1>3, <1>4
    <2>2. LiveIn(g, a)
      BY <2>1 DEF Movable, g, Shape, FullLive
    <2> QED
      BY <2>2, <1>11
  <1>13. Numbered(u) /\ Kind(u, Root) = Kind(t, Root) /\ Kind(t, Root) # "none"
    BY <1>2, <1>4, <1>5 DEF Shape, Numbered, RootFirst, Kind, x, g
  <1>14. RootFirst(u)
    BY <1>13 DEF RootFirst, Shape
  <1>15. h[<<dd, dn>>] = x
    BY <1>0, <1>3, <1>4
  <1> QED
    BY <1>2, <1>5, <1>7, <1>10, <1>12, <1>13, <1>14, <1>15 DEF Shape, h

-----------------------------------------------------------------------------
(* Counts: how far the link count of an inode is off, statement by         *)
(* statement.                                                              *)

LEMMA LinksOff ==
  ASSUME NEW t \in Tables, NEW i \in Inos, NEW by \in Int, NEW u, Relinked(t, u, i, by),
         NEW j \in Inos, Kind(t, j) # "none"
  PROVE  Off(u, j) = Off(t, j) + (IF j = i THEN by ELSE 0)
  <1>1. t.nodes[j].nlink \in Int /\ Due(t, j) \in Nat /\ t.nodes[j] # NoNode
    BY OffType, KindType
  <1>2. Due(u, j) = Due(t, j)
    BY DEF Relinked, Due, Kind
  <1>3. u.nodes[j].nlink = t.nodes[j].nlink + (IF j = i THEN by ELSE 0)
    BY <1>1 DEF Relinked
  <1> QED
    BY <1>1, <1>2, <1>3 DEF Off

\* What an entry of i, of kind k, in d adds to the link count due to j.
Adds(j, d, i, k) == IF k = "dir" THEN One(j = d) ELSE One(j = i)

\* The count due to j is that of its kind.
Befits(t, j, d, i, k) == /\ j = d => Kind(t, j) = "dir"
                         /\ j = i => Kind(t, j) = k

LEMMA PutOff ==
  ASSUME NEW t \in Tables, NEW d \in Inos, NEW n \in Names, NEW i \in Inos, NEW k \in Kinds,
         t.edges[<<d, n>>] = NoEdge, NEW u, Put(t, u, d, n, i, k),
         NEW j \in Inos, Kind(t, j) # "none", Befits(t, j, d, i, k)
  PROVE  Off(u, j) = Off(t, j) - Adds(j, d, i, k)
  <1> DEFINE r == [child |-> i, kind |-> k]
  <1>1. r # NoEdge /\ r.child = i /\ r.kind = k
    BY InosAssumption DEF NoEdge
  <1>2. Differ(t.edges, u.edges, d, n) /\ u.edges[<<d, n>>] = r
    BY EdgesType DEF Differ, Put, Rewired, Places
  <1> HIDE DEF r
  <1>3. /\ Cardinality(EntriesIn(u.edges, j)) = Cardinality(EntriesIn(t.edges, j)) + One(j = r.child)
        /\ Cardinality(SubdirsIn(u.edges, j)) =
             Cardinality(SubdirsIn(t.edges, j)) + One(j = d /\ r.kind = "dir")
    <2>1. Cardinality(EntriesIn(u.edges, j)) = Cardinality(EntriesIn(t.edges, j)) + One(j = r.child)
      BY <1>1, <1>2, PutCounts
    <2>2. Cardinality(SubdirsIn(u.edges, j)) =
             Cardinality(SubdirsIn(t.edges, j)) + One(j = d /\ r.kind = "dir")
      BY <1>1, <1>2, PutCounts
    <2> QED
      BY <2>1, <2>2
  <1>4. t.nodes[j].nlink \in Int /\ u.nodes[j] = t.nodes[j]
    BY KindType DEF Put, Rewired
  <1>5. Cardinality(EntriesIn(t.edges, j)) \in Nat /\ Cardinality(SubdirsIn(t.edges, j)) \in Nat
    BY CountTypes
  <1> QED
    BY <1>1, <1>3, <1>4, <1>5 DEF Off, Due, Adds, Befits, One, Kind

LEMMA TakeOff ==
  ASSUME NEW t \in Tables, NEW d \in Inos, NEW n \in Names, NEW i \in Inos, NEW k \in Kinds,
         t.edges[<<d, n>>] = [child |-> i, kind |-> k], NEW u, Take(t, u, d, n),
         NEW j \in Inos, Kind(t, j) # "none", Befits(t, j, d, i, k)
  PROVE  Off(u, j) = Off(t, j) + Adds(j, d, i, k)
  <1> DEFINE r == [child |-> i, kind |-> k]
  <1>1. r # NoEdge /\ r.child = i /\ r.kind = k
    BY InosAssumption DEF NoEdge
  <1>2. Differ(t.edges, u.edges, d, n) /\ t.edges[<<d, n>>] = r /\ u.edges[<<d, n>>] = NoEdge
    BY EdgesType, NodeTypes DEF Differ, Take, Rewired, Places
  <1> HIDE DEF r
  <1>3. /\ Cardinality(EntriesIn(u.edges, j)) = Cardinality(EntriesIn(t.edges, j)) - One(j = r.child)
        /\ Cardinality(SubdirsIn(u.edges, j)) =
             Cardinality(SubdirsIn(t.edges, j)) - One(j = d /\ r.kind = "dir")
    BY <1>1, <1>2, TakeCounts
  <1>4. t.nodes[j].nlink \in Int /\ u.nodes[j] = t.nodes[j]
    BY KindType DEF Take, Rewired
  <1>5. Cardinality(EntriesIn(t.edges, j)) \in Nat /\ Cardinality(SubdirsIn(t.edges, j)) \in Nat
    BY CountTypes
  <1> QED
    BY <1>1, <1>3, <1>4, <1>5 DEF Off, Due, Adds, Befits, One, Kind

LEMMA MovesOff ==
  ASSUME NEW t \in Tables, NEW sd \in Inos, NEW sn \in Names, NEW dd \in Inos, NEW dn \in Names,
         NEW x, t.edges[<<sd, sn>>] = x, x # NoEdge, t.edges[<<dd, dn>>] = NoEdge,
         NEW u, Moves(t, u, sd, sn, dd, dn), NEW j \in Inos, Kind(t, j) # "none",
         j \in {sd, dd} => Kind(t, j) = "dir"
  PROVE  Off(u, j) = Off(t, j) + One(j = sd /\ x.kind = "dir") - One(j = dd /\ x.kind = "dir")
  <1>0. <<sd, sn>> # <<dd, dn>> /\ t.edges \in [Places -> Edges]
    BY EdgesType
  <1>1. Moved(t.edges, u.edges, sd, sn, dd, dn)
    BY DEF Moves
  <1> DEFINE y == t.edges[<<dd, dn>>]
  <1>3. /\ Cardinality(EntriesIn(u.edges, j)) =
              Cardinality(EntriesIn(t.edges, j)) - One(y # NoEdge /\ j = y.child)
        /\ Cardinality(SubdirsIn(u.edges, j)) =
              Cardinality(SubdirsIn(t.edges, j)) - One(y # NoEdge /\ j = dd /\ y.kind = "dir")
                  - One(j = sd /\ x.kind = "dir") + One(j = dd /\ x.kind = "dir")
    BY <1>0, <1>1, MoveCounts
  <1>4. t.nodes[j].nlink \in Int /\ u.nodes[j] = t.nodes[j]
    BY KindType DEF Moves
  <1>5. Cardinality(EntriesIn(t.edges, j)) \in Nat /\ Cardinality(SubdirsIn(t.edges, j)) \in Nat
    BY CountTypes
  <1> QED
    BY <1>3, <1>4, <1>5 DEF Off, Due, One, Kind

-----------------------------------------------------------------------------
(* The inodes a statement is not about stay sound.                         *)

\* The node of j, the entries in it and those that lead to it stay.
Alike(t, u, j) ==
    /\ Kind(u, j) = Kind(t, j)
    /\ Kind(t, j) # "none" => u.nodes[j].nlink = t.nodes[j].nlink
    /\ \A e \in Places : u.edges[e].child = j <=> t.edges[e].child = j
    /\ \A n \in Names : u.edges[<<j, n>>] = t.edges[<<j, n>>]

LEMMA AlikeSound ==
  ASSUME NEW t, NEW u, NEW j, Sound(t, j), Alike(t, u, j)
  PROVE  Sound(u, j)
  <1>1. EntriesIn(u.edges, j) = EntriesIn(t.edges, j) /\ SubdirsIn(u.edges, j) = SubdirsIn(t.edges, j)
    BY DEF Alike, EntriesIn, SubdirsIn
  <1>2. Kind(t, j) # "none" => Off(u, j) = Off(t, j)
    BY <1>1 DEF Alike, Off, Due
  <1>3. LiveIn(u.edges, j) <=> LiveIn(t.edges, j)
    BY DEF Alike, LiveIn
  <1>4. Unnamed(t, j) => Unnamed(u, j)
    BY DEF Alike, Unnamed
  <1> QED
    BY <1>2, <1>3, <1>4 DEF Sound, Alike

\* An inode whose count is as right as it was before is sound again.
LEMMA SoundAgain ==
  ASSUME NEW t, NEW u, NEW j, Sound(t, j), Kind(t, j) # "none", Kind(u, j) = Kind(t, j),
         Off(u, j) = Off(t, j), Kind(t, j) = "dir" /\ LiveIn(u.edges, j) => LiveIn(t.edges, j)
  PROVE  Sound(u, j)
  BY DEF Sound

LEMMA GoodMore ==
  ASSUME NEW t, NEW T, Good(t, T), NEW U, T \subseteq U
  PROVE  Good(t, U)
  BY DEF Good

LEMMA GoodAgain ==
  ASSUME NEW t, NEW T, NEW U, Good(t, T \cup U), \A j \in Inos : j \in U \ T => Sound(t, j)
  PROVE  Good(t, T)
  BY DEF Good

\* The entries of j and in j are others than the ones of h that differ from g.
LEMMA AlikeEdges ==
  ASSUME NEW t, NEW u, u.nodes = t.nodes, NEW j \in Inos, NEW P \in SUBSET Places,
         \A e \in Places \ P : u.edges[e] = t.edges[e],
         \A e \in P : e[1] # j /\ u.edges[e].child # j /\ t.edges[e].child # j
  PROVE  Alike(t, u, j)
  <1>1. \A e \in Places : u.edges[e].child = j <=> t.edges[e].child = j
    OBVIOUS
  <1>2. \A n \in Names : <<j, n>> \in Places /\ <<j, n>>[1] = j
    BY DEF Places
  <1>3. \A n \in Names : u.edges[<<j, n>>] = t.edges[<<j, n>>]
    BY <1>2
  <1> QED
    BY <1>1, <1>3 DEF Alike, Kind

LEMMA GoodSame ==
  ASSUME NEW t, NEW T, Good(t, T), NEW u \in Tables, u.nodes = t.nodes, u.edges = t.edges,
         u.next = t.next
  PROVE  Good(u, T)
  <1>1. Shape(u)
    BY SameShape DEF Good, SameNames, Kind
  <1>2. \A j \in Inos : Alike(t, u, j)
    BY DEF Alike, Kind
  <1> QED
    BY <1>1, <1>2, AlikeSound DEF Good

LEMMA GoodNext ==
  ASSUME NEW t, NEW T, Good(t, T), Kind(t, Root) # "none", NEW m \in Nat, m >= t.next,
         NEW u, u = [t EXCEPT !.next = m]
  PROVE  Good(u, T) /\ u.nodes = t.nodes /\ u.edges = t.edges /\ u.next = m
  <1>1. Shape(u) /\ u.nodes = t.nodes /\ u.edges = t.edges /\ u.next = m
    BY NextShape DEF Good
  <1>2. \A j \in Inos : Alike(t, u, j)
    BY <1>1 DEF Alike, Kind
  <1> QED
    BY <1>1, <1>2, AlikeSound DEF Good

LEMMA GoodNew ==
  ASSUME NEW t, NEW T, Good(t, T), NEW i \in Inos, i \in T, NEW k \in Kinds, NEW u, New(t, u, i, k),
         Unnamed(t, i), IF i = Root THEN k = "dir" ELSE i = t.next /\ Kind(t, Root) # "none"
  PROVE  Good(u, T)
  <1>1. Shape(u)
    BY NewShape DEF Good
  <1>2. \A j \in Inos \ {i} : Alike(t, u, j)
    BY DEF Alike, New, Kind
  <1> QED
    BY <1>1, <1>2, AlikeSound DEF Good

LEMMA GoodLost ==
  ASSUME NEW t, NEW T, Good(t, T), NEW i \in Inos \ {Root}, i \in T, NEW u, Lost(t, u, i)
  PROVE  Good(u, T)
  <1>1. Shape(u)
    BY LostShape DEF Good
  <1>2. \A j \in Inos \ {i} : Alike(t, u, j)
    BY DEF Alike, Lost, Kind
  <1> QED
    BY <1>1, <1>2, AlikeSound DEF Good

LEMMA GoodLinks ==
  ASSUME NEW t, NEW T, Good(t, T), NEW i \in Inos, i \in T, NEW by, NEW u, Relinked(t, u, i, by)
  PROVE  Good(u, T)
  <1>1. SameNames(t, u) /\ t \in Tables
    BY DEF Relinked, SameNames, Kind, Good, Shape
  <1>2. Shape(u)
    BY <1>1, SameShape DEF Good
  <1>3. \A j \in Inos \ {i} : Alike(t, u, j)
    BY <1>1, KindType DEF Alike, Relinked, Kind
  <1> QED
    BY <1>2, <1>3, AlikeSound DEF Good

LEMMA GoodPut ==
  ASSUME NEW t, NEW T, Good(t, T), NEW d \in Inos, NEW n \in Names, NEW i \in Inos, NEW k \in Kinds,
         d \in T, i \in T, Fitting(t, d, n, i, k), NEW u, Put(t, u, d, n, i, k)
  PROVE  Good(u, T)
  <1>1. Shape(u)
    BY PutShape DEF Good
  <1> DEFINE P == {<<d, n>>}
             x == [child |-> i, kind |-> k]
  <1>2. t.edges \in [Places -> Edges] /\ u.nodes = t.nodes /\ u.edges = [t.edges EXCEPT ![<<d, n>>] = x]
    BY EdgesType DEF Good, Shape, Put, Rewired
  <1>3. P \in SUBSET Places /\ \A e \in P : e[1] = d /\ t.edges[e].child = 0
    BY DEF Places, Fitting, NoEdge
  <1>4. (\A e \in Places \ P : u.edges[e] = t.edges[e]) /\ \A e \in P : u.edges[e].child = i
    <2>1. x.child = i
      OBVIOUS
    <2> HIDE DEF x
    <2> QED
      BY <1>2, <1>3, <2>1
  <1> HIDE DEF P
  <1>5. \A j \in Inos \ {d, i} : Alike(t, u, j)
    <2> TAKE j \in Inos \ {d, i}
    <2>1. \A e \in P : e[1] # j /\ u.edges[e].child # j /\ t.edges[e].child # j
      BY <1>3, <1>4, InosAssumption
    <2> QED
      BY <1>2, <1>3, <1>4, <2>1, AlikeEdges
  <1> QED
    BY <1>1, <1>5, AlikeSound DEF Good

LEMMA GoodTake ==
  ASSUME NEW t, NEW T, Good(t, T), NEW d \in Inos, NEW n \in Names, d \in T,
         NEW c, c = t.edges[<<d, n>>].child, c \in T, Bare(t, c), NEW u, Take(t, u, d, n)
  PROVE  Good(u, T)
  <1>1. Shape(u)
    BY TakeShape DEF Good
  <1> DEFINE P == {<<d, n>>}
  <1>2. /\ t.edges \in [Places -> Edges] /\ u.nodes = t.nodes
        /\ u.edges = [t.edges EXCEPT ![<<d, n>>] = NoEdge]
    BY EdgesType DEF Good, Shape, Take, Rewired
  <1>3. P \in SUBSET Places /\ \A e \in P : e[1] = d /\ t.edges[e].child = c
    BY DEF Places
  <1>4. (\A e \in Places \ P : u.edges[e] = t.edges[e]) /\ \A e \in P : u.edges[e].child = 0
    <2>1. NoEdge.child = 0
      BY DEF NoEdge
    <2> QED
      BY <1>2, <1>3, <2>1
  <1> HIDE DEF P
  <1>5. \A j \in Inos \ {d, c} : Alike(t, u, j)
    <2> TAKE j \in Inos \ {d, c}
    <2>1. \A e \in P : e[1] # j /\ u.edges[e].child # j /\ t.edges[e].child # j
      BY <1>3, <1>4, InosAssumption
    <2> QED
      BY <1>2, <1>3, <1>4, <2>1, AlikeEdges
  <1> QED
    BY <1>1, <1>5, AlikeSound DEF Good

LEMMA GoodMoves ==
  ASSUME NEW t, NEW T, Good(t, T), NEW sd \in Inos, NEW sn \in Names, NEW dd \in Inos,
         NEW dn \in Names, NEW c, {sd, dd, c} \subseteq T, Movable(t, sd, sn, dd, dn, c),
         NEW u, Moves(t, u, sd, sn, dd, dn)
  PROVE  Good(u, T)
  <1>1. Shape(u)
    BY MovesShape DEF Good
  <1> DEFINE P == {<<sd, sn>>, <<dd, dn>>}
             x == t.edges[<<sd, sn>>]
  <1>2. /\ t.edges \in [Places -> Edges] /\ u.nodes = t.nodes
        /\ u.edges = [t.edges EXCEPT ![<<dd, dn>>] = x, ![<<sd, sn>>] = NoEdge]
    BY EdgesType DEF Good, Shape, Moves, Moved
  <1>3. /\ P \in SUBSET Places /\ NoEdge.child = 0 /\ x.child = c
        /\ \A e \in P : e[1] \in {sd, dd} /\ t.edges[e].child \in {0, c}
    BY DEF Places, Movable, NoEdge
  <1>4. (\A e \in Places \ P : u.edges[e] = t.edges[e]) /\ \A e \in P : u.edges[e].child \in {0, c}
    <2> HIDE DEF x
    <2> QED
      BY <1>2, <1>3
  <1> HIDE DEF P
  <1>5. \A j \in Inos \ {sd, dd, c} : Alike(t, u, j)
    <2> TAKE j \in Inos \ {sd, dd, c}
    <2>1. \A e \in P : e[1] # j /\ u.edges[e].child # j /\ t.edges[e].child # j
      BY <1>3, <1>4, InosAssumption
    <2> QED
      BY <1>2, <1>3, <1>4, <2>1, AlikeEdges
  <1> QED
    BY <1>1, <1>5, AlikeSound DEF Good

-----------------------------------------------------------------------------
(* Scripts: the statements an operation has still to run, and the tables   *)
(* they lead through.                                                      *)

\* The file the last rename moves is at the source or at the destination.
Kept(t, r) == r # <<>> => \/ t.edges[<<r[1], r[2]>>].child = r[5]
                          \/ t.edges[<<r[3], r[4]>>].child = r[5]

Fine(t, T, r) == Good(t, T) /\ Kept(t, r)

Script(p, n) == (\E S : p \in Seq(S)) /\ Len(p) <= n

\* The statements p lead from t to u, through tables that are fine.
Leads(t, p, u, T, r) ==
    \E h \in [0..Len(p) -> Tables] :
        /\ h[0] = t /\ h[Len(p)] = u
        /\ \A k \in 0..Len(p) : Fine(h[k], T, r)
        /\ \A k \in 1..Len(p) : h[k] = Apply(h[k - 1], p[k])

LEMMA ScriptOne ==
  ASSUME NEW s
  PROVE  Script(<<s>>, 1) /\ Len(<<s>>) = 1 /\ <<s>>[1] = s
  <1>1. \E S : <<s>> \in Seq(S)
    <2>1. <<s>> \in Seq({s})
      OBVIOUS
    <2> QED
      BY <2>1
  <1>2. Len(<<s>>) = 1 /\ <<s>>[1] = s
    OBVIOUS
  <1> QED
    BY <1>1, <1>2 DEF Script

LEMMA ScriptNone == Script(<<>>, 0)
  <1>1. <<>> \in Seq({}) /\ Len(<<>>) = 0
    OBVIOUS
  <1> QED
    BY <1>1 DEF Script

LEMMA Joined ==
  ASSUME NEW p, NEW q, NEW S, NEW R, p \in Seq(S), q \in Seq(R)
  PROVE  /\ p \o q \in Seq(S \cup R) /\ Len(p \o q) = Len(p) + Len(q)
         /\ Len(p) \in Nat /\ Len(q) \in Nat
         /\ \A k \in 1..Len(p) : (p \o q)[k] = p[k]
         /\ \A k \in 1..Len(q) : (p \o q)[Len(p) + k] = q[k]
  <1>1. p \in Seq(S \cup R) /\ q \in Seq(S \cup R)
    OBVIOUS
  <1> QED
    BY <1>1

LEMMA ScriptThen ==
  ASSUME NEW p, NEW q, NEW n \in Nat, NEW m \in Nat, Script(p, n), Script(q, m)
  PROVE  Script(p \o q, n + m)
  <1>1. PICK S : p \in Seq(S)
    BY DEF Script
  <1>2. PICK R : q \in Seq(R)
    BY DEF Script
  <1>3. /\ p \o q \in Seq(S \cup R) /\ Len(p \o q) = Len(p) + Len(q)
        /\ Len(p) \in Nat /\ Len(q) \in Nat
    BY <1>1, <1>2, Joined
  <1> QED
    BY <1>3 DEF Script

LEMMA LeadsNone ==
  ASSUME NEW t, NEW T, NEW r, Fine(t, T, r)
  PROVE  Leads(t, <<>>, t, T, r)
  <1> DEFINE h == [k \in 0..0 |-> t]
  <1>1. h \in [0..0 -> Tables] /\ h[0] = t
    BY DEF Fine, Good, Shape
  <1> HIDE DEF h
  <1>2. \A k \in 0..0 : h[k] = t
    BY <1>1
  <1> QED
    BY <1>1, <1>2 DEF Leads

LEMMA LeadsOne ==
  ASSUME NEW t, NEW s, NEW u, u = Apply(t, s), NEW T, NEW r, Fine(t, T, r), Fine(u, T, r)
  PROVE  Leads(t, <<s>>, u, T, r)
  <1> DEFINE h == [k \in 0..1 |-> IF k = 0 THEN t ELSE u]
  <1>1. h \in [0..1 -> Tables] /\ h[0] = t /\ h[1] = u
    BY DEF Fine, Good, Shape
  <1> HIDE DEF h
  <1>2. \A k \in 0..1 : Fine(h[k], T, r)
    BY <1>1
  <1>3. \A k \in 1..1 : h[k] = Apply(h[k - 1], <<s>>[k])
    BY <1>1
  <1>4. Len(<<s>>) = 1
    OBVIOUS
  <1> QED
    BY <1>1, <1>2, <1>3, <1>4 DEF Leads

LEMMA LeadsThen ==
  ASSUME NEW t, NEW p, NEW u, NEW q, NEW v, NEW T, NEW r, NEW n, NEW m,
         Script(p, n), Script(q, m), Leads(t, p, u, T, r), Leads(u, q, v, T, r)
  PROVE  Leads(t, p \o q, v, T, r)
  <1>1. PICK S : p \in Seq(S)
    BY DEF Script
  <1>2. PICK R : q \in Seq(R)
    BY DEF Script
  <1> DEFINE a == Len(p)
             b == Len(q)
             w == p \o q
  <1>3. /\ Len(w) = a + b /\ a \in Nat /\ b \in Nat
        /\ \A k \in 1..a : w[k] = p[k]
        /\ \A k \in 1..b : w[a + k] = q[k]
    BY <1>1, <1>2, Joined
  <1>4. PICK f \in [0..a -> Tables] :
          /\ f[0] = t /\ f[a] = u
          /\ \A k \in 0..a : Fine(f[k], T, r)
          /\ \A k \in 1..a : f[k] = Apply(f[k - 1], p[k])
    BY DEF Leads
  <1>5. PICK g \in [0..b -> Tables] :
          /\ g[0] = u /\ g[b] = v
          /\ \A k \in 0..b : Fine(g[k], T, r)
          /\ \A k \in 1..b : g[k] = Apply(g[k - 1], q[k])
    BY DEF Leads
  <1> DEFINE h == [k \in 0..(a + b) |-> IF k <= a THEN f[k] ELSE g[k - a]]
  <1> HIDE DEF a, b, w
  <1>6. h \in [0..(a + b) -> Tables]
    BY <1>3
  <1>7. /\ \A k \in 0..a : h[k] = f[k]
        /\ \A k \in 0..b : h[a + k] = g[k]
    BY <1>3, <1>4, <1>5
  <1> HIDE DEF h
  <1>8. h[0] = t /\ h[a + b] = v
    BY <1>3, <1>4, <1>5, <1>7
  <1>9. \A k \in 0..(a + b) : k \in 0..a \/ \E l \in 1..b : k = a + l
    <2> TAKE k \in 0..(a + b)
    <2>1. k > a => k - a \in 1..b /\ k = a + (k - a)
      BY <1>3
    <2> QED
      BY <2>1, <1>3
  <1>10. \A k \in 0..(a + b) : Fine(h[k], T, r)
    <2> TAKE k \in 0..(a + b)
    <2>1. CASE k \in 0..a
      BY <2>1, <1>4, <1>7
    <2>2. ASSUME NEW l \in 1..b, k = a + l PROVE Fine(h[k], T, r)
      <3>1. l \in 0..b
        BY <1>3
      <3> QED
        BY <3>1, <2>2, <1>5, <1>7
    <2> QED
      BY <2>1, <2>2, <1>9
  <1>11. \A k \in 1..(a + b) : h[k] = Apply(h[k - 1], w[k])
    <2> TAKE k \in 1..(a + b)
    <2>1. CASE k \in 0..a
      <3>1. k \in 1..a /\ k - 1 \in 0..a
        BY <2>1, <1>3
      <3>2. h[k] = f[k] /\ h[k - 1] = f[k - 1] /\ w[k] = p[k]
        BY <2>1, <3>1, <1>3, <1>7
      <3> QED
        BY <3>1, <3>2, <1>4
    <2>2. ASSUME NEW l \in 1..b, k = a + l PROVE h[k] = Apply(h[k - 1], w[k])
      <3>1. l \in 0..b /\ l - 1 \in 0..b /\ k - 1 = a + (l - 1)
        BY <2>2, <1>3
      <3>2. h[k] = g[l] /\ h[k - 1] = g[l - 1] /\ w[k] = q[l]
        BY <2>2, <3>1, <1>3, <1>7
      <3> QED
        BY <3>2, <1>5
    <2> QED
      BY <2>1, <2>2, <1>9
  <1> QED
    BY <1>3, <1>6, <1>8, <1>10, <1>11 DEF Leads, a, b, w

LEMMA LeadsHead ==
  ASSUME NEW t, NEW p, NEW u, NEW T, NEW r, NEW n, Script(p, n), p # <<>>, Leads(t, p, u, T, r)
  PROVE  /\ Leads(Apply(t, Head(p)), Tail(p), u, T, r)
         /\ \E S : Tail(p) \in Seq(S)
         /\ Len(p) \in Nat \ {0} /\ Len(Tail(p)) = Len(p) - 1
  <1>1. PICK S : p \in Seq(S)
    BY DEF Script
  <1> DEFINE a == Len(p)
             q == Tail(p)
  <1>2. /\ a \in Nat \ {0} /\ Len(q) = a - 1 /\ q \in Seq(S) /\ Head(p) = p[1]
        /\ \A k \in 1..(a - 1) : q[k] = p[k + 1]
    BY <1>1
  <1>3. PICK f \in [0..a -> Tables] :
          /\ f[0] = t /\ f[a] = u
          /\ \A k \in 0..a : Fine(f[k], T, r)
          /\ \A k \in 1..a : f[k] = Apply(f[k - 1], p[k])
    BY DEF Leads
  <1> DEFINE h == [k \in 0..(a - 1) |-> f[k + 1]]
  <1> HIDE DEF a, q
  <1>4. h \in [0..(a - 1) -> Tables] /\ \A k \in 0..(a - 1) : h[k] = f[k + 1] /\ k + 1 \in 1..a
    BY <1>2
  <1> HIDE DEF h
  <1>5. h[0] = Apply(t, Head(p)) /\ h[a - 1] = u
    <2>1. f[1] = Apply(f[0], p[1]) /\ 0 \in 0..(a - 1) /\ a - 1 \in 0..(a - 1) /\ (a - 1) + 1 = a
      BY <1>2, <1>3
    <2> QED
      BY <2>1, <1>2, <1>3, <1>4
  <1>6. \A k \in 0..(a - 1) : Fine(h[k], T, r)
    BY <1>2, <1>3, <1>4
  <1>7. \A k \in 1..(a - 1) : h[k] = Apply(h[k - 1], q[k])
    <2> TAKE k \in 1..(a - 1)
    <2>1. k \in 0..(a - 1) /\ k - 1 \in 0..(a - 1) /\ k + 1 \in 1..a /\ (k - 1) + 1 = k /\ (k + 1) - 1 = k
      BY <1>2
    <2>2. h[k] = f[k + 1] /\ h[k - 1] = f[k] /\ q[k] = p[k + 1]
      BY <2>1, <1>2, <1>4
    <2> QED
      BY <2>1, <2>2, <1>3
  <1> QED
    BY <1>2, <1>4, <1>5, <1>6, <1>7 DEF Leads, a, q

\* What the tables are before the statements, and when there is none.
LEMMA LeadsFine ==
  ASSUME NEW t, NEW p, NEW u, NEW T, NEW r, NEW n, Script(p, n), Leads(t, p, u, T, r)
  PROVE  Fine(t, T, r) /\ (p = <<>> => u = t)
  <1>1. Len(p) \in Nat
    BY DEF Script
  <1>2. p = <<>> => Len(p) = 0
    OBVIOUS
  <1> QED
    BY <1>1, <1>2 DEF Leads

LEMMA ScriptWhen ==
  ASSUME NEW c, NEW s
  PROVE  Script(When(c, s), 1)
  <1>1. Script(<<>>, 1)
    BY ScriptNone DEF Script
  <1> QED
    BY <1>1, ScriptOne DEF When

LEMMA LeadsWhen ==
  ASSUME NEW c, NEW s, NEW t, NEW u, NEW T, NEW r, Fine(t, T, r), Fine(u, T, r),
         IF c THEN u = Apply(t, s) ELSE u = t
  PROVE  Leads(t, When(c, s), u, T, r)
  <1>1. CASE c
    BY <1>1, LeadsOne DEF When
  <1>2. CASE ~c
    BY <1>2, LeadsNone DEF When
  <1> QED
    BY <1>1, <1>2

-----------------------------------------------------------------------------
(* The operations: each script leads through tables that are good but for  *)
(* the inodes it is about, to tables that are good for them again.         *)

LEMMA Applied ==
  ASSUME NEW t
  PROVE  /\ \A m : Apply(t, <<"counter", m>>) = [t EXCEPT !.next = m]
         /\ \A i, k : Apply(t, <<"node", i, k>>) = InsertNode(t, i, k)
         /\ \A d, n, i, k : Apply(t, <<"edge", d, n, i, k>>) = InsertEdge(t, d, n, i, k)
         /\ \A i, by : Apply(t, <<"links", i, by>>) = AddLinks(t, i, by)
         /\ \A d, n : Apply(t, <<"unedge", d, n>>) = DeleteEdge(t, d, n)
         /\ \A i : Apply(t, <<"reap", i>>) = IF Linkless(t, i) THEN DeleteNode(t, i) ELSE t
         /\ \A sd, sn, dd, dn : Apply(t, <<"move", sd, sn, dd, dn>>) = MoveEdge(t, sd, sn, dd, dn)
         /\ \A i : Apply(t, <<"symlink", i>>) = [t EXCEPT !.symlinks = @ \cup {i}]
         /\ \A i : Apply(t, <<"dechunk", i>>) = [t EXCEPT !.chunks = @ \ {i}]
         /\ \A i : Apply(t, <<"desym", i>>) = [t EXCEPT !.symlinks = @ \ {i}]
         /\ \A i : Apply(t, <<"denode", i>>) = DeleteNode(t, i)
  <1>1. \A m : Apply(t, <<"counter", m>>) = [t EXCEPT !.next = m]
    BY DEF Apply
  <1>2. \A i, k : Apply(t, <<"node", i, k>>) = InsertNode(t, i, k)
    BY DEF Apply
  <1>3. \A d, n, i, k : Apply(t, <<"edge", d, n, i, k>>) = InsertEdge(t, d, n, i, k)
    BY DEF Apply
  <1>4. \A i, by : Apply(t, <<"links", i, by>>) = AddLinks(t, i, by)
    BY DEF Apply
  <1>5. \A d, n : Apply(t, <<"unedge", d, n>>) = DeleteEdge(t, d, n)
    BY DEF Apply
  <1>6. \A i : Apply(t, <<"reap", i>>) = IF Linkless(t, i) THEN DeleteNode(t, i) ELSE t
    BY DEF Apply
  <1>7. \A sd, sn, dd, dn : Apply(t, <<"move", sd, sn, dd, dn>>) = MoveEdge(t, sd, sn, dd, dn)
    BY DEF Apply
  <1>8. \A i : Apply(t, <<"symlink", i>>) = [t EXCEPT !.symlinks = @ \cup {i}]
    BY DEF Apply
  <1>9. \A i : Apply(t, <<"dechunk", i>>) = [t EXCEPT !.chunks = @ \ {i}]
    BY DEF Apply
  <1>10. \A i : Apply(t, <<"desym", i>>) = [t EXCEPT !.symlinks = @ \ {i}]
    BY DEF Apply
  <1>11. \A i : Apply(t, <<"denode", i>>) = DeleteNode(t, i)
    BY DEF Apply
  <1> QED
    BY <1>1, <1>2, <1>3, <1>4, <1>5, <1>6, <1>7, <1>8, <1>9, <1>10, <1>11

LEMMA TwoSteps ==
  ASSUME NEW a, NEW b
  PROVE  <<a, b>> = <<a>> \o <<b>> /\ Script(<<a, b>>, 2)
  <1> DEFINE p == <<a>>
             q == <<b>>
             w == p \o q
  <1>1. Script(p, 1) /\ Script(q, 1) /\ Len(p) = 1 /\ Len(q) = 1 /\ p[1] = a /\ q[1] = b
    BY ScriptOne
  <1> HIDE DEF p, q
  <1>2. PICK S : p \in Seq(S)
    BY <1>1 DEF Script
  <1>3. PICK R : q \in Seq(R)
    BY <1>1 DEF Script
  <1>4. w \in Seq(S \cup R) /\ Len(w) = 2 /\ w[1] = a /\ w[2] = b
    <2>1. \A k \in 1..1 : w[k] = p[k] /\ w[1 + k] = q[k]
      BY <1>1, <1>2, <1>3, Joined
    <2> QED
      BY <2>1, <1>1, <1>2, <1>3, Joined
  <1> HIDE DEF w
  <1>5. w = <<a, b>>
    <2>1. w = [k \in 1..2 |-> w[k]]
      BY <1>4
    <2>2. <<a, b>> = [k \in 1..2 |-> <<a, b>>[k]]
      OBVIOUS
    <2>3. \A k \in 1..2 : w[k] = <<a, b>>[k]
      BY <1>4
    <2> QED
      BY <2>1, <2>2, <2>3
  <1>6. Script(w, 2)
    BY <1>1, ScriptThen DEF w
  <1> QED
    BY <1>5, <1>6 DEF w, p, q

LEMMA ThreeSteps ==
  ASSUME NEW a, NEW b, NEW c
  PROVE  <<a, b, c>> = <<a, b>> \o <<c>> /\ Script(<<a, b, c>>, 3)
  <1> DEFINE p == <<a, b>>
             q == <<c>>
  <1>1. <<a, b, c>> = p \o q
    OBVIOUS
  <1>2. Script(p, 2) /\ Script(q, 1)
    BY TwoSteps, ScriptOne
  <1> HIDE DEF p, q
  <1>3. Script(p \o q, 3)
    BY <1>2, ScriptThen
  <1> QED
    BY <1>1, <1>3 DEF p, q

LEMMA LeadsTwo ==
  ASSUME NEW t, NEW u, NEW v, NEW a, NEW b, NEW T, NEW r,
         Fine(t, T, r), Fine(u, T, r), Fine(v, T, r), u = Apply(t, a), v = Apply(u, b)
  PROVE  Leads(t, <<a, b>>, v, T, r)
  <1> DEFINE p == <<a>>
             q == <<b>>
  <1>1. Leads(t, p, u, T, r) /\ Leads(u, q, v, T, r)
    BY LeadsOne
  <1>2. Script(p, 1) /\ Script(q, 1) /\ <<a, b>> = p \o q
    BY TwoSteps, ScriptOne
  <1> HIDE DEF p, q
  <1>3. Leads(t, p \o q, v, T, r)
    BY <1>1, <1>2, LeadsThen
  <1> QED
    BY <1>2, <1>3

LEMMA LeadsThree ==
  ASSUME NEW t, NEW u, NEW v, NEW w, NEW a, NEW b, NEW c, NEW T, NEW r,
         Fine(t, T, r), Fine(u, T, r), Fine(v, T, r), Fine(w, T, r),
         u = Apply(t, a), v = Apply(u, b), w = Apply(v, c)
  PROVE  Leads(t, <<a, b, c>>, w, T, r)
  <1> DEFINE p == <<a, b>>
             q == <<c>>
  <1>1. Leads(t, p, v, T, r) /\ Leads(v, q, w, T, r)
    BY LeadsTwo, LeadsOne
  <1>2. Script(p, 2) /\ Script(q, 1)
    BY TwoSteps, ScriptOne
  <1>3. <<a, b, c>> = p \o q
    BY ThreeSteps
  <1> HIDE DEF p, q
  <1>4. Leads(t, p \o q, w, T, r)
    BY <1>1, <1>2, LeadsThen
  <1> QED
    BY <1>3, <1>4

\* An operation without a rename to keep a name for.
LEMMA FinePlain ==
  ASSUME NEW t, NEW T, Good(t, T)
  PROVE  Fine(t, T, <<>>)
  BY DEF Fine, Kept

LEMMA SameOff ==
  ASSUME NEW t, NEW u, NEW j, u.nodes[j] = t.nodes[j], u.edges = t.edges
  PROVE  Off(u, j) = Off(t, j) /\ Kind(u, j) = Kind(t, j)
  BY DEF Off, Due, Kind

\* A directory the kernel works in.
LEMMA InDirFacts ==
  ASSUME Shape(db), NEW d \in Inos, InDir(d)
  PROVE  /\ Kind(db, d) = "dir" /\ LiveIn(db.edges, d) /\ Kind(db, Root) # "none"
         /\ \A i \in Inos : i <= db.next => d <= db.next
  <1>1. Kind(db, d) = "dir" /\ LiveIn(db.edges, d)
    BY DEF InDir, IsDir, Live, LiveIn, Kind, Places
  <1>2. Kind(db, Root) # "none"
    BY <1>1 DEF Shape, RootFirst
  <1>3. \A i \in Inos : i <= db.next => Root <= db.next
    BY InosAssumption DEF Root, Shape, Tables
  <1> QED
    BY <1>1, <1>2, <1>3 DEF Shape, Numbered

\* A number the counter has not given out leads nowhere.
LEMMA FreshUnnamed ==
  ASSUME NEW t, Shape(t), NEW i \in Inos, i > t.next, Kind(t, Root) # "none"
  PROVE  Unnamed(t, i)
  <1>1. t.next \in Nat /\ i \in Nat /\ i # 0 /\ t \in Tables /\ NoEdge.child = 0
    BY InosAssumption DEF Shape, Tables, NoEdge
  <1>2. ASSUME NEW d \in Inos, NEW n \in Names, t.edges[<<d, n>>] # NoEdge
        PROVE  d # i /\ t.edges[<<d, n>>].child # i
    <2>1. Fits(t, d, t.edges[<<d, n>>])
      BY <1>2 DEF Shape, EntriesFit
    <2> QED
      BY <2>1, <1>1, InosAssumption DEF Fits
  <1>3. \A n \in Names : t.edges[<<i, n>>] = NoEdge
    BY <1>2
  <1>4. \A d \in Inos, n \in Names : t.edges[<<d, n>>].child # i
    BY <1>1, <1>2
  <1> QED
    BY <1>3, <1>4 DEF Unnamed, Places

LEMMA CreateLeads ==
  ASSUME NEW T, Good(db, T), NEW d \in Inos, NEW n \in Names, NEW k \in Kinds,
         InDir(d), ~Taken(d, n), db.next > 0, NEW i \in Inos, i = db.next + 1
  PROVE  \E u : /\ Leads(db, <<<<"counter", i>>, <<"node", i, k>>>>
                             \o When(k = "symlink", <<"symlink", i>>)
                             \o <<NewEntry(d, n, i, k)>> \o When(k = "dir", <<"links", d, 1>>),
                         u, T \cup {d, i}, <<>>)
                /\ Good(u, T)
  <1> DEFINE U == T \cup {d, i}
             t1 == [db EXCEPT !.next = i]
             t2 == InsertNode(t1, i, k)
             t3 == IF k = "symlink" THEN [t2 EXCEPT !.symlinks = @ \cup {i}] ELSE t2
             t4 == InsertEdge(t3, d, n, i, k)
             t5 == IF k = "dir" THEN AddLinks(t4, d, 1) ELSE t4
             a == <<"counter", i>>
             b == <<"node", i, k>>
             c == <<"symlink", i>>
             e == NewEntry(d, n, i, k)
             f == <<"links", d, 1>>
  <1>0. /\ Shape(db) /\ Good(db, U) /\ db.next \in Nat /\ i \in Nat /\ i > db.next
        /\ Kind(db, d) = "dir" /\ LiveIn(db.edges, d) /\ Kind(db, Root) # "none"
        /\ db.edges[<<d, n>>] = NoEdge /\ db \in Tables
    <2>1. Shape(db) /\ db \in Tables
      BY DEF Good, Shape
    <2>2. Good(db, U)
      BY GoodMore
    <2>3. db.next \in Nat /\ i \in Nat /\ i > db.next
      BY <2>1, InosAssumption DEF Tables
    <2>4. Kind(db, d) = "dir" /\ LiveIn(db.edges, d) /\ Kind(db, Root) # "none"
      BY <2>1, InDirFacts
    <2>5. db.edges[<<d, n>>] = NoEdge
      BY DEF Taken, Entry
    <2> QED
      BY <2>1, <2>2, <2>3, <2>4, <2>5
  <1>1. /\ Unnamed(db, i) /\ i # d /\ i # Root /\ d <= i
        /\ Kind(db, i) = "none"
    <2>1. Unnamed(db, i)
      BY <1>0, FreshUnnamed
    <2>2. \A j \in Inos : j <= db.next \/ j = Root \/ Kind(db, j) = "none"
      BY <1>0 DEF Shape, Numbered
    <2>3. i # Root /\ i >= Root
      BY <1>0 DEF Root
    <2>4. Kind(db, i) = "none"
      BY <2>2, <2>3, <1>0
    <2>5. d <= db.next \/ d = Root
      BY <2>2, <1>0
    <2>6. d \in Nat
      BY InosAssumption
    <2> QED
      BY <2>1, <2>3, <2>4, <2>5, <2>6, <1>0
  <1>2. /\ Apply(db, a) = t1 /\ Apply(t1, b) = t2
        /\ IF k = "symlink" THEN t3 = Apply(t2, c) ELSE t3 = t2
        /\ Apply(t3, e) = t4
        /\ IF k = "dir" THEN t5 = Apply(t4, f) ELSE t5 = t4
    BY Applied DEF NewEntry
  <1>3. Good(t1, U) /\ t1.nodes = db.nodes /\ t1.edges = db.edges /\ t1.next = i
    BY <1>0, GoodNext
  <1> HIDE DEF t1
  <1>4. New(t1, t2, i, k)
    BY <1>3, InsertNodeNew DEF Good, Shape
  <1> HIDE DEF t2
  <1>5. Unnamed(t1, i) /\ Kind(t1, Root) # "none" /\ i \in U /\ d \in U
    BY <1>0, <1>1, <1>3 DEF Unnamed, Kind
  <1>6. Good(t2, U)
    BY <1>1, <1>3, <1>4, <1>5, GoodNew
  <1>7. t3 \in Tables /\ t3.nodes = t2.nodes /\ t3.edges = t2.edges /\ t3.next = t2.next
    BY <1>6 DEF Good, Shape, Tables
  <1> HIDE DEF t3
  <1>8. Good(t3, U)
    BY <1>6, <1>7, GoodSame
  <1>9. Put(t3, t4, d, n, i, k)
    BY <1>7, InsertEdgePuts
  <1> HIDE DEF t4
  <1>10. /\ t3.edges = db.edges /\ t3.next = i /\ Kind(t3, d) = "dir" /\ Kind(t3, i) = k
         /\ t3.nodes[d] = db.nodes[d]
    BY <1>0, <1>1, <1>3, <1>4, <1>7 DEF New, Kind
  <1>11. Fitting(t3, d, n, i, k)
    BY <1>0, <1>1, <1>10 DEF Fitting, Unnamed
  <1>12. Good(t4, U)
    BY <1>5, <1>8, <1>9, <1>11, GoodPut
  <1>13. t4 \in Tables /\ (k = "dir" => Relinked(t4, t5, d, 1))
    BY <1>12, AddLinksRelinks DEF Good, Shape
  <1> HIDE DEF t5
  <1>14. Good(t5, U)
    <2>1. k = "dir" => Good(t5, U)
      BY <1>5, <1>12, <1>13, GoodLinks
    <2>2. k # "dir" => Good(t5, U)
      BY <1>2, <1>12
    <2> QED
      BY <2>1, <2>2
  \* The counts of the two inodes, from statement to statement.
  <1>15. /\ Kind(t4, i) = k /\ Kind(t4, d) = "dir" /\ t4.nodes[d] = db.nodes[d]
         /\ t4.nodes[i] = t3.nodes[i]
    BY <1>9, <1>10 DEF Put, Rewired, Kind
  <1>16. /\ Off(t4, i) = Off(t3, i) - (IF k = "dir" THEN 0 ELSE 1)
         /\ Off(t4, d) = Off(t3, d) - (IF k = "dir" THEN 1 ELSE 0)
    <2>1. Befits(t3, i, d, i, k) /\ Befits(t3, d, d, i, k) /\ Kind(t3, i) # "none"
      BY <1>1, <1>10 DEF Befits, Kinds
    <2>2. Off(t4, i) = Off(t3, i) - Adds(i, d, i, k)
      BY <2>1, <1>7, <1>9, <1>11, PutOff DEF Fitting
    <2>3. Off(t4, d) = Off(t3, d) - Adds(d, d, i, k)
      BY <2>1, <1>7, <1>9, <1>10, <1>11, PutOff DEF Fitting
    <2> QED
      BY <2>2, <2>3, <1>1 DEF Adds, One
  <1>17. Off(t3, i) = IF k = "dir" THEN 0 ELSE 1
    <2>1. EntriesIn(t3.edges, i) = {} /\ SubdirsIn(t3.edges, i) = {}
      BY <1>1, <1>10 DEF EntriesIn, SubdirsIn, Unnamed, NoEdge
    <2>2. Due(t3, i) = IF k = "dir" THEN 2 ELSE 0
      BY <2>1, <1>10, FS_EmptySet DEF Due
    <2>3. t3.nodes[i].nlink = IF k = "dir" THEN 2 ELSE 1
      BY <1>4, <1>7 DEF New
    <2> QED
      BY <2>2, <2>3 DEF Off
  <1>18. Off(t3, d) = Off(db, d) /\ Off(db, d) \in Int
    BY <1>0, <1>10, SameOff, OffType
  <1>19. /\ Off(t5, i) = 0 /\ Kind(t5, i) = k
         /\ Off(t5, d) = Off(db, d) /\ Kind(t5, d) = "dir"
    <2>1. CASE k = "dir"
      <3>1. /\ Off(t5, i) = Off(t4, i) + (IF i = d THEN 1 ELSE 0)
            /\ Off(t5, d) = Off(t4, d) + (IF d = d THEN 1 ELSE 0)
        <4>1. Off(t5, i) = Off(t4, i) + (IF i = d THEN 1 ELSE 0)
          BY <2>1, <1>13, <1>15, LinksOff
        <4>2. Off(t5, d) = Off(t4, d) + (IF d = d THEN 1 ELSE 0)
          BY <2>1, <1>13, <1>15, LinksOff
        <4> QED
          BY <4>1, <4>2
      <3>2. Kind(t5, i) = k /\ Kind(t5, d) = "dir"
        BY <2>1, <1>13, <1>15 DEF Relinked, Kind
      <3> QED
        BY <2>1, <3>1, <3>2, <1>1, <1>16, <1>17, <1>18
    <2>2. CASE k # "dir"
      BY <2>2, <1>2, <1>15, <1>16, <1>17, <1>18
    <2> QED
      BY <2>1, <2>2
  <1>20. Good(t5, T)
    <2>1. Sound(t5, i)
      BY <1>19 DEF Sound, Kinds
    <2>2. d \notin T => Sound(t5, d)
      <3>1. d \notin T => Sound(db, d)
        BY DEF Good
      <3> QED
        BY <3>1, <1>0, <1>19, SoundAgain
    <2>3. Good(t5, T \cup {d, i})
      BY <1>14
    <2> QED
      BY <2>1, <2>2, <2>3, GoodAgain
  <1>21. Fine(db, U, <<>>) /\ Fine(t1, U, <<>>) /\ Fine(t2, U, <<>>)
    BY <1>0, <1>3, <1>6, FinePlain
  <1>22. Fine(t3, U, <<>>) /\ Fine(t4, U, <<>>) /\ Fine(t5, U, <<>>)
    BY <1>8, <1>12, <1>14, FinePlain
  <1> DEFINE s1 == <<a, b>>
             s2 == When(k = "symlink", c)
             s3 == <<e>>
             s4 == When(k = "dir", f)
  <1> HIDE DEF U, a, b, c, e, f
  <1>23. Leads(db, s1, t2, U, <<>>) /\ Script(s1, 2)
    BY <1>2, <1>21, LeadsTwo, TwoSteps
  <1>24. Leads(t2, s2, t3, U, <<>>) /\ Script(s2, 1)
    BY <1>2, <1>21, <1>22, LeadsWhen, ScriptWhen
  <1>25. Leads(t3, s3, t4, U, <<>>) /\ Script(s3, 1)
    BY <1>2, <1>22, LeadsOne, ScriptOne
  <1>26. Leads(t4, s4, t5, U, <<>>) /\ Script(s4, 1)
    BY <1>2, <1>22, LeadsWhen, ScriptWhen
  <1> HIDE DEF s1, s2, s3, s4
  <1>27. Leads(db, s1 \o s2, t3, U, <<>>) /\ Script(s1 \o s2, 2 + 1)
    BY <1>23, <1>24, LeadsThen, ScriptThen
  <1>28. Leads(db, (s1 \o s2) \o s3, t4, U, <<>>) /\ Script((s1 \o s2) \o s3, (2 + 1) + 1)
    BY <1>25, <1>27, LeadsThen, ScriptThen
  <1>29. Leads(db, ((s1 \o s2) \o s3) \o s4, t5, U, <<>>)
    BY <1>26, <1>28, LeadsThen
  <1> QED
    BY <1>20, <1>29 DEF U, s1, s2, s3, s4, a, b, c, e, f

LEMMA LinkLeads ==
  ASSUME NEW T, Good(db, T), NEW d \in Inos, NEW n \in Names, NEW i \in Inos,
         MayLink(i, d), ~Taken(d, n), NEW k, k = db.nodes[i].kind
  PROVE  \E u : /\ Leads(db, <<NewEntry(d, n, i, k), <<"links", i, 1>>>>, u, T \cup {d, i}, <<>>)
                /\ Good(u, T)
  <1> DEFINE U == T \cup {d, i}
             t1 == InsertEdge(db, d, n, i, k)
             t2 == AddLinks(t1, i, 1)
             a == NewEntry(d, n, i, k)
             b == <<"links", i, 1>>
  <1>0. Shape(db) /\ db \in Tables /\ InDir(d) /\ Exists(db, i) /\ ~IsDir(i)
    BY DEF MayLink, Good, Shape
  <1>1. /\ Kind(db, d) = "dir" /\ LiveIn(db.edges, d) /\ Kind(db, Root) # "none"
        /\ \A j \in Inos : j <= db.next => d <= db.next
    BY <1>0, InDirFacts
  <1>2. Kind(db, i) = k /\ k \in Kinds /\ k # "dir" /\ Kind(db, i) # "none"
    <2>1. Kind(db, i) # "none" /\ Kind(db, i) \in Kinds \cup {"none"}
      BY <1>0, KindType DEF Exists
    <2> QED
      BY <2>1, <1>0 DEF Kind, IsDir
  <1>3. i # Root /\ i # d /\ i <= db.next /\ d <= db.next
    <2>1. i # Root
      BY <1>0, <1>2 DEF Shape, RootFirst
    <2>2. i <= db.next
      BY <2>1, <1>0, <1>2 DEF Shape, Numbered
    <2> QED
      BY <2>1, <2>2, <1>1, <1>2
  <1>4. Fitting(db, d, n, i, k)
    BY <1>1, <1>2, <1>3 DEF Fitting, Taken, Entry
  <1>5. Apply(db, a) = t1 /\ Apply(t1, b) = t2
    BY Applied DEF NewEntry
  <1>6. Put(db, t1, d, n, i, k)
    BY <1>0, <1>2, InsertEdgePuts
  <1>7. t1 \in Tables
    BY <1>6 DEF Put, Rewired
  <1>8. Relinked(t1, t2, i, 1)
    BY <1>7, AddLinksRelinks
  <1> HIDE DEF t1, t2, a, b
  <1>9. Good(db, U) /\ d \in U /\ i \in U
    BY GoodMore
  <1>10. Good(t1, U)
    BY <1>2, <1>4, <1>6, <1>9, GoodPut
  <1>11. Good(t2, U)
    BY <1>8, <1>9, <1>10, GoodLinks
  <1>12. /\ Kind(t1, i) = k /\ Kind(t1, d) = "dir" /\ Kind(t2, i) = k /\ Kind(t2, d) = "dir"
    BY <1>1, <1>2, <1>6, <1>8 DEF Put, Rewired, Relinked, Kind
  <1>13. Off(t1, i) = Off(db, i) - 1 /\ Off(t1, d) = Off(db, d) - 0
    <2>1. Befits(db, i, d, i, k) /\ Befits(db, d, d, i, k)
      BY <1>1, <1>2, <1>3 DEF Befits
    <2>2. Off(t1, i) = Off(db, i) - Adds(i, d, i, k)
      BY <2>1, <1>0, <1>2, <1>4, <1>6, PutOff DEF Fitting
    <2>3. Off(t1, d) = Off(db, d) - Adds(d, d, i, k)
      BY <2>1, <1>0, <1>1, <1>2, <1>4, <1>6, PutOff DEF Fitting
    <2> QED
      BY <2>2, <2>3, <1>2, <1>3 DEF Adds, One
  <1>14. Off(t2, i) = Off(t1, i) + 1 /\ Off(t2, d) = Off(t1, d) + 0
    <2>1. Off(t2, i) = Off(t1, i) + (IF i = i THEN 1 ELSE 0)
      BY <1>2, <1>7, <1>8, <1>12, LinksOff
    <2>2. Off(t2, d) = Off(t1, d) + (IF d = i THEN 1 ELSE 0)
      BY <1>7, <1>8, <1>12, LinksOff
    <2> QED
      BY <2>1, <2>2, <1>3
  <1>15. Off(t2, i) = Off(db, i) /\ Off(t2, d) = Off(db, d)
    <2>1. Off(db, i) \in Int /\ Off(db, d) \in Int
      BY <1>0, <1>1, <1>2, OffType
    <2> QED
      BY <2>1, <1>13, <1>14
  <1>16. Good(t2, T)
    <2>1. i \notin T => Sound(t2, i)
      <3>1. i \notin T => Sound(db, i)
        BY DEF Good
      <3> QED
        BY <3>1, <1>2, <1>12, <1>15, SoundAgain
    <2>2. d \notin T => Sound(t2, d)
      <3>1. d \notin T => Sound(db, d)
        BY DEF Good
      <3> QED
        BY <3>1, <1>1, <1>12, <1>15, SoundAgain
    <2> QED
      BY <2>1, <2>2, <1>11, GoodAgain
  <1>17. Fine(db, U, <<>>) /\ Fine(t1, U, <<>>) /\ Fine(t2, U, <<>>)
    BY <1>9, <1>10, <1>11, FinePlain
  <1> HIDE DEF U
  <1>18. Leads(db, <<a, b>>, t2, U, <<>>)
    BY <1>5, <1>17, LeadsTwo
  <1> QED
    BY <1>16, <1>18 DEF U, a, b

\* Taking an entry out and counting its child, and then its directory, down; an
\* inode that may be reaped in between, because its count says so, has no entry
\* any more.
LEMMA DropTables ==
  ASSUME NEW T, Good(db, T), NEW d \in Inos, NEW n \in Names, InDir(d), Taken(d, n),
         NEW c, c = Child(d, n), Exists(db, c), ~NotEmpty(c),
         NEW t1, t1 = DeleteEdge(db, d, n), NEW t2, t2 = AddLinks(t1, c, -1),
         NEW t3, t3 = t2 \/ (Linkless(t2, c) /\ t3 = DeleteNode(t2, c)),
         NEW t4, t4 = IF IsDir(c) THEN AddLinks(t3, d, -1) ELSE t3
  PROVE  /\ c \in Inos /\ c # d
         /\ Good(db, T \cup {d, c}) /\ Good(t1, T \cup {d, c}) /\ Good(t2, T \cup {d, c})
         /\ Good(t3, T \cup {d, c}) /\ Good(t4, T \cup {d, c}) /\ Good(t4, T)
         /\ t1.edges = [db.edges EXCEPT ![<<d, n>>] = NoEdge]
         /\ t2.edges = t1.edges /\ t3.edges = t1.edges /\ t4.edges = t1.edges
         /\ t4.next = db.next /\ \A j \in Inos \ {c} : Kind(t4, j) = Kind(db, j)
  <1> DEFINE U == T \cup {d, c}
             k == Kind(db, c)
  <1>0. Shape(db) /\ db \in Tables /\ <<d, n>> \in Places
    BY DEF Good, Shape, Places
  <1>1. /\ Kind(db, d) = "dir" /\ LiveIn(db.edges, d)
    BY <1>0, InDirFacts
  <1>2. /\ db.edges[<<d, n>>] # NoEdge /\ db.edges[<<d, n>>].child = c /\ c \in Inos
        /\ db.edges[<<d, n>>] = [child |-> c, kind |-> db.edges[<<d, n>>].kind]
    <2>1. db.edges[<<d, n>>] # NoEdge /\ db.edges[<<d, n>>].child = c
      BY DEF Taken, Child, Entry
    <2>2. db.edges[<<d, n>>] \in [child : Inos, kind : Kinds]
      BY <2>1, <1>0 DEF Tables, Edges, Places
    <2> QED
      BY <2>1, <2>2
  <1>3. k # "none" /\ k \in Kinds /\ (IsDir(c) <=> k = "dir")
    <2>1. k # "none" /\ k \in Kinds \cup {"none"}
      BY <1>0, <1>2, KindType DEF Exists
    <2> QED
      BY <2>1 DEF IsDir, Kind
  <1>4. /\ db.edges[<<d, n>>].kind = k /\ c \notin {Root, d}
    BY <1>0, <1>2, <1>3 DEF Shape, EntriesFit, Fits
  <1>5. db.edges[<<d, n>>] = [child |-> c, kind |-> k]
    BY <1>2, <1>4
  <1>6. Bare(db, c)
    <2>1. CASE k = "dir"
      BY <2>1, <1>3 DEF Bare, NotEmpty, Taken, Entry
    <2>2. CASE k # "dir"
      BY <2>2, <1>0, <1>2, <1>3 DEF Bare, Shape, EntriesFit, Fits
    <2> QED
      BY <2>1, <2>2
  <1>7. k = "dir" => ~LiveIn([db.edges EXCEPT ![<<d, n>>] = NoEdge], c)
    <2> SUFFICES ASSUME k = "dir", NEW e \in Places,
                        [db.edges EXCEPT ![<<d, n>>] = NoEdge][e].child = c
                 PROVE  FALSE
      BY <1>4 DEF LiveIn
    <2>1. e # <<d, n>> /\ db.edges[e].child = c
      <3>1. db.edges \in [Places -> Edges] /\ NoEdge.child = 0 /\ c # 0
        BY <1>0, <1>2, EdgesType, InosAssumption DEF NoEdge
      <3> QED
        BY <3>1, <1>0
    <2> QED
      BY <2>1, <1>0, <1>2, <1>4 DEF Shape, OneParent
  <1> HIDE DEF k
  <1>8. Take(db, t1, d, n) /\ t1 \in Tables
    BY <1>0, DeleteEdgeTakes DEF Take, Rewired
  <1>9. Relinked(t1, t2, c, -1) /\ t2 \in Tables
    <2>1. Relinked(t1, t2, c, -1)
      BY <1>2, <1>8, AddLinksRelinks
    <2> QED
      BY <2>1 DEF Relinked
  <1>10. t3 # t2 => /\ Lost(t2, t3, c) /\ t2.nodes[c].nlink <= 0
    <2> SUFFICES ASSUME Linkless(t2, c), t3 = DeleteNode(t2, c)
                 PROVE  Lost(t2, t3, c) /\ t2.nodes[c].nlink <= 0
      OBVIOUS
    <2>1. t3 = [t2 EXCEPT !.nodes[c] = NoNode]
      BY DEF DeleteNode
    <2>2. t3.nodes = [t2.nodes EXCEPT ![c] = NoNode] /\ t3.edges = t2.edges /\ t3.next = t2.next
          /\ t3 \in Tables
      BY <2>1, <1>9, NodeTypes DEF Tables
    <2> QED
      BY <2>2, <1>2, <1>9 DEF Lost, Kind, NoNode, Linkless, Tables
  <1>11. t3 \in Tables /\ t3.edges = t2.edges /\ t3.next = t2.next
         /\ \A j \in Inos \ {c} : t3.nodes[j] = t2.nodes[j]
    BY <1>9, <1>10 DEF Lost
  <1>12. IsDir(c) => Relinked(t3, t4, d, -1)
    BY <1>11, AddLinksRelinks
  <1>13. Good(db, U) /\ d \in U /\ c \in U
    BY GoodMore
  <1>14. Good(t1, U)
    BY <1>2, <1>6, <1>8, <1>13, GoodTake
  <1>15. Good(t2, U)
    BY <1>2, <1>9, <1>13, <1>14, GoodLinks
  <1>16. Good(t3, U)
    <2>1. t3 # t2 => Good(t3, U)
      BY <1>2, <1>4, <1>10, <1>13, <1>15, GoodLost
    <2> QED
      BY <2>1, <1>15
  <1>17. Good(t4, U)
    <2>1. IsDir(c) => Good(t4, U)
      BY <1>12, <1>13, <1>16, GoodLinks
    <2> QED
      BY <2>1, <1>16
  <1>18. /\ t1.edges = [db.edges EXCEPT ![<<d, n>>] = NoEdge]
         /\ t2.edges = t1.edges /\ t3.edges = t1.edges /\ t4.edges = t1.edges
         /\ t4.next = db.next
    BY <1>8, <1>9, <1>11, <1>12 DEF Take, Rewired, Relinked
  <1>19. /\ \A j \in Inos : Kind(t1, j) = Kind(db, j) /\ Kind(t2, j) = Kind(db, j)
         /\ \A j \in Inos \ {c} : Kind(t3, j) = Kind(db, j) /\ Kind(t4, j) = Kind(db, j)
         /\ t3 = t2 => Kind(t4, c) = k
         /\ t3 # t2 => Kind(t4, c) = "none"
    <2>1. \A j \in Inos : Kind(t1, j) = Kind(db, j)
      BY <1>8 DEF Take, Rewired, Kind
    <2>2. \A j \in Inos : Kind(t2, j) = Kind(t1, j)
      BY <1>9 DEF Relinked, Kind
    <2>3. \A j \in Inos \ {c} : Kind(t3, j) = Kind(t2, j)
      BY <1>11 DEF Kind
    <2>4. \A j \in Inos : Kind(t4, j) = Kind(t3, j)
      BY <1>12 DEF Relinked, Kind
    <2>5. t3 # t2 => Kind(t3, c) = "none"
      BY <1>10 DEF Lost
    <2> QED
      BY <2>1, <2>2, <2>3, <2>4, <2>5, <1>2 DEF k
  \* The counts of the child and of the directory.
  <1>20. Off(db, c) \in Int /\ Off(db, d) \in Int
    BY <1>0, <1>1, <1>2, <1>3, OffType DEF k
  <1>21. /\ Off(t1, c) = Off(db, c) + (IF k = "dir" THEN 0 ELSE 1)
         /\ Off(t1, d) = Off(db, d) + (IF k = "dir" THEN 1 ELSE 0)
    <2>1. Befits(db, c, d, c, k) /\ Befits(db, d, d, c, k)
      BY <1>1, <1>4 DEF Befits, k
    <2>2. Off(t1, c) = Off(db, c) + Adds(c, d, c, k)
      BY <2>1, <1>0, <1>2, <1>3, <1>5, <1>8, TakeOff DEF k
    <2>3. Off(t1, d) = Off(db, d) + Adds(d, d, c, k)
      BY <2>1, <1>0, <1>1, <1>2, <1>3, <1>5, <1>8, TakeOff
    <2> QED
      BY <2>2, <2>3, <1>4 DEF Adds, One
  <1>22. Off(t2, c) = Off(t1, c) + -1 /\ Off(t2, d) = Off(t1, d) + 0
    <2>1. Off(t2, c) = Off(t1, c) + (IF c = c THEN -1 ELSE 0)
      BY <1>2, <1>3, <1>8, <1>9, <1>19, LinksOff DEF k
    <2>2. Off(t2, d) = Off(t1, d) + (IF d = c THEN -1 ELSE 0)
      BY <1>1, <1>2, <1>8, <1>9, <1>19, LinksOff
    <2> QED
      BY <2>1, <2>2, <1>4
  <1>23. Off(t3, d) = Off(t2, d) /\ Kind(t3, d) = "dir"
    <2>1. t3.nodes[d] = t2.nodes[d] /\ t3.edges = t2.edges
      BY <1>4, <1>11
    <2> QED
      BY <2>1, <1>1, <1>4, <1>19, SameOff
  <1>24. Off(t4, d) = Off(db, d)
    <2>1. CASE k = "dir"
      <3>1. Off(t4, d) = Off(t3, d) + (IF d = d THEN -1 ELSE 0)
        BY <2>1, <1>3, <1>11, <1>12, <1>23, LinksOff
      <3> QED
        BY <2>1, <3>1, <1>20, <1>21, <1>22, <1>23
    <2>2. CASE k # "dir"
      <3>1. t4 = t3
        BY <2>2, <1>3
      <3> QED
        BY <2>2, <3>1, <1>20, <1>21, <1>22, <1>23
    <2> QED
      BY <2>1, <2>2
  <1>25. d \notin T => Sound(t4, d)
    <2>1. d \notin T => Sound(db, d)
      BY DEF Good
    <2> QED
      BY <2>1, <1>1, <1>4, <1>19, <1>24, SoundAgain
  <1>26. c \notin T => Sound(t4, c)
    <2> SUFFICES ASSUME c \notin T PROVE Sound(t4, c)
      OBVIOUS
    <2>1. Sound(db, c) /\ LiveIn(db.edges, c)
      BY <1>0, <1>2 DEF Good, LiveIn
    <2>2. Off(db, c) = 0
      BY <2>1, <1>3 DEF Sound, k
    <2>3. CASE k = "dir" /\ t3 = t2
      <3>1. ~LiveIn(t4.edges, c) /\ Kind(t4, c) = "dir"
        BY <2>3, <1>7, <1>18, <1>19
      <3> QED
        BY <3>1 DEF Sound
    <2>4. CASE k # "dir" /\ t3 = t2
      <3>1. t4 = t2 /\ Off(t2, c) = 0 /\ Kind(t4, c) = k
        BY <2>2, <2>4, <1>3, <1>19, <1>21, <1>22
      <3> QED
        BY <3>1, <1>3 DEF Sound
    <2>5. CASE t3 # t2
      <3>1. /\ t2.nodes[c].nlink \in Int /\ t2.nodes[c].nlink <= 0
            /\ Off(t2, c) = t2.nodes[c].nlink - Due(t2, c) /\ Due(t2, c) \in Nat
        BY <2>5, <1>2, <1>3, <1>9, <1>10, <1>19, OffType DEF Off, k
      <3>2. k # "dir"
        <4> SUFFICES ASSUME k = "dir" PROVE FALSE
          OBVIOUS
        <4>1. Due(t2, c) >= 2
          <5>1. Due(t2, c) = 2 + Cardinality(SubdirsIn(t2.edges, c))
            BY <1>2, <1>19 DEF Due, k
          <5>2. Cardinality(SubdirsIn(t2.edges, c)) \in Nat
            BY CountTypes
          <5> QED
            BY <5>1, <5>2
        <4> QED
          BY <2>2, <3>1, <4>1, <1>21, <1>22
      <3>3. EntriesIn(t2.edges, c) = {}
        <4>1. Due(t2, c) = 0
          BY <2>2, <3>1, <3>2, <1>21, <1>22
        <4>2. Due(t2, c) = Cardinality(EntriesIn(t2.edges, c))
          BY <3>2, <1>2, <1>19 DEF Due, k
        <4> QED
          BY <4>1, <4>2, CountTypes, FS_EmptySet
      <3>4. \A m \in Names : t4.edges[<<c, m>>] = NoEdge
        BY <1>6, <1>0, <1>2, <1>18, EdgesType DEF Bare, Places
      <3>5. Unnamed(t4, c)
        BY <3>3, <3>4, <1>18 DEF Unnamed, EntriesIn
      <3> QED
        BY <2>5, <3>5, <1>19 DEF Sound
    <2> QED
      BY <2>3, <2>4, <2>5
  <1>27. Good(t4, T)
    BY <1>17, <1>25, <1>26, GoodAgain
  <1> QED
    BY <1>2, <1>4, <1>13, <1>14, <1>15, <1>16, <1>17, <1>18, <1>19, <1>27

LEMMA UnlinkLeads ==
  ASSUME NEW T, Good(db, T), NEW d \in Inos, NEW n \in Names, InDir(d), Taken(d, n),
         NEW c, c = Child(d, n), Exists(db, c), ~NotEmpty(c)
  PROVE  /\ c \in Inos
         /\ \E u : /\ Leads(db, <<<<"unedge", d, n>>, <<"links", c, -1>>>>
                                \o When(IsDir(c), <<"links", d, -1>>), u, T \cup {d, c}, <<>>)
                   /\ Good(u, T)
  <1> DEFINE U == T \cup {d, c}
             t1 == DeleteEdge(db, d, n)
             t2 == AddLinks(t1, c, -1)
             t4 == IF IsDir(c) THEN AddLinks(t2, d, -1) ELSE t2
             a == <<"unedge", d, n>>
             b == <<"links", c, -1>>
             e == <<"links", d, -1>>
  <1>1. /\ Apply(db, a) = t1 /\ Apply(t1, b) = t2
        /\ IF IsDir(c) THEN t4 = Apply(t2, e) ELSE t4 = t2
    BY Applied
  <1>2. /\ c \in Inos /\ Good(db, U) /\ Good(t1, U) /\ Good(t2, U) /\ Good(t4, U) /\ Good(t4, T)
    <2> DEFINE t3 == t2
    <2> HIDE DEF t1, t2, t3, U
    <2>1. t1 = DeleteEdge(db, d, n) /\ t2 = AddLinks(t1, c, -1)
      BY DEF t1, t2
    <2>2. /\ t3 = t2 \/ (Linkless(t2, c) /\ t3 = DeleteNode(t2, c))
          /\ t4 = IF IsDir(c) THEN AddLinks(t3, d, -1) ELSE t3
      BY DEF t3
    <2> HIDE DEF t4
    <2>3. /\ c \in Inos /\ c # d
          /\ Good(db, T \cup {d, c}) /\ Good(t1, T \cup {d, c}) /\ Good(t2, T \cup {d, c})
          /\ Good(t3, T \cup {d, c}) /\ Good(t4, T \cup {d, c}) /\ Good(t4, T)
          /\ t1.edges = [db.edges EXCEPT ![<<d, n>>] = NoEdge]
          /\ t2.edges = t1.edges /\ t3.edges = t1.edges /\ t4.edges = t1.edges
          /\ t4.next = db.next /\ \A j \in Inos \ {c} : Kind(t4, j) = Kind(db, j)
      BY <2>1, <2>2, DropTables
    <2> QED
      BY <2>3 DEF U
  <1> HIDE DEF t1, t2, t4, a, b, e, U
  <1>3. Fine(db, U, <<>>) /\ Fine(t1, U, <<>>) /\ Fine(t2, U, <<>>) /\ Fine(t4, U, <<>>)
    BY <1>2, FinePlain
  <1> DEFINE s1 == <<a, b>>
             s2 == When(IsDir(c), e)
  <1>4. Leads(db, s1, t2, U, <<>>) /\ Script(s1, 2)
    BY <1>1, <1>3, LeadsTwo, TwoSteps
  <1>5. Leads(t2, s2, t4, U, <<>>) /\ Script(s2, 1)
    BY <1>1, <1>3, LeadsWhen, ScriptWhen
  <1> HIDE DEF s1, s2
  <1>6. Leads(db, s1 \o s2, t4, U, <<>>)
    BY <1>4, <1>5, LeadsThen
  <1> QED
    BY <1>2, <1>6 DEF U, s1, s2, a, b, e

\* An inode a cut may leave torn, beside those of T, is in U.
Within(T, on, U) == T \cup on \subseteq U

\* The rename r moves an entry that is there, and not the entry n of d.
Elsewhere(r, d, n) ==
    /\ r # <<>> /\ <<r[1], r[2]>> \in Places /\ <<r[1], r[2]>> # <<d, n>>
    /\ db.edges[<<r[1], r[2]>>].child = r[5]

\* The statements that take out what a rename replaces.
Drop(d, n, c) == <<<<"unedge", d, n>>, <<"links", c, -1>>, <<"reap", c>>>>
                 \o When(IsDir(c), <<"links", d, -1>>)

\* The tables u are t without the entry n of d and, it may be, the node of c.
Without(t, u, d, n, c) ==
    /\ u.next = t.next /\ u.edges = [t.edges EXCEPT ![<<d, n>>] = NoEdge]
    /\ \A j \in Inos \ {c} : Kind(u, j) = Kind(t, j)

\* The same for a rename, which also reaps; the entry it will move stays.
LEMMA DropLeads ==
  ASSUME NEW T, Good(db, T), NEW d \in Inos, NEW n \in Names, InDir(d), Taken(d, n),
         NEW c, c = Child(d, n), Exists(db, c), ~NotEmpty(c), NEW U, Within(T, {d, c}, U),
         NEW r, Elsewhere(r, d, n)
  PROVE  /\ c \in Inos /\ c # d
         /\ \E u : Leads(db, Drop(d, n, c), u, U, r) /\ Good(u, T) /\ Without(db, u, d, n, c)
  <1> DEFINE V == T \cup {d, c}
             t1 == DeleteEdge(db, d, n)
             t2 == AddLinks(t1, c, -1)
             t3 == IF Linkless(t2, c) THEN DeleteNode(t2, c) ELSE t2
             t4 == IF IsDir(c) THEN AddLinks(t3, d, -1) ELSE t3
             a == <<"unedge", d, n>>
             b == <<"links", c, -1>>
             e == <<"reap", c>>
             f == <<"links", d, -1>>
  <1>1. /\ Apply(db, a) = t1 /\ Apply(t1, b) = t2 /\ Apply(t2, e) = t3
        /\ IF IsDir(c) THEN t4 = Apply(t3, f) ELSE t4 = t3
    BY Applied
  <1>2. /\ c \in Inos /\ c # d
        /\ Good(db, V) /\ Good(t1, V) /\ Good(t2, V) /\ Good(t3, V) /\ Good(t4, V) /\ Good(t4, T)
        /\ t1.edges = [db.edges EXCEPT ![<<d, n>>] = NoEdge]
        /\ t2.edges = t1.edges /\ t3.edges = t1.edges /\ t4.edges = t1.edges
        /\ t4.next = db.next /\ \A j \in Inos \ {c} : Kind(t4, j) = Kind(db, j)
    <2>1. t3 = t2 \/ (Linkless(t2, c) /\ t3 = DeleteNode(t2, c))
      OBVIOUS
    <2> HIDE DEF t1, t2, t3
    <2>2. t1 = DeleteEdge(db, d, n) /\ t2 = AddLinks(t1, c, -1)
      BY DEF t1, t2
    <2>3. t4 = IF IsDir(c) THEN AddLinks(t3, d, -1) ELSE t3
      OBVIOUS
    <2> HIDE DEF t4, V
    <2> QED
      BY <2>1, <2>2, <2>3, DropTables DEF V
  <1> HIDE DEF t1, t2, t3, t4, a, b, e, f
  <1>3. t1.edges[<<r[1], r[2]>>].child = r[5]
    <2>1. db.edges \in [Places -> Edges] /\ <<d, n>> \in Places
      BY EdgesType DEF Good, Shape, Places
    <2> QED
      BY <2>1, <1>2 DEF Elsewhere
  <1>5. Kept(db, r) /\ Kept(t1, r) /\ Kept(t2, r) /\ Kept(t3, r) /\ Kept(t4, r)
    BY <1>2, <1>3 DEF Kept, Elsewhere
  <1>6. Good(db, U) /\ Good(t1, U) /\ Good(t2, U) /\ Good(t3, U) /\ Good(t4, U)
    <2> HIDE DEF V
    <2>1. V \subseteq U
      BY DEF V, Within
    <2> QED
      BY <2>1, <1>2, GoodMore
  <1>7. Fine(db, U, r) /\ Fine(t1, U, r) /\ Fine(t2, U, r) /\ Fine(t3, U, r) /\ Fine(t4, U, r)
    BY <1>5, <1>6 DEF Fine
  <1> DEFINE s1 == <<a, b, e>>
             s2 == When(IsDir(c), f)
  <1>8. Leads(db, s1, t3, U, r) /\ Script(s1, 3)
    BY <1>1, <1>7, LeadsThree, ThreeSteps
  <1>9. Leads(t3, s2, t4, U, r) /\ Script(s2, 1)
    BY <1>1, <1>7, LeadsWhen, ScriptWhen
  <1> HIDE DEF s1, s2
  <1>10. Leads(db, s1 \o s2, t4, U, r)
    BY <1>8, <1>9, LeadsThen
  <1>11. Without(db, t4, d, n, c)
    BY <1>2 DEF Without
  <1> QED
    BY <1>2, <1>10, <1>11 DEF s1, s2, a, b, e, f, Drop

\* The move itself, and the counts of the two directories.
LEMMA MoveLeads ==
  ASSUME NEW T, NEW t, Good(t, T), NEW sd \in Inos, NEW sn \in Names, NEW dd \in Inos,
         NEW dn \in Names, NEW c \in Inos, Movable(t, sd, sn, dd, dn, c),
         Kind(t, c) # "none", Kind(t, sd) = "dir", IsDir(c) <=> Kind(t, c) = "dir",
         NEW U, Within(T, {sd, dd, c}, U), NEW r, r = <<sd, sn, dd, dn, c>>
  PROVE  /\ Script(Move(sd, sn, dd, dn), 1) /\ Script(Recount(c, sd, dd), 2)
         /\ \E v, u : /\ Leads(t, Move(sd, sn, dd, dn), v, U, r)
                      /\ Leads(v, Recount(c, sd, dd), u, U, r)
                      /\ Good(u, T)
  <1> DEFINE V == T \cup {sd, dd, c}
             t1 == MoveEdge(t, sd, sn, dd, dn)
             across == IsDir(c) /\ sd # dd
             t2 == IF across THEN AddLinks(t1, sd, -1) ELSE t1
             t3 == IF across THEN AddLinks(t2, dd, 1) ELSE t1
             a == <<"move", sd, sn, dd, dn>>
             b == <<"links", sd, -1>>
             e == <<"links", dd, 1>>
             x == t.edges[<<sd, sn>>]
  <1>0. /\ Shape(t) /\ t \in Tables /\ Good(t, V)
        /\ x # NoEdge /\ x.child = c /\ t.edges[<<dd, dn>>] = NoEdge
        /\ Kind(t, dd) = "dir" /\ c # dd
    BY GoodMore DEF Good, Shape, Movable
  <1>1. x.kind = Kind(t, c) /\ c # sd
    BY <1>0 DEF Shape, EntriesFit, Fits
  <1>2. /\ Apply(t, a) = t1
        /\ across => t2 = Apply(t1, b) /\ t3 = Apply(t2, e)
    BY Applied
  <1>3. Moves(t, t1, sd, sn, dd, dn) /\ t1 \in Tables
    <2>1. Moves(t, t1, sd, sn, dd, dn)
      BY <1>0, MoveEdgeMoves
    <2> QED
      BY <2>1 DEF Moves
  <1> HIDE DEF t1
  <1>4. across => Relinked(t1, t2, sd, -1) /\ t2 \in Tables
    <2> SUFFICES ASSUME across PROVE Relinked(t1, t2, sd, -1) /\ t2 \in Tables
      OBVIOUS
    <2>1. Relinked(t1, t2, sd, -1)
      BY <1>3, AddLinksRelinks
    <2> QED
      BY <2>1 DEF Relinked
  <1>e. ~across => t2 = t1 /\ t3 = t1
    OBVIOUS
  <1>5. across => Relinked(t2, t3, dd, 1)
    <2> HIDE DEF t2, across
    <2> QED
      BY <1>4, AddLinksRelinks
  <1> HIDE DEF t2, t3
  <1>6. Good(t1, V)
    BY <1>0, <1>3, GoodMoves
  <1>7. sd \in V /\ dd \in V
    OBVIOUS
  <1>8. Good(t2, V)
    <2> HIDE DEF V, across
    <2>1. across => Good(t2, V)
      BY <1>4, <1>6, <1>7, GoodLinks
    <2> QED
      BY <2>1, <1>6, <1>e
  <1>9. Good(t3, V)
    <2> HIDE DEF V, across
    <2>1. across => Good(t3, V)
      BY <1>5, <1>7, <1>8, GoodLinks
    <2> QED
      BY <2>1, <1>6, <1>e
  <1>10. /\ \A j \in Inos : Kind(t1, j) = Kind(t, j) /\ Kind(t2, j) = Kind(t, j) /\ Kind(t3, j) = Kind(t, j)
         /\ t1.edges[<<dd, dn>>].child = c /\ t2.edges = t1.edges /\ t3.edges = t1.edges
    <2>1. \A j \in Inos : Kind(t1, j) = Kind(t, j)
      BY <1>3 DEF Moves, Kind
    <2>2. t1.edges[<<dd, dn>>].child = c
      BY <1>0, <1>3, MovesShape
    <2>3. (\A j \in Inos : Kind(t2, j) = Kind(t1, j)) /\ t2.edges = t1.edges
      BY <1>4, <1>e DEF Relinked, Kind
    <2>4. (\A j \in Inos : Kind(t3, j) = Kind(t2, j)) /\ t3.edges = t2.edges
      BY <1>5, <1>e DEF Relinked, Kind
    <2> QED
      BY <2>1, <2>2, <2>3, <2>4
  \* The counts.
  <1>11. ASSUME NEW j \in V, j \in Inos, Kind(t, j) # "none", j \in {sd, dd} => Kind(t, j) = "dir"
         PROVE  Off(t3, j) = Off(t, j)
    <2> DEFINE p == j = sd /\ x.kind = "dir"
               q == j = dd /\ x.kind = "dir"
    <2>1. Off(t1, j) = Off(t, j) + One(p) - One(q)
      BY <1>0, <1>3, <1>11, MovesOff
    <2>2. Off(t, j) \in Int
      BY <1>0, <1>11, OffType
    <2>3. CASE across
      <3>1. Off(t2, j) = Off(t1, j) + (IF j = sd THEN -1 ELSE 0)
        BY <2>3, <1>3, <1>4, <1>10, <1>11, LinksOff
      <3>2. Off(t3, j) = Off(t2, j) + (IF j = dd THEN 1 ELSE 0)
        <4> HIDE DEF across
        <4> QED
          BY <2>3, <1>4, <1>5, <1>10, <1>11, LinksOff
      <3>3. x.kind = "dir" /\ sd # dd
        BY <2>3, <1>1
      <3> QED
        BY <2>1, <2>2, <3>1, <3>2, <3>3 DEF One
    <2>4. CASE ~across
      <3>1. One(p) = One(q)
        BY <2>4, <1>1 DEF One
      <3>2. One(p) \in Int
        BY DEF One
      <3> QED
        BY <2>1, <2>2, <2>4, <3>1, <3>2, <1>e
    <2> QED
      BY <2>3, <2>4
  <1>12. ASSUME NEW j \in {sd, dd, c}, j \notin T PROVE Sound(t3, j)
    <2>1. /\ j \in Inos /\ Kind(t, j) # "none" /\ Sound(t, j)
          /\ j \in {sd, dd} => Kind(t, j) = "dir"
      BY <1>0, <1>1, <1>12 DEF Good
    <2>2. LiveIn(t.edges, j)
      <3>1. LiveIn(t.edges, dd) /\ LiveIn(t.edges, sd)
        BY <1>0 DEF Movable, Shape, FullLive
      <3>2. LiveIn(t.edges, c)
        BY <1>0 DEF LiveIn, Places
      <3> QED
        BY <3>1, <3>2
    <2>3. Off(t3, j) = Off(t, j) /\ Kind(t3, j) = Kind(t, j)
      BY <2>1, <1>10, <1>11
    <2> QED
      BY <2>1, <2>2, <2>3, SoundAgain
  <1>13. Good(t3, T)
    BY <1>9, <1>12, GoodAgain
  <1>14. Good(t, U) /\ Good(t1, U) /\ Good(t2, U) /\ Good(t3, U)
    <2> HIDE DEF V
    <2>1. V \subseteq U
      BY DEF V, Within
    <2> QED
      BY <2>1, <1>0, <1>6, <1>8, <1>9, GoodMore
  <1>15. r[1] = sd /\ r[2] = sn /\ r[3] = dd /\ r[4] = dn /\ r[5] = c
    OBVIOUS
  <1> HIDE DEF across, a, b, e
  <1>16. Fine(t, U, r) /\ Fine(t1, U, r) /\ Fine(t2, U, r) /\ Fine(t3, U, r)
    BY <1>0, <1>10, <1>14, <1>15 DEF Fine, Kept
  <1> DEFINE s1 == <<a>>
             s2 == IF across THEN <<b, e>> ELSE <<>>
  <1>17. Leads(t, s1, t1, U, r) /\ Script(s1, 1)
    BY <1>2, <1>16, LeadsOne, ScriptOne
  <1>18. Leads(t1, s2, t3, U, r) /\ Script(s2, 2)
    <2>1. CASE across
      BY <2>1, <1>2, <1>16, LeadsTwo, TwoSteps
    <2>2. CASE ~across
      BY <2>2, <1>e, <1>16, LeadsNone, ScriptNone DEF Script
    <2> QED
      BY <2>1, <2>2
  <1>19. s1 = Move(sd, sn, dd, dn) /\ s2 = Recount(c, sd, dd)
    BY DEF s1, s2, a, b, e, across, Move, Recount
  <1> QED
    BY <1>13, <1>17, <1>18, <1>19

LEMMA RenameLeads ==
  ASSUME NEW T, Good(db, T), NEW sd \in Inos, NEW sn \in Names, NEW dd \in Inos, NEW dn \in Names,
         MayRename(sd, sn, dd, dn), NEW c, c = Child(sd, sn), Exists(db, c),
         NEW over, over = Child(dd, dn), Taken(dd, dn) => Exists(db, over) /\ ~NotEmpty(over),
         NEW U, Within(T, {sd, dd, c} \cup ({over} \cap Inos), U),
         NEW p, p = (IF Taken(dd, dn) THEN Drop(dd, dn, over) ELSE <<>>)
                    \o Move(sd, sn, dd, dn) \o Recount(c, sd, dd),
         NEW r, r = <<sd, sn, dd, dn, c>>
  PROVE  /\ c \in Inos /\ Script(p, 7)
         /\ \E u : Leads(db, p, u, U, r) /\ Good(u, T)
  <1> DEFINE first == IF Taken(dd, dn) THEN Drop(dd, dn, over) ELSE <<>>
             x == db.edges[<<sd, sn>>]
  <1>0. Shape(db) /\ db \in Tables /\ <<sd, sn>> \in Places /\ <<dd, dn>> \in Places
    BY DEF Good, Shape, Places
  <1>1. /\ x # NoEdge /\ x.child = c /\ c \in Inos
        /\ InDir(sd) /\ InDir(dd) /\ (IsDir(c) => c \notin Above(dd))
        /\ Taken(dd, dn) => over # c /\ over \notin Above(sd)
    <2>1. Taken(sd, sn) /\ x # NoEdge /\ x.child = c
      BY DEF MayRename, Taken, Child, Entry
    <2>2. c \in Inos
      BY <2>1, <1>0, ChildType
    <2> QED
      BY <2>1, <2>2 DEF MayRename
  <1>2. /\ Kind(db, dd) = "dir" /\ LiveIn(db.edges, dd) /\ Kind(db, sd) = "dir" /\ dd <= db.next
    <2>1. c <= db.next
      BY <1>0, <1>1 DEF Shape, EntriesFit, Fits
    <2> QED
      BY <2>1, <1>0, <1>1, InDirFacts
  <1>3. Kind(db, c) # "none" /\ (IsDir(c) <=> Kind(db, c) = "dir") /\ c # dd
    <2>1. Kind(db, c) # "none" /\ (IsDir(c) <=> Kind(db, c) = "dir")
      BY <1>0, <1>1, KindType DEF Exists, IsDir, Kind
    <2> QED
      BY <2>1, <1>1, <1>2, InAbove
  <1>4. /\ r # <<>> /\ r[1] = sd /\ r[2] = sn /\ r[5] = c
    OBVIOUS
  <1>5. Script(Drop(dd, dn, over), 4)
    <2> DEFINE s1 == <<<<"unedge", dd, dn>>, <<"links", over, -1>>, <<"reap", over>>>>
               s2 == When(IsDir(over), <<"links", dd, -1>>)
    <2>1. Script(s1, 3) /\ Script(s2, 1)
      BY ThreeSteps, ScriptWhen
    <2> HIDE DEF s1, s2
    <2>2. Script(s1 \o s2, 3 + 1)
      BY <2>1, ScriptThen
    <2>3. Script(s1 \o s2, 4)
      BY <2>2
    <2> QED
      BY <2>3 DEF s1, s2, Drop
  <1>6. Script(first, 4)
    BY <1>5, ScriptNone DEF Script
  <1>7. \E t : /\ Leads(db, first, t, U, r) /\ Good(t, T) /\ t.next = db.next
               /\ t.edges = [db.edges EXCEPT ![<<dd, dn>>] = NoEdge]
               /\ Kind(t, dd) = "dir" /\ Kind(t, sd) = "dir" /\ Kind(t, c) = Kind(db, c)
               /\ \A e \in Places : db.edges[e].child = dd => t.edges[e] = db.edges[e]
    <2>1. CASE Taken(dd, dn)
      <3>1. <<sd, sn>> # <<dd, dn>> /\ over \in Inos /\ Exists(db, over) /\ ~NotEmpty(over)
        <4>1. over \in Inos
          BY <2>1, <1>0, ChildType
        <4> QED
          BY <4>1, <2>1, <1>1 DEF Child, Entry
      <3>2. Within(T, {dd, over}, U) /\ InDir(dd) /\ Elsewhere(r, dd, dn)
        <4>1. Within(T, {dd, over}, U)
          BY <3>1 DEF Within
        <4>2. Elsewhere(r, dd, dn)
          BY <3>1, <1>0, <1>1, <1>4 DEF Elsewhere
        <4> QED
          BY <4>1, <4>2, <1>1
      <3>3. /\ over # dd
            /\ \E u : /\ Leads(db, Drop(dd, dn, over), u, U, r) /\ Good(u, T)
                      /\ Without(db, u, dd, dn, over)
        BY <2>1, <3>1, <3>2, DropLeads
      <3>4. over # sd /\ over # c
        BY <2>1, <1>1, InAbove
      <3>5. \A e \in Places : db.edges[e].child = dd => e # <<dd, dn>>
        BY <3>3 DEF Child, Entry
      <3>6. PICK u : /\ Leads(db, Drop(dd, dn, over), u, U, r) /\ Good(u, T)
                     /\ u.next = db.next /\ u.edges = [db.edges EXCEPT ![<<dd, dn>>] = NoEdge]
                     /\ \A j \in Inos \ {over} : Kind(u, j) = Kind(db, j)
        BY <3>3 DEF Without
      <3>7. Kind(u, dd) = "dir" /\ Kind(u, sd) = "dir" /\ Kind(u, c) = Kind(db, c)
        BY <3>3, <3>4, <3>6, <1>1, <1>2
      <3>8. \A e \in Places : db.edges[e].child = dd => u.edges[e] = db.edges[e]
        BY <3>5, <3>6, <1>0, EdgesType
      <3> QED
        BY <2>1, <3>6, <3>7, <3>8
    <2>2. CASE ~Taken(dd, dn)
      <3>1. db.edges[<<dd, dn>>] = NoEdge
        BY <2>2 DEF Taken, Entry
      <3>2. db.edges = [db.edges EXCEPT ![<<dd, dn>>] = NoEdge]
        BY <3>1, <1>0, EdgesType
      <3>3. Fine(db, U, r)
        <4>1. Good(db, U)
          BY GoodMore DEF Within
        <4> QED
          BY <4>1, <1>1, <1>4 DEF Fine, Kept
      <3>4. Leads(db, <<>>, db, U, r)
        BY <3>3, LeadsNone
      <3> QED
        BY <2>2, <3>2, <3>4, <1>2
    <2> QED
      BY <2>1, <2>2
  <1> HIDE DEF first
  <1>8. PICK t : /\ Leads(db, first, t, U, r) /\ Good(t, T) /\ t.next = db.next
               /\ t.edges = [db.edges EXCEPT ![<<dd, dn>>] = NoEdge]
               /\ Kind(t, dd) = "dir" /\ Kind(t, sd) = "dir" /\ Kind(t, c) = Kind(db, c)
               /\ \A e \in Places : db.edges[e].child = dd => t.edges[e] = db.edges[e]
    BY <1>7
  <1>9. Movable(t, sd, sn, dd, dn, c)
    <2>1. <<sd, sn>> # <<dd, dn>>
      <3>1. CASE Taken(dd, dn)
        BY <3>1, <1>1 DEF Child, Entry
      <3>2. CASE ~Taken(dd, dn)
        BY <3>2, <1>1 DEF Taken, Entry
      <3> QED
        BY <3>1, <3>2
    <2>2. t.edges[<<sd, sn>>] = x /\ t.edges[<<dd, dn>>] = NoEdge
      BY <2>1, <1>0, <1>8, EdgesType
    <2>3. LiveIn(t.edges, dd)
      BY <1>2, <1>8 DEF LiveIn
    <2> QED
      BY <2>2, <2>3, <1>1, <1>2, <1>3, <1>8 DEF Movable
  <1> DEFINE m == Move(sd, sn, dd, dn)
             q == Recount(c, sd, dd)
  <1>10. /\ Script(m, 1) /\ Script(q, 2)
         /\ \E v, u : Leads(t, m, v, U, r) /\ Leads(v, q, u, U, r) /\ Good(u, T)
    <2>1. /\ Good(t, T) /\ c \in Inos /\ Kind(t, c) # "none" /\ Kind(t, sd) = "dir"
          /\ IsDir(c) <=> Kind(t, c) = "dir"
          /\ Within(T, {sd, dd, c}, U)
      BY <1>1, <1>3, <1>8 DEF Within
    <2> QED
      BY <2>1, <1>9, MoveLeads
  <1>11. p = (first \o m) \o q
    BY DEF first
  <1> HIDE DEF m, q
  <1>12. PICK v, u : Leads(t, m, v, U, r) /\ Leads(v, q, u, U, r) /\ Good(u, T)
    BY <1>10
  <1>13. Leads(db, first \o m, v, U, r) /\ Script(first \o m, 4 + 1)
    BY <1>6, <1>8, <1>10, <1>12, LeadsThen, ScriptThen
  <1>14. Leads(db, (first \o m) \o q, u, U, r) /\ Script((first \o m) \o q, (4 + 1) + 2)
    BY <1>10, <1>12, <1>13, LeadsThen, ScriptThen
  <1>15. Script((first \o m) \o q, 7)
    BY <1>14
  <1>16. Script(p, 7) /\ Leads(db, p, u, U, r)
    BY <1>11, <1>14, <1>15
  <1> QED
    BY <1>1, <1>12, <1>16

LEMMA MountLeads ==
  ASSUME NEW T, Good(db, T), ~Exists(db, Root)
  PROVE  \E u : /\ Leads(db, <<<<"node", Root, "dir">>, <<"counter", 2>>>>, u, T \cup {Root}, <<>>)
                /\ Good(u, T)
  <1> DEFINE U == T \cup {Root}
             t1 == InsertNode(db, Root, "dir")
             t2 == [t1 EXCEPT !.next = 2]
             a == <<"node", Root, "dir">>
             b == <<"counter", 2>>
  <1>0. Shape(db) /\ db \in Tables /\ Root \in Inos /\ "dir" \in Kinds /\ Good(db, U)
    BY GoodMore, InosAssumption DEF Good, Shape, Kinds
  <1>1. (\A e \in Places : db.edges[e] = NoEdge) /\ db.next = 0
    <2>1. Kind(db, Root) = "none"
      BY <1>0, KindType DEF Exists
    <2> QED
      BY <2>1, <1>0 DEF Shape, RootFirst
  <1>2. Unnamed(db, Root)
    BY <1>0, <1>1, InosAssumption DEF Unnamed, Places, NoEdge
  <1>3. New(db, t1, Root, "dir")
    BY <1>0, InsertNodeNew
  <1>4. Apply(db, a) = t1 /\ Apply(t1, b) = t2
    BY Applied
  <1> HIDE DEF t1
  <1>5. Root \in U
    OBVIOUS
  <1>6. Good(t1, U)
    <2> HIDE DEF U
    <2> QED
      BY <1>0, <1>2, <1>3, <1>5, GoodNew
  <1>7. Kind(t1, Root) = "dir" /\ t1.nodes[Root].nlink = 2 /\ t1.next = 0 /\ t1.edges = db.edges
    BY <1>1, <1>3 DEF New
  <1>8. Good(t2, U) /\ t2.nodes = t1.nodes /\ t2.edges = t1.edges
    <2>1. 2 \in Nat /\ 2 >= t1.next /\ Kind(t1, Root) # "none"
      BY <1>7
    <2> HIDE DEF U
    <2> QED
      BY <2>1, <1>6, GoodNext
  <1> HIDE DEF t2
  <1>9. Good(t2, T)
    <2>1. SubdirsIn(t2.edges, Root) = {}
      BY <1>0, <1>1, <1>7, <1>8 DEF SubdirsIn, Places, NoEdge
    <2>2. Due(t2, Root) = 2
      BY <2>1, <1>7, <1>8, FS_EmptySet DEF Due, Kind
    <2>3. Sound(t2, Root)
      BY <2>2, <1>7, <1>8 DEF Sound, Off, Kind
    <2> QED
      BY <2>3, <1>8, GoodAgain
  <1>10. Fine(db, U, <<>>) /\ Fine(t1, U, <<>>) /\ Fine(t2, U, <<>>)
    BY <1>0, <1>6, <1>8, FinePlain
  <1> HIDE DEF U, a, b
  <1>11. Leads(db, <<a, b>>, t2, U, <<>>)
    BY <1>4, <1>10, LeadsTwo
  <1> QED
    BY <1>9, <1>11 DEF U, a, b

-----------------------------------------------------------------------------
(* Forget, the statements of which fail one by one.                        *)

LEMMA DeleteNodeLost ==
  ASSUME NEW t \in Tables, NEW i \in Inos
  PROVE  Lost(t, DeleteNode(t, i), i)
  BY NodeTypes DEF Lost, DeleteNode, Tables, Kind, NoNode

\* An inode whose count says that it has no entry leads nowhere and has none.
LEMMA LinklessGone ==
  ASSUME NEW t, NEW T, Good(t, T), NEW i \in Inos \ {Root}, Linkless(t, i)
  PROVE  Good(DeleteNode(t, i), T)
  <1> DEFINE u == DeleteNode(t, i)
  <1>0. Shape(t) /\ t \in Tables
    BY DEF Good, Shape
  <1>1. Lost(t, u, i)
    BY <1>0, DeleteNodeLost
  <1> HIDE DEF u
  <1>2. Shape(u)
    BY <1>0, <1>1, LostShape
  <1>3. \A j \in Inos \ {i} : Alike(t, u, j)
    BY <1>1 DEF Alike, Lost, Kind
  <1>4. i \notin T => Sound(u, i)
    <2> SUFFICES ASSUME i \notin T PROVE Sound(u, i)
      OBVIOUS
    <2>1. Sound(t, i)
      BY DEF Good
    <2>2. Kind(t, i) # "none" /\ t.nodes[i].nlink \in Int /\ t.nodes[i].nlink <= 0 /\ Due(t, i) \in Nat
      BY <1>0, KindType, OffType DEF Linkless, Exists
    <2>3. CASE Kind(t, i) = "dir"
      <3>1. ~LiveIn(t.edges, i)
        <4> SUFFICES ASSUME LiveIn(t.edges, i) PROVE FALSE
          OBVIOUS
        <4>1. t.nodes[i].nlink - Due(t, i) = 0
          BY <2>1, <2>2 DEF Sound, Off
        <4>2. Cardinality(SubdirsIn(t.edges, i)) \in Nat
          BY CountTypes
        <4> QED
          BY <2>2, <2>3, <4>1, <4>2 DEF Due
      <3>2. Bare(t, i)
        BY <3>1, <1>0 DEF Bare, Shape, FullLive
      <3>3. Unnamed(u, i)
        BY <3>1, <3>2, <1>1 DEF Unnamed, Lost, LiveIn, Bare
      <3> QED
        BY <3>3, <1>1 DEF Sound, Lost
    <2>4. CASE Kind(t, i) # "dir"
      <3>1. Due(t, i) = 0
        BY <2>1, <2>2, <2>4 DEF Sound, Off
      <3>2. EntriesIn(t.edges, i) = {}
        BY <2>4, <3>1, CountTypes, FS_EmptySet DEF Due
      <3>3. \A n \in Names : t.edges[<<i, n>>] = NoEdge
        BY <1>0, <2>2, <2>4 DEF Shape, EntriesFit, Fits
      <3>4. Unnamed(u, i)
        BY <3>2, <3>3, <1>1 DEF Unnamed, Lost, EntriesIn
      <3> QED
        BY <3>4, <1>1 DEF Sound, Lost
    <2> QED
      BY <2>3, <2>4
  <1>5. Good(u, T)
    BY <1>2, <1>3, <1>4, AlikeSound DEF Good
  <1> QED
    BY <1>5 DEF u

\* What forget has still to run for i.
Forgets(i) ==
    {<<>>, <<<<"denode", i>>>>, <<<<"desym", i>>, <<"denode", i>>>>,
     <<<<"dechunk", i>>, <<"desym", i>>, <<"denode", i>>>>}

\* The tables t are good, and without the node of i, if it is to go, they are
\* good too.
Forgettable(t, T, i, p) == Good(t, T) /\ (p # <<>> => Good(DeleteNode(t, i), T))

LEMMA RowsGone ==
  ASSUME NEW t, NEW T, Good(t, T), NEW i \in Inos, Good(DeleteNode(t, i), T),
         NEW u, u \in {[t EXCEPT !.chunks = @ \ {i}], [t EXCEPT !.symlinks = @ \ {i}]}
  PROVE  Good(u, T) /\ Good(DeleteNode(u, i), T)
  <1>1. t \in Tables /\ DeleteNode(t, i) \in Tables
    BY DEF Good, Shape
  <1>2. u \in Tables /\ u.nodes = t.nodes /\ u.edges = t.edges /\ u.next = t.next
    BY <1>1 DEF Tables
  <1>3. Good(u, T)
    BY <1>2, GoodSame
  <1>4. Lost(u, DeleteNode(u, i), i)
    BY <1>2, DeleteNodeLost
  <1>5. /\ DeleteNode(u, i) \in Tables /\ DeleteNode(u, i).nodes = DeleteNode(t, i).nodes
        /\ DeleteNode(u, i).edges = DeleteNode(t, i).edges
        /\ DeleteNode(u, i).next = DeleteNode(t, i).next
    <2>1. DeleteNode(u, i) \in Tables
      BY <1>4 DEF Lost
    <2>2. /\ DeleteNode(u, i).nodes = [u.nodes EXCEPT ![i] = NoNode]
          /\ DeleteNode(u, i).edges = u.edges /\ DeleteNode(u, i).next = u.next
      BY <1>2 DEF DeleteNode, Tables
    <2>3. /\ DeleteNode(t, i).nodes = [t.nodes EXCEPT ![i] = NoNode]
          /\ DeleteNode(t, i).edges = t.edges /\ DeleteNode(t, i).next = t.next
      BY <1>1 DEF DeleteNode, Tables
    <2> QED
      BY <2>1, <2>2, <2>3, <1>2
  <1>6. Good(DeleteNode(u, i), T)
    <2> DEFINE v == DeleteNode(u, i)
               w == DeleteNode(t, i)
    <2>1. v \in Tables /\ v.nodes = w.nodes /\ v.edges = w.edges /\ v.next = w.next /\ Good(w, T)
      BY <1>5
    <2> HIDE DEF v, w
    <2>2. Good(v, T)
      BY <2>1, GoodSame
    <2> QED
      BY <2>2 DEF v
  <1> QED
    BY <1>3, <1>6

LEMMA ForgetLeads ==
  ASSUME NEW t, NEW T, NEW i \in Inos \ {Root}, NEW p \in Forgets(i), Forgettable(t, T, i, p),
         NEW U, T \subseteq U
  PROVE  /\ Script(p, 3)
         /\ \E u : Leads(t, p, u, U, <<>>) /\ Good(u, T)
  <1> DEFINE a == <<"dechunk", i>>
             b == <<"desym", i>>
             e == <<"denode", i>>
             t1 == [t EXCEPT !.chunks = @ \ {i}]
             t2 == [t1 EXCEPT !.symlinks = @ \ {i}]
             u1 == [t EXCEPT !.symlinks = @ \ {i}]
  <1>1. Good(t, T) /\ (p # <<>> => Good(DeleteNode(t, i), T))
    BY DEF Forgettable
  <1>2. p # <<>> => /\ Good(t1, T) /\ Good(DeleteNode(t1, i), T)
                    /\ Good(u1, T) /\ Good(DeleteNode(u1, i), T)
    <2>1. p # <<>> => Good(t1, T) /\ Good(DeleteNode(t1, i), T)
      BY <1>1, RowsGone
    <2>2. p # <<>> => Good(u1, T) /\ Good(DeleteNode(u1, i), T)
      BY <1>1, RowsGone
    <2> QED
      BY <2>1, <2>2
  <1>3. /\ Apply(t, a) = t1 /\ Apply(t1, b) = t2 /\ Apply(t, b) = u1
        /\ Apply(t2, e) = DeleteNode(t2, i) /\ Apply(u1, e) = DeleteNode(u1, i)
        /\ Apply(t, e) = DeleteNode(t, i)
    BY Applied
  <1> HIDE DEF t1, u1
  <1>4. p # <<>> => Good(t2, T) /\ Good(DeleteNode(t2, i), T)
    BY <1>2, RowsGone
  <1> HIDE DEF t2, a, b, e
  <1>5. p \in {<<>>, <<e>>, <<b, e>>, <<a, b, e>>}
    BY DEF Forgets, a, b, e
  <1>6. Fine(t, U, <<>>)
    BY <1>1, GoodMore, FinePlain
  <1>7. p # <<>> => /\ Fine(t1, U, <<>>) /\ Fine(t2, U, <<>>) /\ Fine(u1, U, <<>>)
    BY <1>2, <1>4, GoodMore, FinePlain
  <1>8. p # <<>> => /\ Fine(DeleteNode(t, i), U, <<>>) /\ Fine(DeleteNode(u1, i), U, <<>>)
                    /\ Fine(DeleteNode(t2, i), U, <<>>)
    BY <1>1, <1>2, <1>4, GoodMore, FinePlain
  <1>9. CASE p = <<>>
    BY <1>9, <1>1, <1>6, LeadsNone, ScriptNone DEF Script
  <1>10. CASE p # <<>> /\ p = <<e>>
    <2>1. Leads(t, <<e>>, DeleteNode(t, i), U, <<>>) /\ Script(<<e>>, 1)
      BY <1>3, <1>6, <1>8, <1>10, LeadsOne, ScriptOne
    <2> QED
      BY <2>1, <1>1, <1>10 DEF Script
  <1>11. CASE p # <<>> /\ p = <<b, e>>
    <2>1. Leads(t, <<b, e>>, DeleteNode(u1, i), U, <<>>) /\ Script(<<b, e>>, 2)
      BY <1>3, <1>6, <1>7, <1>8, <1>11, LeadsTwo, TwoSteps
    <2> QED
      BY <2>1, <1>2, <1>11 DEF Script
  <1>12. CASE p # <<>> /\ p = <<a, b, e>>
    <2>1. Leads(t, <<a, b, e>>, DeleteNode(t2, i), U, <<>>) /\ Script(<<a, b, e>>, 3)
      BY <1>3, <1>6, <1>7, <1>8, <1>12, LeadsThree, ThreeSteps
    <2> QED
      BY <2>1, <1>4, <1>12
  <1> QED
    BY <1>5, <1>9, <1>10, <1>11, <1>12

\* What is left after a statement of forget, run or failed.
LEMMA ForgetNext ==
  ASSUME NEW t, NEW T, NEW i \in Inos \ {Root}, NEW p \in Forgets(i), p # <<>>,
         Forgettable(t, T, i, p)
  PROVE  /\ Tail(p) \in Forgets(i)
         /\ Forgettable(t, T, i, Tail(p))
         /\ Tail(p) # <<>> => Forgettable(Apply(t, Head(p)), T, i, Tail(p))
  <1> DEFINE a == <<"dechunk", i>>
             b == <<"desym", i>>
             e == <<"denode", i>>
             t1 == [t EXCEPT !.chunks = @ \ {i}]
             u1 == [t EXCEPT !.symlinks = @ \ {i}]
  <1>1. Good(t, T) /\ Good(DeleteNode(t, i), T)
    BY DEF Forgettable
  <1>2. Good(t1, T) /\ Good(DeleteNode(t1, i), T)
    BY <1>1, RowsGone
  <1>3. Good(u1, T) /\ Good(DeleteNode(u1, i), T)
    BY <1>1, RowsGone
  <1>4. Apply(t, a) = t1 /\ Apply(t, b) = u1
    BY Applied
  <1> HIDE DEF t1, u1, a, b, e
  <1>5. p \in {<<e>>, <<b, e>>, <<a, b, e>>} /\ Forgets(i) = {<<>>, <<e>>, <<b, e>>, <<a, b, e>>}
    BY DEF Forgets, a, b, e
  <1>6. CASE p = <<e>>
    <2>1. Tail(p) = <<>>
      BY <1>6
    <2> QED
      BY <2>1, <1>1, <1>5 DEF Forgettable
  <1>7. CASE p = <<b, e>>
    <2>1. Tail(p) = <<e>> /\ Head(p) = b
      BY <1>7
    <2> QED
      BY <2>1, <1>1, <1>3, <1>4, <1>5 DEF Forgettable
  <1>8. CASE p = <<a, b, e>>
    <2>1. Tail(p) = <<b, e>> /\ Head(p) = a
      BY <1>8
    <2> QED
      BY <2>1, <1>1, <1>2, <1>4, <1>5 DEF Forgettable
  <1> QED
    BY <1>5, <1>6, <1>7, <1>8

-----------------------------------------------------------------------------
(* The invariant.                                                          *)

\* The statements still to run lead to tables that are good again.
Running == \E u : Leads(db, pending, u, torn \cup call.on, renamed) /\ Good(u, torn)

\* No statement has run.
Started == Len(pending) = call.len => Good(db, torn)

Idle == ~mounted => pending = <<>>

Forgetting ==
    call.forget => /\ call.gives = {} /\ renamed = <<>>
                   /\ \E i \in Inos \ {Root} :
                        /\ call.on = {i} /\ pending \in Forgets(i)
                        /\ pending # <<>> => Forgettable(db, torn, i, pending)

Types ==
    /\ {held, merging, replaced, revived} \subseteq SUBSET Inos
    /\ mounted \in BOOLEAN /\ torn \subseteq Inos /\ cuts \in 0..MaxCuts
    /\ call \in [on : SUBSET Inos, gives : SUBSET Inos, len : 0..7, forget : BOOLEAN]
    /\ renamed = <<>> \/ renamed \in Inos \X Names \X Inos \X Names \X Inos
    /\ Script(pending, call.len)

SqliteInv == Types /\ Running /\ Started /\ Idle /\ Forgetting

\* The tables at any time, and between operations.
LEMMA RunningFine ==
  ASSUME SqliteInv
  PROVE  /\ db \in Tables /\ Shape(db) /\ Fine(db, torn \cup call.on, renamed)
         /\ pending = <<>> => Good(db, torn)
  <1>1. PICK u : Leads(db, pending, u, torn \cup call.on, renamed) /\ Good(u, torn)
    BY DEF SqliteInv, Running
  <1>2. Fine(db, torn \cup call.on, renamed) /\ (pending = <<>> => u = db)
    BY <1>1, LeadsFine DEF SqliteInv, Types
  <1> QED
    BY <1>1, <1>2 DEF Fine, Good, Shape

LEMMA InitShape == Good(Empty, {})
  <1>1. /\ \A i \in Inos : Empty.nodes[i] = NoNode
        /\ \A e \in Places : Empty.edges[e] = NoEdge
        /\ Empty.next = 0
    BY DEF Empty, Places
  <1>2. Empty \in Tables
    BY NodeTypes DEF Empty, Tables
  <1> HIDE DEF Empty
  <1>3. \A d \in Inos, n \in Names : <<d, n>> \in Places
    BY DEF Places
  <1>4. EntriesFit(Empty) /\ OneParent(Empty) /\ FullLive(Empty)
    BY <1>1, <1>3 DEF EntriesFit, OneParent, FullLive
  <1>5. \A i \in Inos : Kind(Empty, i) = "none"
    BY <1>1 DEF Kind, NoNode
  <1>6. Numbered(Empty) /\ RootFirst(Empty)
    BY <1>1, <1>5, InosAssumption DEF Numbered, RootFirst
  <1>7. \A j \in Inos : Unnamed(Empty, j)
    BY <1>1, <1>3, InosAssumption DEF Unnamed, NoEdge
  <1>8. \A j \in Inos : Sound(Empty, j)
    BY <1>5, <1>7 DEF Sound
  <1> QED
    BY <1>2, <1>4, <1>6, <1>8 DEF Good, Shape

LEMMA InitInv == SqliteInit => SqliteInv
  <1> SUFFICES ASSUME SqliteInit PROVE SqliteInv
    OBVIOUS
  <1>1. /\ db = Empty /\ held = {Root} /\ merging = {} /\ replaced = {} /\ revived = {}
        /\ mounted = FALSE /\ pending = <<>> /\ renamed = <<>> /\ cuts = 0 /\ torn = {}
        /\ call = NoCall
    BY DEF SqliteInit
  <1>2. call.on = {} /\ call.gives = {} /\ call.len = 0 /\ call.forget = FALSE
        /\ call \in [on : SUBSET Inos, gives : SUBSET Inos, len : 0..7, forget : BOOLEAN]
    BY <1>1 DEF NoCall
  <1>3. Good(db, torn)
    BY <1>1, InitShape
  <1>4. Running
    <2>1. Fine(db, torn \cup call.on, <<>>)
      BY <1>3, GoodMore, FinePlain
    <2>2. Leads(db, <<>>, db, torn \cup call.on, <<>>)
      BY <2>1, LeadsNone
    <2> QED
      BY <2>2, <1>1, <1>3 DEF Running
  <1>5. Types
    <2>1. Script(pending, call.len)
      BY <1>1, <1>2, ScriptNone
    <2>2. {held, merging, replaced, revived} \subseteq SUBSET Inos /\ torn \subseteq Inos
      BY <1>1, InosAssumption
    <2>3. cuts \in 0..MaxCuts
      BY <1>1, MaxCutsAssumption
    <2>4. mounted \in BOOLEAN
      BY <1>1
    <2> QED
      BY <2>1, <2>2, <2>3, <2>4, <1>1, <1>2 DEF Types
  <1> QED
    BY <1>1, <1>2, <1>3, <1>4, <1>5 DEF SqliteInv, Started, Idle, Forgetting

-----------------------------------------------------------------------------
(* The invariant step by step.                                             *)

\* An operation other than forget takes the mutex.
LEMMA RunInv ==
  ASSUME SqliteInv, pending = <<>>, NEW s, NEW on \in SUBSET Inos, NEW gives \in SUBSET Inos,
         Run(s, on, gives), Script(s, 7), mounted' = TRUE, UNCHANGED <<tableVars, cuts, torn>>,
         renamed' = <<>> \/ renamed' \in Inos \X Names \X Inos \X Names \X Inos,
         \E u : Leads(db, s, u, torn \cup on, renamed') /\ Good(u, torn)
  PROVE  SqliteInv'
  <1>1. /\ pending' = s /\ call'.on = on /\ call'.gives = gives /\ call'.len = Len(s)
        /\ call'.forget = FALSE
        /\ call' = [on |-> on, gives |-> gives, len |-> Len(s), forget |-> FALSE]
    BY DEF Run
  <1>2. /\ db' = db /\ held' = held /\ merging' = merging /\ replaced' = replaced
        /\ revived' = revived /\ cuts' = cuts /\ torn' = torn
    BY DEF tableVars
  <1>3. Good(db, torn)
    BY RunningFine
  <1>4. Len(s) \in 0..7 /\ Script(s, Len(s))
    <2>1. (\E S : s \in Seq(S)) /\ Len(s) <= 7
      BY DEF Script
    <2>2. Len(s) \in Nat
      BY <2>1
    <2> DEFINE m == Len(s)
    <2>3. m \in Nat /\ m <= 7
      BY <2>1, <2>2
    <2> HIDE DEF m
    <2>4. m \in 0..7 /\ m <= m
      BY <2>3
    <2> QED
      BY <2>1, <2>4 DEF Script, m
  <1>5. Types'
    <2>1. call' \in [on : SUBSET Inos, gives : SUBSET Inos, len : 0..7, forget : BOOLEAN]
      BY <1>1, <1>4
    <2>2. {held, merging, replaced, revived}' \subseteq SUBSET Inos /\ torn' \subseteq Inos
      BY <1>2 DEF SqliteInv, Types
    <2>3. cuts' \in 0..MaxCuts
      BY <1>2 DEF SqliteInv, Types
    <2>4. Script(pending', call'.len)
      BY <1>1, <1>4
    <2>5. mounted' \in BOOLEAN
      OBVIOUS
    <2> QED
      BY <2>1, <2>2, <2>3, <2>4, <2>5 DEF Types
  <1>6. Running'
    BY <1>1, <1>2 DEF Running
  <1> QED
    BY <1>1, <1>2, <1>3, <1>5, <1>6 DEF SqliteInv, Started, Idle, Forgetting

LEMMA MountInv ==
  ASSUME SqliteInv, Mount
  PROVE  SqliteInv'
  <1> DEFINE s == <<<<"node", Root, "dir">>, <<"counter", 2>>>>
  <1>1. /\ pending = <<>> /\ mounted' = TRUE /\ renamed' = <<>>
        /\ UNCHANGED <<tableVars, cuts, torn>>
        /\ {Root} \in SUBSET Inos /\ {} \in SUBSET Inos
    BY InosAssumption DEF Mount, SqliteInv, Idle
  <1>2. Good(db, torn)
    BY <1>1, RunningFine
  <1>3. CASE Exists(db, Root)
    <2>1. Run(<<>>, {Root}, {})
      BY <1>3 DEF Mount
    <2>2. Script(<<>>, 7)
      BY ScriptNone DEF Script
    <2>3. Fine(db, torn \cup {Root}, <<>>)
      BY <1>2, GoodMore, FinePlain
    <2>4. Leads(db, <<>>, db, torn \cup {Root}, renamed') /\ Good(db, torn)
      BY <1>1, <1>2, <2>3, LeadsNone
    <2> QED
      BY <2>1, <2>2, <2>4, <1>1, RunInv
  <1>4. CASE ~Exists(db, Root)
    <2>1. Run(s, {Root}, {})
      BY <1>4 DEF Mount
    <2>2. Script(s, 2)
      BY TwoSteps
    <2>3. \E u : Leads(db, s, u, torn \cup {Root}, <<>>) /\ Good(u, torn)
      BY <1>2, <1>4, MountLeads
    <2> HIDE DEF s
    <2>4. Script(s, 7)
      BY <2>2 DEF Script
    <2>5. \E u : Leads(db, s, u, torn \cup {Root}, renamed') /\ Good(u, torn)
      BY <2>3, <1>1
    <2> QED
      BY <2>1, <2>4, <2>5, <1>1, RunInv
  <1> QED
    BY <1>3, <1>4

LEMMA FreeFacts ==
  ASSUME SqliteInv, Free
  PROVE  pending = <<>> /\ mounted = TRUE /\ Good(db, torn)
  BY RunningFine DEF Free, SqliteInv, Types

LEMMA CreateInv ==
  ASSUME SqliteInv, NEW d \in Inos, NEW n \in Names, NEW k \in Kinds, Create(d, n, k)
  PROVE  SqliteInv'
  <1> DEFINE i == db.next + 1
             s1 == <<<<"counter", i>>, <<"node", i, k>>>>
             s2 == When(k = "symlink", <<"symlink", i>>)
             s3 == <<NewEntry(d, n, i, k)>>
             s4 == When(k = "dir", <<"links", d, 1>>)
             s == s1 \o s2 \o s3 \o s4
  <1>1. /\ Free /\ InDir(d) /\ ~Taken(d, n) /\ db.next > 0 /\ i \in Inos
        /\ Run(s, {d, i}, {i})
        /\ renamed' = <<>> /\ UNCHANGED <<tableVars, mounted, cuts, torn>>
    BY DEF Create
  <1>2. Script(s1, 2) /\ Script(s2, 1) /\ Script(s3, 1) /\ Script(s4, 1)
    BY TwoSteps, ScriptOne, ScriptWhen
  <1>3. Good(db, torn) /\ pending = <<>> /\ mounted' = TRUE
    BY <1>1, FreeFacts
  <1> HIDE DEF i
  <1>4. \E u : Leads(db, s, u, torn \cup {d, i}, <<>>) /\ Good(u, torn)
    BY <1>1, <1>3, CreateLeads DEF i
  <1> HIDE DEF s1, s2, s3, s4
  <1>5. Script(s1 \o s2, 2 + 1)
    BY <1>2, ScriptThen
  <1>6. Script((s1 \o s2) \o s3, (2 + 1) + 1)
    BY <1>2, <1>5, ScriptThen
  <1>7. Script(s, ((2 + 1) + 1) + 1)
    BY <1>2, <1>6, ScriptThen
  <1> HIDE DEF s
  <1>8. Script(s, 7)
    BY <1>7 DEF Script
  <1>9. \E u : Leads(db, s, u, torn \cup {d, i}, renamed') /\ Good(u, torn)
    BY <1>1, <1>4
  <1>10. {d, i} \in SUBSET Inos /\ {i} \in SUBSET Inos /\ UNCHANGED <<tableVars, cuts, torn>>
    BY <1>1
  <1> QED
    BY <1>1, <1>3, <1>8, <1>9, <1>10, RunInv

LEMMA LinkInv ==
  ASSUME SqliteInv, NEW d \in Inos, NEW n \in Names, NEW i \in Inos, Link(i, d, n)
  PROVE  SqliteInv'
  <1> DEFINE k == db.nodes[i].kind
             s == <<NewEntry(d, n, i, k), <<"links", i, 1>>>>
  <1>1. /\ Free /\ MayLink(i, d) /\ ~Taken(d, n) /\ Run(s, {d, i}, {})
        /\ renamed' = <<>> /\ UNCHANGED <<tableVars, mounted, cuts, torn>>
    BY DEF Link
  <1>2. Good(db, torn) /\ pending = <<>> /\ mounted' = TRUE
    BY <1>1, FreeFacts
  <1>3. Script(s, 2)
    BY TwoSteps
  <1>4. \E u : Leads(db, s, u, torn \cup {d, i}, <<>>) /\ Good(u, torn)
    BY <1>1, <1>2, LinkLeads
  <1> HIDE DEF s
  <1>5. Script(s, 7)
    BY <1>3 DEF Script
  <1>6. \E u : Leads(db, s, u, torn \cup {d, i}, renamed') /\ Good(u, torn)
    BY <1>1, <1>4
  <1>7. {d, i} \in SUBSET Inos /\ {} \in SUBSET Inos /\ UNCHANGED <<tableVars, cuts, torn>>
    BY <1>1
  <1> QED
    BY <1>1, <1>2, <1>5, <1>6, <1>7, RunInv

LEMMA UnlinkInv ==
  ASSUME SqliteInv, NEW d \in Inos, NEW n \in Names, Unlink(d, n)
  PROVE  SqliteInv'
  <1> DEFINE c == Child(d, n)
             s1 == <<<<"unedge", d, n>>, <<"links", c, -1>>>>
             s2 == When(IsDir(c), <<"links", d, -1>>)
             s == s1 \o s2
  <1>1. /\ Free /\ InDir(d) /\ Taken(d, n) /\ Exists(db, c) /\ ~NotEmpty(c)
        /\ Run(s, {d, c}, {})
        /\ renamed' = <<>> /\ UNCHANGED <<tableVars, mounted, cuts, torn>>
    BY DEF Unlink
  <1>2. Good(db, torn) /\ pending = <<>> /\ mounted' = TRUE
    BY <1>1, FreeFacts
  <1>3. Script(s1, 2) /\ Script(s2, 1)
    BY TwoSteps, ScriptWhen
  <1> HIDE DEF c
  <1>4. c \in Inos /\ \E u : Leads(db, s, u, torn \cup {d, c}, <<>>) /\ Good(u, torn)
    BY <1>1, <1>2, UnlinkLeads DEF c
  <1> HIDE DEF s1, s2
  <1>5. Script(s, 2 + 1)
    BY <1>3, ScriptThen
  <1> HIDE DEF s
  <1>6. Script(s, 7)
    BY <1>5 DEF Script
  <1>7. \E u : Leads(db, s, u, torn \cup {d, c}, renamed') /\ Good(u, torn)
    BY <1>1, <1>4
  <1>8. {d, c} \in SUBSET Inos /\ {} \in SUBSET Inos /\ UNCHANGED <<tableVars, cuts, torn>>
    BY <1>1, <1>4
  <1> QED
    BY <1>1, <1>2, <1>6, <1>7, <1>8, RunInv

LEMMA RenameInv ==
  ASSUME SqliteInv, NEW sd \in Inos, NEW sn \in Names, NEW dd \in Inos, NEW dn \in Names,
         Rename(sd, sn, dd, dn)
  PROVE  SqliteInv'
  <1> DEFINE c == Child(sd, sn)
             over == Child(dd, dn)
             p == (IF Taken(dd, dn) THEN Drop(dd, dn, over) ELSE <<>>)
                  \o Move(sd, sn, dd, dn) \o Recount(c, sd, dd)
             on == {sd, dd, c} \cup ({over} \cap Inos)
             r == <<sd, sn, dd, dn, c>>
             U == torn \cup on
  <1>1. /\ Free /\ MayRename(sd, sn, dd, dn) /\ Exists(db, c)
        /\ Taken(dd, dn) => Exists(db, over) /\ ~NotEmpty(over)
        /\ Run(p, on, {}) /\ renamed' = r
        /\ UNCHANGED <<tableVars, mounted, cuts, torn>>
    BY DEF Rename, Drop
  <1>2. Good(db, torn) /\ pending = <<>> /\ mounted' = TRUE
    BY <1>1, FreeFacts
  <1>3. Within(torn, on, U)
    BY DEF Within
  <1>a. c = Child(sd, sn) /\ over = Child(dd, dn) /\ on = {sd, dd, c} \cup ({over} \cap Inos)
    OBVIOUS
  <1> HIDE DEF U, p, r, c, over
  <1>4. /\ c \in Inos /\ Script(p, 7)
        /\ \E u : Leads(db, p, u, U, r) /\ Good(u, torn)
    <2>1. p = (IF Taken(dd, dn) THEN Drop(dd, dn, over) ELSE <<>>)
              \o Move(sd, sn, dd, dn) \o Recount(c, sd, dd)
      BY DEF p
    <2>2. r = <<sd, sn, dd, dn, c>>
      BY DEF r
    <2>3. Within(torn, {sd, dd, c} \cup ({over} \cap Inos), U)
      BY <1>3
    <2>4. /\ MayRename(sd, sn, dd, dn) /\ Exists(db, c)
          /\ Taken(dd, dn) => Exists(db, over) /\ ~NotEmpty(over)
      BY <1>1
    <2> HIDE DEF on
    <2> QED
      BY <2>1, <2>2, <2>3, <2>4, <1>2, <1>a, RenameLeads
  <1>5. on \in SUBSET Inos /\ {} \in SUBSET Inos /\ UNCHANGED <<tableVars, cuts, torn>>
    BY <1>1, <1>4
  <1>6. renamed' \in Inos \X Names \X Inos \X Names \X Inos
    BY <1>1, <1>4 DEF r
  <1> HIDE DEF on
  <1>7. \E u : Leads(db, p, u, torn \cup on, renamed') /\ Good(u, torn)
    BY <1>1, <1>4 DEF U
  <1> QED
    BY <1>1, <1>2, <1>4, <1>5, <1>6, <1>7, RunInv

LEMMA ForgetInv ==
  ASSUME SqliteInv, NEW i \in Inos, Forget(i)
  PROVE  SqliteInv'
  <1> DEFINE p == IF Linkless(db, i) THEN <<<<"dechunk", i>>, <<"desym", i>>, <<"denode", i>>>>
                  ELSE <<>>
             U == torn \cup {i}
  <1>1. /\ Free /\ i \in Inos \ {Root} /\ held' = held \ {i} /\ pending' = p
        /\ call' = [NoCall EXCEPT !.on = {i}, !.len = Len(p), !.forget = TRUE]
        /\ renamed' = <<>> /\ db' = db /\ merging' = merging /\ replaced' = replaced
        /\ revived' = revived /\ mounted' = mounted /\ cuts' = cuts /\ torn' = torn
    BY DEF Forget
  <1>2. /\ call'.on = {i} /\ call'.gives = {} /\ call'.len = Len(p) /\ call'.forget = TRUE
        /\ call' = [on |-> {i}, gives |-> {}, len |-> Len(p), forget |-> TRUE]
    BY <1>1 DEF NoCall
  <1>3. Good(db, torn) /\ mounted = TRUE
    BY <1>1, FreeFacts
  <1>4. p \in Forgets(i) /\ Forgettable(db, torn, i, p)
    <2>1. Linkless(db, i) => Good(DeleteNode(db, i), torn)
      BY <1>1, <1>3, LinklessGone
    <2> QED
      BY <2>1, <1>3 DEF Forgets, Forgettable
  <1>5. Script(p, 3) /\ \E u : Leads(db, p, u, U, <<>>) /\ Good(u, torn)
    <2>1. torn \subseteq U
      OBVIOUS
    <2> HIDE DEF p, U
    <2> QED
      BY <2>1, <1>1, <1>4, ForgetLeads
  <1> HIDE DEF p, U
  <1>6. Len(p) \in 0..7 /\ Script(p, Len(p))
    <2>1. (\E S : p \in Seq(S)) /\ Len(p) <= 3
      BY <1>5 DEF Script
    <2>2. Len(p) \in Nat
      BY <2>1
    <2> DEFINE m == Len(p)
    <2>3. m \in Nat /\ m <= 3
      BY <2>1, <2>2
    <2> HIDE DEF m
    <2>4. m \in 0..7 /\ m <= m
      BY <2>3
    <2> QED
      BY <2>1, <2>4 DEF Script, m
  <1>7. Types'
    <2>1. call' \in [on : SUBSET Inos, gives : SUBSET Inos, len : 0..7, forget : BOOLEAN]
      BY <1>2, <1>6
    <2>2. {held, merging, replaced, revived}' \subseteq SUBSET Inos /\ torn' \subseteq Inos
      BY <1>1 DEF SqliteInv, Types
    <2>3. cuts' \in 0..MaxCuts /\ mounted' \in BOOLEAN
      BY <1>1 DEF SqliteInv, Types
    <2>4. Script(pending', call'.len)
      BY <1>1, <1>2, <1>6
    <2> QED
      BY <2>1, <2>2, <2>3, <2>4, <1>1 DEF Types
  <1>8. Running'
    <2>1. torn' \cup call'.on = U
      BY <1>1, <1>2 DEF U
    <2> QED
      BY <2>1, <1>1, <1>5 DEF Running
  <1>9. Forgetting'
    BY <1>1, <1>2, <1>4 DEF Forgetting
  <1>10. Started' /\ Idle'
    BY <1>1, <1>3 DEF Started, Idle
  <1> QED
    BY <1>7, <1>8, <1>9, <1>10 DEF SqliteInv

\* The single statements change no node and no entry.
LEMMA SingleInv ==
  ASSUME SqliteInv, Single
  PROVE  SqliteInv'
  <1>1. /\ Free /\ renamed' = <<>> /\ mounted' = mounted /\ pending' = pending
        /\ call' = call /\ cuts' = cuts /\ torn' = torn
    BY DEF Single
  <1>2. Good(db, torn) /\ mounted = TRUE /\ pending = <<>>
    BY <1>1, FreeFacts
  <1>3. db \in Tables
    BY <1>2 DEF Good, Shape
  <1>4. /\ db' \in Tables /\ db'.nodes = db.nodes /\ db'.edges = db.edges /\ db'.next = db.next
        /\ {held, merging, replaced, revived}' \subseteq SUBSET Inos
    <2>0. {held, merging, replaced, revived} \subseteq SUBSET Inos
      BY DEF SqliteInv, Types
    <2>1. CASE \E d \in Inos, n \in Names : Lookup(d, n)
      BY <2>0, <2>1, <1>3, ChildType DEF Lookup
    <2>2. ASSUME NEW i \in Inos, WriteSlice(i) \/ ReplaceSlices(i)
          PROVE  /\ db' \in Tables /\ db'.nodes = db.nodes /\ db'.edges = db.edges
                 /\ db'.next = db.next
                 /\ {held, merging, replaced, revived}' \subseteq SUBSET Inos
      <3>1. db' = [db EXCEPT !.chunks = @ \cup {i}]
        BY <2>2 DEF WriteSlice, ReplaceSlices
      <3>2. db' \in Tables /\ db'.nodes = db.nodes /\ db'.edges = db.edges /\ db'.next = db.next
        BY <3>1, <1>3 DEF Tables
      <3>3. {held, merging, replaced, revived}' \subseteq SUBSET Inos
        BY <2>0, <2>2 DEF WriteSlice, ReplaceSlices
      <3> QED
        BY <3>2, <3>3
    <2>3. CASE \E i \in Inos : GetChunks(i)
      BY <2>0, <2>3, <1>3 DEF GetChunks
    <2> QED
      BY <2>1, <2>2, <2>3 DEF Single
  <1>5. Good(db', torn)
    BY <1>2, <1>4, GoodSame
  <1>6. Types'
    BY <1>1, <1>4 DEF SqliteInv, Types
  <1>7. Running'
    <2>1. Fine(db', torn \cup call.on, <<>>)
      BY <1>5, GoodMore, FinePlain
    <2>2. Leads(db', <<>>, db', torn \cup call.on, <<>>)
      BY <2>1, LeadsNone
    <2> QED
      BY <2>2, <1>1, <1>2, <1>5 DEF Running
  <1>8. Started' /\ Idle' /\ Forgetting'
    BY <1>1, <1>2, <1>5 DEF SqliteInv, Started, Idle, Forgetting
  <1> QED
    BY <1>6, <1>7, <1>8 DEF SqliteInv

LEMMA PendingTail ==
  ASSUME SqliteInv, pending # <<>>
  PROVE  /\ Script(Tail(pending), call.len) /\ Len(Tail(pending)) # call.len
         /\ call.len \in Nat /\ Len(pending) \in Nat
  <1>1. PICK u : Leads(db, pending, u, torn \cup call.on, renamed) /\ Good(u, torn)
    BY DEF SqliteInv, Running
  <1>2. Script(pending, call.len) /\ call.len \in Nat
    BY DEF SqliteInv, Types
  <1>3. /\ \E S : Tail(pending) \in Seq(S)
        /\ Len(pending) \in Nat \ {0} /\ Len(Tail(pending)) = Len(pending) - 1
    BY <1>1, <1>2, LeadsHead
  <1>4. Len(pending) <= call.len
    BY <1>2 DEF Script
  <1>5. Len(Tail(pending)) <= call.len /\ Len(Tail(pending)) # call.len
    BY <1>2, <1>3, <1>4
  <1> QED
    BY <1>2, <1>3, <1>5 DEF Script

LEMMA ExecuteInv ==
  ASSUME SqliteInv, Execute
  PROVE  SqliteInv'
  <1>1. /\ pending # <<>> /\ pending' = Tail(pending) /\ db' = Apply(db, Head(pending))
        /\ held' = IF Len(pending) = 1 THEN held \cup call.gives ELSE held
        /\ merging' = merging /\ replaced' = replaced /\ revived' = revived
        /\ mounted' = mounted /\ call' = call /\ renamed' = renamed /\ cuts' = cuts /\ torn' = torn
    BY DEF Execute
  <1>2. PICK u : Leads(db, pending, u, torn \cup call.on, renamed) /\ Good(u, torn)
    BY DEF SqliteInv, Running
  <1>3. Script(pending, call.len) /\ call.gives \in SUBSET Inos
    BY DEF SqliteInv, Types
  <1>4. Leads(db', Tail(pending), u, torn \cup call.on, renamed)
    BY <1>1, <1>2, <1>3, LeadsHead
  <1>5. Script(Tail(pending), call.len) /\ Len(Tail(pending)) # call.len
    BY <1>1, PendingTail
  <1>6. Types'
    <2>1. {held, merging, replaced, revived}' \subseteq SUBSET Inos
      BY <1>1, <1>3 DEF SqliteInv, Types
    <2>2. Script(pending', call'.len)
      BY <1>1, <1>5
    <2> QED
      BY <2>1, <2>2, <1>1 DEF SqliteInv, Types
  <1>7. Running'
    BY <1>1, <1>2, <1>4 DEF Running
  <1>8. Started' /\ Idle'
    BY <1>1, <1>5 DEF SqliteInv, Started, Idle
  <1>9. Forgetting'
    <2> SUFFICES ASSUME call.forget
                 PROVE  /\ call.gives = {} /\ renamed = <<>>
                        /\ \E i \in Inos \ {Root} :
                             /\ call.on = {i} /\ pending' \in Forgets(i)
                             /\ pending' # <<>> => Forgettable(db', torn, i, pending')
      BY <1>1 DEF Forgetting
    <2>1. call.gives = {} /\ renamed = <<>>
      BY DEF SqliteInv, Forgetting
    <2>2. PICK i \in Inos \ {Root} : /\ call.on = {i} /\ pending \in Forgets(i)
                                     /\ Forgettable(db, torn, i, pending)
      BY <1>1 DEF SqliteInv, Forgetting
    <2>3. /\ Tail(pending) \in Forgets(i)
          /\ Tail(pending) # <<>> => Forgettable(Apply(db, Head(pending)), torn, i, Tail(pending))
      BY <2>2, <1>1, ForgetNext
    <2> QED
      BY <2>1, <2>2, <2>3, <1>1
  <1> QED
    BY <1>6, <1>7, <1>8, <1>9 DEF SqliteInv

\* An operation that is cut leaves its inodes torn, unless it had not begun.
LEMMA CutGood ==
  ASSUME SqliteInv, Tear
  PROVE  /\ Good(db, torn') /\ torn \subseteq torn' /\ torn' \subseteq Inos
         /\ cuts' \in 0..MaxCuts
  <1>1. /\ cuts < MaxCuts /\ cuts' = cuts + 1
        /\ torn' = IF pending # <<>> /\ Len(pending) < call.len THEN torn \cup call.on ELSE torn
    BY DEF Tear
  <1>2. /\ torn \subseteq Inos /\ call.on \subseteq Inos /\ cuts \in 0..MaxCuts
        /\ Script(pending, call.len) /\ call.len \in Nat
    BY DEF SqliteInv, Types
  <1>3. cuts' \in 0..MaxCuts
    BY <1>1, <1>2, MaxCutsAssumption
  <1>4. Good(db, torn \cup call.on) /\ (pending = <<>> => Good(db, torn))
    BY RunningFine DEF Fine
  <1>5. Good(db, torn')
    <2>1. CASE pending = <<>>
      BY <2>1, <1>1, <1>4
    <2>2. CASE pending # <<>> /\ Len(pending) < call.len
      BY <2>2, <1>1, <1>4
    <2>3. CASE pending # <<>> /\ ~(Len(pending) < call.len)
      <3>1. Len(pending) <= call.len /\ Len(pending) \in Nat
        BY <2>3, <1>2, PendingTail DEF Script
      <3>2. Len(pending) = call.len
        BY <3>1, <2>3, <1>2
      <3> QED
        BY <3>2, <2>3, <1>1 DEF SqliteInv, Started
    <2> QED
      BY <2>1, <2>2, <2>3
  <1> QED
    BY <1>1, <1>2, <1>3, <1>5

\* The statements that were left are dropped.
LEMMA CutInv ==
  ASSUME SqliteInv, Tear, pending' = <<>>, mounted' \in BOOLEAN, db' = db, call' = call,
         renamed' = renamed, {held, merging, replaced, revived}' \subseteq SUBSET Inos
  PROVE  SqliteInv'
  <1>1. Good(db, torn') /\ torn \subseteq torn' /\ torn' \subseteq Inos /\ cuts' \in 0..MaxCuts
    BY CutGood
  <1>2. Script(<<>>, call.len)
    <2>1. call.len \in Nat
      BY DEF SqliteInv, Types
    <2> QED
      BY <2>1, ScriptNone DEF Script
  <1>3. Types'
    BY <1>1, <1>2 DEF SqliteInv, Types
  <1>4. Running'
    <2>1. Fine(db, torn' \cup call.on, renamed)
      <3>1. Good(db, torn' \cup call.on)
        BY <1>1, GoodMore
      <3> QED
        BY <3>1, RunningFine DEF Fine
    <2>2. Leads(db, <<>>, db, torn' \cup call.on, renamed)
      BY <2>1, LeadsNone
    <2> QED
      BY <2>2, <1>1 DEF Running
  <1>5. Forgetting'
    BY DEF SqliteInv, Forgetting, Forgets
  <1> QED
    BY <1>1, <1>3, <1>4, <1>5 DEF SqliteInv, Started, Idle

LEMMA CrashInv ==
  ASSUME SqliteInv, Crash
  PROVE  SqliteInv'
  <1>1. /\ Tear /\ pending' = <<>> /\ mounted' = FALSE /\ db' = db /\ call' = call
        /\ renamed' = renamed /\ held' = {Root} /\ merging' = {} /\ replaced' = replaced
        /\ revived' = revived
    BY DEF Crash
  <1>2. {held, merging, replaced, revived}' \subseteq SUBSET Inos /\ mounted' \in BOOLEAN
    BY <1>1, InosAssumption DEF SqliteInv, Types
  <1> QED
    BY <1>1, <1>2, CutInv

LEMMA FailInv ==
  ASSUME SqliteInv, Fail
  PROVE  SqliteInv'
  <1>1. /\ Tear /\ pending # <<>> /\ mounted' = (call.on # {Root})
        /\ pending' = IF call.forget THEN Tail(pending) ELSE <<>>
        /\ db' = db /\ call' = call /\ renamed' = renamed /\ held' = held /\ merging' = merging
        /\ replaced' = replaced /\ revived' = revived
    BY DEF Fail, tableVars
  <1>2. {held, merging, replaced, revived}' \subseteq SUBSET Inos
    BY <1>1 DEF SqliteInv, Types
  <1>3. mounted' \in BOOLEAN
    BY <1>1
  <1>4. CASE ~call.forget
    BY <1>1, <1>2, <1>3, <1>4, CutInv
  <1>5. CASE call.forget
    <2>1. pending' = Tail(pending)
      BY <1>1, <1>5
    <2>2. PICK i \in Inos \ {Root} : /\ call.on = {i} /\ pending \in Forgets(i)
                                     /\ Forgettable(db, torn, i, pending)
      BY <1>1, <1>5 DEF SqliteInv, Forgetting
    <2>3. call.gives = {} /\ renamed = <<>>
      BY <1>5 DEF SqliteInv, Forgetting
    <2>4. Good(db, torn') /\ torn \subseteq torn' /\ torn' \subseteq Inos /\ cuts' \in 0..MaxCuts
      BY <1>1, CutGood
    <2>5. Tail(pending) \in Forgets(i) /\ Forgettable(db, torn', i, Tail(pending))
      <3>1. Tail(pending) \in Forgets(i) /\ Good(DeleteNode(db, i), torn)
        BY <2>2, <1>1, ForgetNext DEF Forgettable
      <3>2. Good(DeleteNode(db, i), torn')
        BY <3>1, <2>4, GoodMore
      <3> QED
        BY <3>1, <3>2, <2>4 DEF Forgettable
    <2>6. Script(Tail(pending), call.len) /\ Len(Tail(pending)) # call.len
      BY <1>1, PendingTail
    <2>7. Types'
      BY <2>1, <2>4, <2>6, <1>1, <1>2, <1>3 DEF SqliteInv, Types
    <2>8. Running'
      <3>1. torn' \subseteq torn' \cup call.on
        OBVIOUS
      <3>2. \E u : Leads(db, Tail(pending), u, torn' \cup call.on, <<>>) /\ Good(u, torn')
        BY <3>1, <2>5, ForgetLeads
      <3> QED
        BY <3>2, <2>1, <2>3, <1>1 DEF Running
    <2>9. mounted' = TRUE
      BY <2>2, <1>1
    <2>10. Started' /\ Idle' /\ Forgetting'
      BY <2>1, <2>2, <2>3, <2>5, <2>6, <2>9, <1>1 DEF Started, Idle, Forgetting
    <2> QED
      BY <2>7, <2>8, <2>10 DEF SqliteInv
  <1> QED
    BY <1>4, <1>5

LEMMA StepInv == SqliteInv /\ [SqliteNext]_sqliteVars => SqliteInv'
  <1> SUFFICES ASSUME SqliteInv, [SqliteNext]_sqliteVars PROVE SqliteInv'
    OBVIOUS
  <1>1. CASE Mount \/ Single \/ Execute \/ Fail \/ Crash
    BY <1>1, MountInv, SingleInv, ExecuteInv, FailInv, CrashInv
  <1>2. ASSUME NEW d \in Inos, NEW n \in Names,
               \/ Unlink(d, n)
               \/ \E k \in Kinds : Create(d, n, k)
               \/ \E i \in Inos : Link(i, d, n)
               \/ \E dd \in Inos, dn \in Names : Rename(d, n, dd, dn)
        PROVE  SqliteInv'
    BY <1>2, UnlinkInv, CreateInv, LinkInv, RenameInv
  <1>3. CASE \E i \in Inos : Forget(i)
    BY <1>3, ForgetInv
  <1>4. CASE UNCHANGED sqliteVars
    <2>1. /\ db' = db /\ held' = held /\ merging' = merging /\ replaced' = replaced
          /\ revived' = revived /\ mounted' = mounted /\ pending' = pending /\ call' = call
          /\ renamed' = renamed /\ cuts' = cuts /\ torn' = torn
      BY <1>4 DEF sqliteVars, tableVars
    <2>2. Types' /\ Running' /\ Started' /\ Idle' /\ Forgetting'
      <3>1. Types' /\ Running'
        BY <2>1 DEF SqliteInv, Types, Running
      <3>2. Started' /\ Idle' /\ Forgetting'
        BY <2>1 DEF SqliteInv, Started, Idle, Forgetting
      <3> QED
        BY <3>1, <3>2
    <2> QED
      BY <2>2 DEF SqliteInv
  <1> QED
    BY <1>1, <1>2, <1>3, <1>4 DEF SqliteNext

LEMMA Always == SqliteSpec => []SqliteInv
  BY InitInv, StepInv, PTL DEF SqliteSpec

-----------------------------------------------------------------------------
(* The theorems.                                                           *)

\* The tables and the operation under way keep their types, whatever fails and
\* wherever an operation is cut (sqlite.rs:187-694).
THEOREM SqliteTypeCorrect == SqliteSpec => []SqliteTypeOK
  <1>1. SqliteInv => SqliteTypeOK
    <2> SUFFICES ASSUME SqliteInv PROVE SqliteTypeOK
      OBVIOUS
    <2>1. TypeOK
      BY RunningFine DEF TypeOK, SqliteInv, Types
    <2>2. Len(pending) <= call.len
      BY DEF SqliteInv, Types, Script
    <2>3. /\ mounted \in BOOLEAN /\ torn \subseteq Inos /\ cuts \in 0..MaxCuts
          /\ call \in [on : SUBSET Inos, gives : SUBSET Inos, len : 0..7, forget : BOOLEAN]
          /\ renamed = <<>> \/ renamed \in Inos \X Names \X Inos \X Names \X Inos
      BY DEF SqliteInv, Types
    <2> QED
      BY <2>1, <2>2, <2>3 DEF SqliteTypeOK
  <1> QED
    BY <1>1, Always, PTL

\* A crash or an error anywhere in an operation can leave the link counts wrong
\* of the inodes it was about; those of all others are what their entries make
\* them, however often that happens (sqlite.rs:248-312, 383-510, 641-694).
THEOREM CountsBreakLocally == SqliteSpec => []LinksCounted
  <1>1. SqliteInv => LinksCounted
    <2> SUFFICES ASSUME SqliteInv, pending = <<>>, NEW i \in Inos \ torn, Exists(db, i)
                 PROVE  IF IsDir(i) THEN Live(i) => db.nodes[i].nlink = 2 + Cardinality(Subdirs(i))
                                    ELSE db.nodes[i].nlink = Cardinality(EntriesOf(i))
      BY DEF LinksCounted, Counted
    <2>1. db \in Tables /\ Sound(db, i)
      BY RunningFine DEF Good
    <2>2. Kind(db, i) # "none" /\ db.nodes[i].nlink \in Int /\ Due(db, i) \in Nat
      BY <2>1, KindType, OffType DEF Exists
    <2>3. (Kind(db, i) = "dir" => LiveIn(db.edges, i)) => db.nodes[i].nlink = Due(db, i)
      BY <2>1, <2>2 DEF Sound, Off
    <2>4. /\ IsDir(i) <=> Kind(db, i) = "dir"
          /\ Live(i) <=> LiveIn(db.edges, i)
          /\ EntriesOf(i) = EntriesIn(db.edges, i) /\ Subdirs(i) = SubdirsIn(db.edges, i)
      BY DEF IsDir, Kind, Live, LiveIn, Places, EntriesOf, EntriesIn, Subdirs, SubdirsIn, Entry
    <2> QED
      BY <2>3, <2>4 DEF Due
  <1> QED
    BY <1>1, Always, PTL

\* Nor does such a cut leave an entry dangling, or misstating the kind of its
\* child, that has nothing to do with the inodes it was about
\* (sqlite.rs:295-305, 414-424, 465-469, 691-694).
THEOREM EntriesBreakLocally == SqliteSpec => []EntriesResolve
  <1>1. SqliteInv => EntriesResolve
    <2> SUFFICES ASSUME SqliteInv, pending = <<>>, NEW e \in Inos \X Names,
                        {e[1], db.edges[e].child} \cap torn = {}, db.edges[e] # NoEdge
                 PROVE  /\ Exists(db, e[1])
                        /\ db.nodes[db.edges[e].child].kind = db.edges[e].kind
      BY DEF EntriesResolve, Resolves
    <2>1. PICK d \in Inos, n \in Names : e = <<d, n>>
      OBVIOUS
    <2> DEFINE c == db.edges[<<d, n>>].child
    <2>2. Shape(db) /\ db \in Tables /\ Good(db, torn)
      BY RunningFine
    <2>3. c \in Inos /\ Fits(db, d, db.edges[<<d, n>>])
      BY <2>1, <2>2, NoEdgeKind DEF Shape, EntriesFit
    <2>4. Sound(db, d) /\ Sound(db, c)
      BY <2>1, <2>2, <2>3 DEF Good
    <2>5. Kind(db, d) # "none"
      BY <2>1, <2>4 DEF Sound, Unnamed
    <2>6. Kind(db, c) # "none"
      BY <2>1, <2>4 DEF Sound, Unnamed, Places
    <2>7. Exists(db, d)
      BY <2>2, <2>5, KindType DEF Exists
    <2> QED
      BY <2>1, <2>3, <2>6, <2>7 DEF Fits, Kind
  <1> QED
    BY <1>1, Always, PTL

\* Whatever rename was doing when it was cut, what it moves has its old name or
\* its new one (sqlite.rs:436-510).
THEOREM RenameKeepsName == SqliteSpec => []RenameKeepsSource
  <1>1. SqliteInv => RenameKeepsSource
    BY RunningFine DEF RenameKeepsSource, Fine, Kept
  <1> QED
    BY <1>1, Always, PTL

\* At no statement, cut or not, is a directory that has entries taken out of the
\* tree: rmdir and rename ask first, and nothing comes between
\* (sqlite.rs:388-398, 444-451).
THEOREM FullStayInTree == SqliteSpec => []NoEntryBelowRemoved
  <1>1. SqliteInv => NoEntryBelowRemoved
    BY RunningFine DEF NoEntryBelowRemoved, Taken, Entry, Live, LiveIn, Places, Shape, FullLive
  <1> QED
    BY <1>1, Always, PTL

=============================================================================
