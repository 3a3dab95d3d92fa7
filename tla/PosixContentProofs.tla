-------------------------- MODULE PosixContentProofs --------------------------
(***************************************************************************)
(* Files keep their content (ContentKept, ReadsContent of PosixVfs).       *)
(* What a list of slices shows of a block is stated as a relation, which   *)
(* the loops of read and of compact_and_flush keep from one slice to the   *)
(* next; a compaction replaces the prefix of the chunk it has read by one  *)
(* slice that shows the same.                                              *)
(***************************************************************************)
EXTENDS PosixVfsProofs

\* With the data d of the slices, the first n slices of q show v in block b:
\* the last of them that covers the block does, or none covers it.
Shows(d, q, n, b, v) ==
    \/ v = NoSlice /\ \A k \in 1..n : d[q[k]][b] = NoSlice
    \/ v # NoSlice /\ \E k \in 1..n : /\ d[q[k]][b] = v
                                      /\ \A l \in (k + 1)..n : d[q[l]][b] = NoSlice

LEMMA ShowsOne ==
  ASSUME NEW d, NEW q, NEW n \in Nat, NEW b, NEW v, NEW w,
         Shows(d, q, n, b, v), Shows(d, q, n, b, w)
  PROVE  v = w
  <1>1. CASE v = NoSlice \/ w = NoSlice
    BY <1>1 DEF Shows
  <1>2. CASE v # NoSlice /\ w # NoSlice
    <2>1. PICK k \in 1..n : d[q[k]][b] = v /\ \A l \in (k + 1)..n : d[q[l]][b] = NoSlice
      BY <1>2 DEF Shows
    <2>2. PICK j \in 1..n : d[q[j]][b] = w /\ \A l \in (j + 1)..n : d[q[l]][b] = NoSlice
      BY <1>2 DEF Shows
    <2>3. k = j \/ k \in (j + 1)..n \/ j \in (k + 1)..n
      OBVIOUS
    <2> QED
      BY <1>2, <2>1, <2>2, <2>3
  <1> QED
    BY <1>1, <1>2

\* Nothing but the n slices matters.
LEMMA ShowsSame ==
  ASSUME NEW d, NEW q, NEW e, NEW r, NEW n \in Nat, NEW b, NEW v,
         \A k \in 1..n : e[r[k]][b] = d[q[k]][b], Shows(d, q, n, b, v)
  PROVE  Shows(e, r, n, b, v)
  <1>1. CASE v = NoSlice
    BY <1>1 DEF Shows
  <1>2. CASE v # NoSlice
    <2>1. PICK k \in 1..n : d[q[k]][b] = v /\ \A l \in (k + 1)..n : d[q[l]][b] = NoSlice
      BY <1>2 DEF Shows
    <2>2. \A l \in (k + 1)..n : l \in 1..n
      OBVIOUS
    <2> QED
      BY <1>2, <2>1, <2>2 DEF Shows
  <1> QED
    BY <1>1, <1>2

\* One slice more.
LEMMA ShowsNext ==
  ASSUME NEW d, NEW q, NEW n \in Nat, NEW b, NEW v, NEW w, Shows(d, q, n, b, v),
         w = IF d[q[n + 1]][b] # NoSlice THEN d[q[n + 1]][b] ELSE v
  PROVE  Shows(d, q, n + 1, b, w)
  <1>1. CASE d[q[n + 1]][b] # NoSlice
    <2>1. n + 1 \in 1..(n + 1) /\ (n + 1 + 1)..(n + 1) = {}
      OBVIOUS
    <2> QED
      BY <1>1, <2>1 DEF Shows
  <1>2. CASE d[q[n + 1]][b] = NoSlice
    <2>1. \A k \in 1..(n + 1) : k \in 1..n \/ k = n + 1
      OBVIOUS
    <2>2. CASE v = NoSlice
      BY <1>2, <2>1, <2>2 DEF Shows
    <2>3. CASE v # NoSlice
      <3>1. PICK k \in 1..n : d[q[k]][b] = v /\ \A l \in (k + 1)..n : d[q[l]][b] = NoSlice
        BY <2>3 DEF Shows
      <3>2. k \in 1..(n + 1) /\ \A l \in (k + 1)..(n + 1) : l \in (k + 1)..n \/ l = n + 1
        OBVIOUS
      <3> QED
        BY <1>2, <2>3, <3>1, <3>2 DEF Shows
    <2> QED
      BY <2>2, <2>3
  <1> QED
    BY <1>1, <1>2

\* Slices after the first m that do not cover the block add nothing.
LEMMA ShowsPrefix ==
  ASSUME NEW d, NEW q, NEW m \in Nat, NEW n \in Nat, m <= n, NEW b, NEW v,
         Shows(d, q, n, b, v), v = NoSlice \/ \A k \in (m + 1)..n : d[q[k]][b] # v
  PROVE  Shows(d, q, m, b, v)
  <1>1. CASE v = NoSlice
    <2>1. \A k \in 1..m : k \in 1..n
      OBVIOUS
    <2> QED
      BY <1>1, <2>1 DEF Shows
  <1>2. CASE v # NoSlice
    <2>1. PICK k \in 1..n : d[q[k]][b] = v /\ \A l \in (k + 1)..n : d[q[l]][b] = NoSlice
      BY <1>2 DEF Shows
    <2>2. k \in 1..m \/ k \in (m + 1)..n
      OBVIOUS
    <2>3. \A l \in (k + 1)..m : l \in (k + 1)..n
      OBVIOUS
    <2> QED
      BY <1>2, <2>1, <2>2, <2>3 DEF Shows
  <1> QED
    BY <1>1, <1>2

\* What the chunk table shows is what Content reads off it.
Tabled(i, b, v) == Shows(data, chunks[i], Len(chunks[i]), b, v)

LEMMA TabledContent ==
  ASSUME VfsTypeOK, NEW i \in Inodes, NEW b \in Blocks, NEW v, Tabled(i, b, v)
  PROVE  Content(i)[b] = v
  <1> DEFINE on == {k \in DOMAIN chunks[i] : data[chunks[i][k]][b] # NoSlice}
             last == CHOOSE k \in on : \A j \in on : j <= k
  <1>1. chunks[i] \in Seq(Slices) /\ DOMAIN chunks[i] = 1..Len(chunks[i]) /\ Len(chunks[i]) \in Nat
    BY DEF VfsTypeOK
  <1>2. Content(i)[b] = IF on = {} THEN NoSlice ELSE data[chunks[i][last]][b]
    BY DEF Content
  <1>3. CASE v = NoSlice
    <2>1. on = {}
      BY <1>1, <1>3 DEF Tabled, Shows
    <2> QED
      BY <1>2, <1>3, <2>1
  <1>4. CASE v # NoSlice
    <2>1. PICK k \in 1..Len(chunks[i]) :
            /\ data[chunks[i][k]][b] = v
            /\ \A l \in (k + 1)..Len(chunks[i]) : data[chunks[i][l]][b] = NoSlice
      BY <1>4 DEF Tabled, Shows
    <2>2. k \in on
      BY <1>1, <1>4, <2>1
    <2>3. \A j \in on : j <= k
      <3>1. ASSUME NEW j \in on, ~(j <= k) PROVE FALSE
        <4>1. j \in 1..Len(chunks[i]) /\ data[chunks[i][j]][b] # NoSlice
          BY <1>1
        <4>2. j \in (k + 1)..Len(chunks[i])
          BY <1>1, <3>1, <4>1
        <4> QED
          BY <2>1, <4>1, <4>2
      <3> QED
        BY <3>1
    <2>4. \A j \in on : (\A l \in on : l <= j) => j = k
      <3>1. \A j \in on : j \in Nat
        BY <1>1
      <3> QED
        BY <2>2, <2>3, <3>1
    <2>5. last = k
      BY <2>2, <2>3, <2>4
    <2> HIDE DEF on, last
    <2> QED
      BY <1>2, <2>1, <2>2, <2>5
  <1> QED
    BY <1>3, <1>4

-----------------------------------------------------------------------------
(* The inductive invariant: what the table shows of every block, what the  *)
(* slice being written covers, what the loops have assembled, and how the  *)
(* list a compaction has read relates to the chunk.                        *)

\* The slice says of a block nothing, or that it wrote it.
Own(s) == \A b \in Blocks : data[s][b] \in {s, NoSlice}

ChunkOK(i) ==
    \A b \in Blocks : /\ \E v \in Slices \cup {NoSlice} : Tabled(i, b, v)
                      /\ Told(i, b) => Tabled(i, b, file[i][b])

OwnOK ==
    /\ vfs[Fuse].pc \in {"wmeta", "wsize"} => Own(Arg(Fuse))
    /\ vfs[Fuse].pc = "wsize" =>
         \/ Arg(Fuse) \in raced
         \/ \A b \in Covered(Arg(Fuse)) : Tabled(Ino(Fuse), b, Arg(Fuse))

\* The slices whose bytes the buffer has.
Copied(t) == IF vfs[t].pc \in {"rgot", "cgot"} THEN vfs[t].k - 1 ELSE vfs[t].k

BufOK(t) ==
    /\ Reads(t) \/ Merges(t) =>
         \A b \in Blocks : Shows(data, vfs[t].seen, Copied(t), b, vfs[t].buf[b])
    /\ Reads(t) =>
         \A b \in Blocks : Told(Ino(t), b) =>
            Shows(data, vfs[t].seen, Len(vfs[t].seen), b, file[Ino(t)][b])
    /\ vfs[t].pc = "creplace" => data[Arg(t)] = vfs[t].buf

PrefixOK(t) ==
    Merges(t) =>
        LET q == chunks[Ino(t)]
            n == Len(vfs[t].seen)
        IN /\ n <= Len(q)
           /\ \A k \in 1..n : q[k] = vfs[t].seen[k]
           /\ \A k \in (n + 1)..Len(q) : q[k] \in raced /\ Own(q[k])

ContentInv ==
    /\ RefsInv
    /\ \A i \in Inodes : ChunkOK(i)
    /\ OwnOK
    /\ \A t \in Tasks : BufOK(t) /\ PrefixOK(t)

\* No read has come back cut short.
NoShort == \A t \in Tasks : task[t].result # "short"

\* The slices of a chunk, and of a list read, have ids that were handed out.
LEMMA ChunkSlices ==
  ASSUME RefsInv, NEW i \in Inodes
  PROVE  /\ chunks[i] \in Seq(Slices) /\ Len(chunks[i]) \in Nat
         /\ \A k \in 1..Len(chunks[i]) : chunks[i][k] \in Slices /\ chunks[i][k] \in issued
  <1>1. chunks[i] \in Seq(Slices)
    BY DEF RefsInv, CallInv, VfsTypeOK
  <1>2. \A k \in 1..Len(chunks[i]) : chunks[i][k] \in Refs(i)
    BY DEF Refs
  <1> QED
    BY <1>1, <1>2 DEF RefsInv, TableOK, CallInv

LEMMA SeenSlices ==
  ASSUME RefsInv, NEW t \in Tasks
  PROVE  /\ vfs[t].seen \in Seq(Slices) /\ Len(vfs[t].seen) \in Nat /\ vfs[t].k \in Nat
         /\ vfs[t].k <= Len(vfs[t].seen) /\ vfs[t].buf \in Contents
         /\ Reads(t) \/ Merges(t) =>
              \A k \in 1..Len(vfs[t].seen) : vfs[t].seen[k] \in Slices /\ vfs[t].seen[k] \in issued
  <1>1. vfs[t] \in VfsStates /\ vfs[t].k <= Len(vfs[t].seen)
    BY DEF RefsInv, CallInv, VfsTypeOK, CallOK, LoopCall
  <1>2. vfs[t].seen \in Seq(Slices) /\ Len(vfs[t].seen) \in Nat /\ vfs[t].k \in Nat
        /\ vfs[t].buf \in Contents
    BY <1>1 DEF VfsStates
  <1>3. \A k \in 1..Len(vfs[t].seen) : vfs[t].seen[k] \in Seen(t)
    BY DEF Seen
  <1>4. Reads(t) \/ Merges(t) => Sees(t)
    BY DEF Sees, Holds
  <1> QED
    BY <1>1, <1>2, <1>3, <1>4 DEF RefsInv, SeenOK, CallInv

\* How much of its list a loop has copied.
LEMMA CopiedBounds ==
  ASSUME RefsInv, NEW t \in Tasks
  PROVE  Copied(t) \in Nat /\ Copied(t) <= Len(vfs[t].seen)
  <1>1. vfs[t].k \in Nat /\ vfs[t].k <= Len(vfs[t].seen) /\ Len(vfs[t].seen) \in Nat
    BY SeenSlices
  <1>2. vfs[t].pc \in {"rgot", "cgot"} => vfs[t].k \in 1..Len(vfs[t].seen)
    BY DEF RefsInv, CallInv, CallOK, LoopCall, Current
  <1> QED
    BY <1>1, <1>2 DEF Copied

\* New slices change nothing of what the others show.
LEMMA TabledStays ==
  ASSUME RefsInv, NEW i \in Inodes, chunks'[i] = chunks[i],
         \A s \in issued : data'[s] = data[s], NEW b, NEW v, Tabled(i, b, v)
  PROVE  Shows(data', chunks'[i], Len(chunks'[i]), b, v)
  <1>1. \A k \in 1..Len(chunks[i]) : data'[chunks[i][k]][b] = data[chunks[i][k]][b]
    BY ChunkSlices
  <1>2. Shows(data, chunks[i], Len(chunks[i]), b, v) /\ Len(chunks[i]) \in Nat
    BY ChunkSlices DEF Tabled
  <1>3. Shows(data', chunks[i], Len(chunks[i]), b, v)
    BY <1>1, <1>2, ShowsSame
  <1> QED
    BY <1>3

LEMMA SeenStays ==
  ASSUME RefsInv, NEW t \in Tasks, Reads(t) \/ Merges(t), vfs'[t].seen = vfs[t].seen,
         \A s \in issued : data'[s] = data[s], NEW n \in Nat, n <= Len(vfs[t].seen),
         NEW b, NEW v, Shows(data, vfs[t].seen, n, b, v)
  PROVE  Shows(data', vfs'[t].seen, n, b, v)
  <1>1. \A k \in 1..n : k \in 1..Len(vfs[t].seen)
    BY SeenSlices
  <1>2. \A k \in 1..n : data'[vfs[t].seen[k]][b] = data[vfs[t].seen[k]][b]
    BY <1>1, SeenSlices
  <1>3. PICK e : e = data'
    OBVIOUS
  <1>4. PICK q : q = vfs[t].seen
    OBVIOUS
  <1>5. Shows(data, q, n, b, v) /\ \A k \in 1..n : e[q[k]][b] = data[q[k]][b]
    BY <1>2, <1>3, <1>4
  <1>6. Shows(e, q, n, b, v)
    BY <1>5, ShowsSame
  <1> QED
    BY <1>3, <1>4, <1>6

\* What a step of another task leaves: the loops of t, and its list.
LEMMA BufStays ==
  ASSUME ContentInv, NEW t \in Tasks, vfs'[t] = vfs[t],
         Pending(t) => Arg(t)' = Arg(t), \A s \in issued : data'[s] = data[s],
         Reads(t) => UNCHANGED <<file, raced, uncut>>
  PROVE  BufOK(t)'
  <1>1. /\ Copied(t)' = Copied(t) /\ Ino(t)' = Ino(t) /\ (Reads(t)' <=> Reads(t))
        /\ (Merges(t)' <=> Merges(t))
    BY DEF Copied, Ino, Reads, Merges
  <1>2. RefsInv /\ BufOK(t)
    BY DEF ContentInv
  <1>3. ASSUME Reads(t)' \/ Merges(t)', NEW b \in Blocks
        PROVE  Shows(data', vfs'[t].seen, Copied(t)', b, vfs'[t].buf[b])
    <2>1. Shows(data, vfs[t].seen, Copied(t), b, vfs[t].buf[b]) /\ (Reads(t) \/ Merges(t))
      BY <1>1, <1>2, <1>3 DEF BufOK
    <2>2. Copied(t) \in Nat /\ Copied(t) <= Len(vfs[t].seen)
      BY <1>2, CopiedBounds
    <2>3. Shows(data', vfs'[t].seen, Copied(t), b, vfs[t].buf[b])
      BY <1>2, <2>1, <2>2, SeenStays
    <2> QED
      BY <1>1, <2>3
  <1>4. ASSUME Reads(t)', NEW b \in Blocks, Told(Ino(t), b)'
        PROVE  Shows(data', vfs'[t].seen, Len(vfs'[t].seen), b, file'[Ino(t)'][b])
    <2>1. Told(Ino(t), b) /\ file' = file
      BY <1>1, <1>4 DEF Told
    <2>2. Shows(data, vfs[t].seen, Len(vfs[t].seen), b, file[Ino(t)][b])
      BY <1>1, <1>2, <1>4, <2>1 DEF BufOK
    <2>3. PICK n, v : n = Len(vfs[t].seen) /\ v = file[Ino(t)][b]
      OBVIOUS
    <2>4. n \in Nat /\ n <= Len(vfs[t].seen) /\ Shows(data, vfs[t].seen, n, b, v)
      BY <1>2, <2>2, <2>3, SeenSlices
    <2>5. Shows(data', vfs'[t].seen, n, b, v)
      BY <1>1, <1>2, <1>4, <2>4, SeenStays
    <2> QED
      BY <1>1, <2>1, <2>3, <2>5
  <1>5. vfs'[t].pc = "creplace" => data'[Arg(t)'] = vfs'[t].buf
    <2>1. ASSUME vfs[t].pc = "creplace" PROVE Arg(t) \in issued /\ Arg(t)' = Arg(t)
      BY <1>2, <2>1 DEF RefsInv, CallInv, CallOK, WriteCall, Pending
    <2> QED
      BY <1>2, <2>1 DEF BufOK
  <1> QED
    BY <1>3, <1>4, <1>5 DEF BufOK

LEMMA PrefixStays ==
  ASSUME ContentInv, NEW t \in Tasks, vfs'[t] = vfs[t],
         Merges(t) => chunks'[Ino(t)] = chunks[Ino(t)],
         raced \subseteq raced', \A s \in issued : data'[s] = data[s]
  PROVE  PrefixOK(t)'
  <1>1. RefsInv /\ PrefixOK(t) /\ Ino(t)' = Ino(t) /\ (Merges(t)' <=> Merges(t))
    BY DEF ContentInv, Ino, Merges
  <1> SUFFICES ASSUME Merges(t) PROVE PrefixOK(t)'
    BY <1>1 DEF PrefixOK
  <1>2. Ino(t) \in Inodes
    BY <1>1 DEF RefsInv, CallInv, CallOK, RestCall, Merges
  <1>3. ASSUME NEW k \in (Len(vfs[t].seen) + 1)..Len(chunks[Ino(t)])
        PROVE  data'[chunks[Ino(t)][k]] = data[chunks[Ino(t)][k]]
    <2>1. k \in 1..Len(chunks[Ino(t)])
      BY <1>1, <1>2, SeenSlices, ChunkSlices
    <2> QED
      BY <1>1, <1>2, <2>1, ChunkSlices
  <1> QED
    BY <1>1, <1>3 DEF PrefixOK, Own

\* A step of t that leaves the table and the history of the files alone.
LEMMA ContentTaskStep ==
  ASSUME ContentInv, RefsInv', NEW t \in Tasks, UNCHANGED <<chunks, file, raced, uncut>>,
         \A s \in issued : data'[s] = data[s],
         \A u \in Tasks \ {t} : vfs'[u] = vfs[u] /\ task'[u] = task[u],
         t = Fuse => OwnOK', BufOK(t)', PrefixOK(t)'
  PROVE  ContentInv'
  <1>1. RefsInv
    BY DEF ContentInv
  <1>2. \A i, b : Told(i, b)' <=> Told(i, b)
    BY DEF Told
  <1>3. ASSUME NEW i \in Inodes PROVE ChunkOK(i)'
    <2>1. ASSUME NEW b \in Blocks, NEW v, Tabled(i, b, v)
          PROVE  Shows(data', chunks'[i], Len(chunks'[i]), b, v)
      BY <1>1, <2>1, TabledStays
    <2> QED
      BY <1>2, <2>1 DEF ContentInv, ChunkOK, Tabled
  <1>4. ASSUME t # Fuse PROVE OwnOK'
    <2>1. Arg(Fuse)' = Arg(Fuse) /\ Ino(Fuse)' = Ino(Fuse) /\ vfs'[Fuse] = vfs[Fuse]
      BY <1>4, FuseTask DEF Arg, Ino
    <2>2. ASSUME vfs[Fuse].pc \in {"wmeta", "wsize"}
          PROVE  data'[Arg(Fuse)] = data[Arg(Fuse)] /\ Ino(Fuse) \in Inodes
      BY <1>1, <2>2, FuseTask DEF RefsInv, CallInv, CallOK, WriteCall, RestCall, Pending
    <2>3. ASSUME vfs[Fuse].pc = "wsize", NEW b, Tabled(Ino(Fuse), b, Arg(Fuse))
          PROVE  Shows(data', chunks'[Ino(Fuse)], Len(chunks'[Ino(Fuse)]), b, Arg(Fuse))
      BY <1>1, <2>2, <2>3, TabledStays
    <2> QED
      BY <2>1, <2>2, <2>3 DEF ContentInv, OwnOK, Own, Covered, Tabled
  <1>5. ASSUME NEW u \in Tasks \ {t} PROVE BufOK(u)' /\ PrefixOK(u)'
    <2>1. Arg(u)' = Arg(u) /\ vfs'[u] = vfs[u]
      BY DEF Arg
    <2>2. BufOK(u)'
      BY <2>1, BufStays
    <2> QED
      BY <2>1, <2>2, PrefixStays
  <1> QED
    BY <1>3, <1>4, <1>5 DEF ContentInv

\* t goes to a state with no list, and no slice, in hand.
LEMMA ContentRoleLess ==
  ASSUME ContentInv, RefsInv', NEW t \in Tasks, UNCHANGED <<chunks, file, raced, uncut>>,
         \A s \in issued : data'[s] = data[s],
         \A u \in Tasks \ {t} : vfs'[u] = vfs[u] /\ task'[u] = task[u],
         vfs'[t].pc \in {"idle", "wid", "clock", "sleep", "cdelete", "cflush"}
  PROVE  ContentInv'
  <1>1. t = Fuse => OwnOK'
    BY DEF OwnOK
  <1>2. BufOK(t)' /\ PrefixOK(t)'
    BY DEF BufOK, PrefixOK, Reads, Merges
  <1> QED
    BY <1>1, <1>2, ContentTaskStep

-----------------------------------------------------------------------------
(* The steps of the operations.                                            *)

LEMMA ContentReadSlice ==
  ASSUME ContentInv, RefsInv', NEW t \in Tasks,
         ReadSlice(t, "rnext", "rgot") \/ ReadSlice(t, "cread", "cgot")
  PROVE  ContentInv'
  <1>0. /\ RefsInv /\ VfsTypeOK /\ TypeOK /\ vfs[t] \in VfsStates
        /\ BufOK(t) /\ PrefixOK(t)
    BY DEF ContentInv, RefsInv, CallInv, VfsTypeOK
  <1>1. PICK l \in {"rgot", "cgot"} :
          /\ vfs[t].pc = IF l = "rgot" THEN "rnext" ELSE "cread"
          /\ ReadSlice(t, vfs[t].pc, l)
    BY DEF ReadSlice, VfsAt
  <1>2. /\ VfsGoto(t, Advanced(vfs[t], l)) /\ UNCHANGED <<chunks, file, raced, uncut, data>>
        /\ \A u \in Tasks \ {t} : task'[u] = task[u]
    BY <1>0, <1>1, CallStarts DEF ReadSlice, Advanced, Starts, metaVars, history
  <1>3. /\ vfs'[t].pc = l /\ vfs'[t].ino = vfs[t].ino /\ vfs'[t].seen = vfs[t].seen
        /\ vfs'[t].k = vfs[t].k + 1 /\ vfs'[t].buf = vfs[t].buf /\ vfs[t].k \in Nat
        /\ \A u \in Tasks \ {t} : vfs'[u] = vfs[u]
    <2>1. vfs'[t] = Advanced(vfs[t], l) /\ \A u \in Tasks \ {t} : vfs'[u] = vfs[u]
      BY <1>0, <1>2, VfsMoves
    <2>2. vfs[t].k \in Nat
      BY <1>0 DEF VfsStates
    <2> QED
      BY <1>0, <2>1, <2>2, AdvancedFields
  <1>4. Copied(t) = vfs[t].k /\ Copied(t)' = vfs[t].k
    BY <1>1, <1>3 DEF Copied
  <1>5. /\ Reads(t)' => Reads(t)
        /\ Merges(t)' => Merges(t)
        /\ Ino(t)' = Ino(t)
    BY <1>1, <1>3 DEF Reads, Merges, Ino
  <1>6. BufOK(t)'
    BY <1>0, <1>2, <1>3, <1>4, <1>5 DEF BufOK, Told
  <1>7. PrefixOK(t)'
    BY <1>0, <1>2, <1>3, <1>5 DEF PrefixOK, Own
  <1>8. t = Fuse => OwnOK'
    BY <1>3 DEF OwnOK
  <1> QED
    BY <1>2, <1>3, <1>6, <1>7, <1>8, ContentTaskStep

LEMMA ContentCopySlice ==
  ASSUME ContentInv, RefsInv', NoShort, NEW t \in Tasks,
         CopySlice(t, "rgot", "rnext") \/ CopySlice(t, "cgot", "cread")
  PROVE  ContentInv'
  <1>0. /\ RefsInv /\ VfsTypeOK /\ TypeOK /\ vfs[t] \in VfsStates
        /\ BufOK(t) /\ PrefixOK(t) /\ CallOK(t)
    BY DEF ContentInv, RefsInv, CallInv, VfsTypeOK
  <1>1. PICK l \in {"rnext", "cread"} :
          /\ vfs[t].pc = IF l = "rnext" THEN "rgot" ELSE "cgot"
          /\ CopySlice(t, vfs[t].pc, l)
    BY DEF CopySlice, VfsAt
  <1>2. UNCHANGED <<chunks, file, raced, uncut, data, task>>
    BY <1>1 DEF CopySlice, metaVars, history, cacheVars, vars
  <1>3. CASE ~Got(t)
    <2>1. VfsGoto(t, Rest)
      BY <1>1, <1>3 DEF CopySlice, Finish
    <2>2. vfs'[t].pc = "idle" /\ \A u \in Tasks \ {t} : vfs'[u] = vfs[u]
      BY <1>0, <2>1, VfsMoves DEF Rest
    <2> QED
      BY <1>2, <2>2, ContentRoleLess
  <1>4. CASE Got(t)
    <2>1. task[t].result = "ok"
      BY <1>4 DEF Got, NoShort
    <2>2. PICK c : c = Over(vfs[t].buf, data[Arg(t)], Blocks)
      OBVIOUS
    <2>3. VfsGoto(t, Filled(vfs[t], l, c))
      BY <1>1, <1>4, <2>1, <2>2 DEF CopySlice, Filled
    <2>4. /\ vfs'[t].pc = l /\ vfs'[t].ino = vfs[t].ino /\ vfs'[t].seen = vfs[t].seen
          /\ vfs'[t].k = vfs[t].k /\ vfs'[t].buf = c
          /\ \A u \in Tasks \ {t} : vfs'[u] = vfs[u]
      <3>1. /\ Filled(vfs[t], l, c).pc = l /\ Filled(vfs[t], l, c).ino = vfs[t].ino
            /\ Filled(vfs[t], l, c).seen = vfs[t].seen /\ Filled(vfs[t], l, c).k = vfs[t].k
            /\ Filled(vfs[t], l, c).buf = c
        BY <1>0 DEF Filled, VfsStates
      <3> QED
        BY <1>0, <2>3, <3>1, VfsMoves
    <2>5. PICK n \in Nat : n = vfs[t].k - 1 /\ vfs[t].k = n + 1 /\ Arg(t) = vfs[t].seen[n + 1]
      <3>1. Current(t) /\ Len(vfs[t].seen) \in Nat
        BY <1>0, <1>1, SeenSlices DEF CallOK, LoopCall
      <3>2. vfs[t].k \in Nat /\ vfs[t].k - 1 \in Nat /\ vfs[t].k = vfs[t].k - 1 + 1
        BY <3>1 DEF Current
      <3> QED
        BY <3>1, <3>2 DEF Current
    <2>6. Copied(t) = n /\ Copied(t)' = n + 1
      BY <1>1, <2>4, <2>5 DEF Copied
    <2>7. /\ Reads(t)' => Reads(t)
          /\ Merges(t)' => Merges(t)
          /\ Ino(t)' = Ino(t)
          /\ Reads(t) \/ Merges(t)
      BY <1>1, <2>4 DEF Reads, Merges, Ino
    <2>8. ASSUME NEW b \in Blocks
          PROVE  Shows(data, vfs[t].seen, n + 1, b, c[b])
      <3>1. Shows(data, vfs[t].seen, n, b, vfs[t].buf[b])
        BY <1>0, <2>6, <2>7 DEF BufOK
      <3>2. c[b] = IF data[vfs[t].seen[n + 1]][b] # NoSlice THEN data[vfs[t].seen[n + 1]][b]
                   ELSE vfs[t].buf[b]
        BY <2>2, <2>5 DEF Over
      <3> QED
        BY <3>1, <3>2, ShowsNext
    <2>9. BufOK(t)'
      BY <1>0, <1>1, <1>2, <2>4, <2>6, <2>7, <2>8 DEF BufOK, Told
    <2>10. PrefixOK(t)'
      BY <1>0, <1>2, <2>4, <2>7 DEF PrefixOK, Own
    <2>11. t = Fuse => OwnOK'
      BY <2>4 DEF OwnOK
    <2> QED
      BY <1>2, <2>4, <2>9, <2>10, <2>11, ContentTaskStep
  <1> QED
    BY <1>3, <1>4

\* A list is read from the table: it shows what the table shows.
LEMMA ContentLists ==
  ASSUME ContentInv, RefsInv', NEW t \in Tasks, NEW i \in Inodes,
         VfsGoto(t, vfs'[t]), vfs'[t].ino = i, vfs'[t].seen = chunks[i], vfs'[t].k = 0,
         vfs'[t].buf = Zeros, vfs'[t].pc \in {"rnext", "cread"},
         UNCHANGED <<chunks, file, raced, uncut, data, task>>
  PROVE  ContentInv'
  <1>1. \A u \in Tasks \ {t} : vfs'[u] = vfs[u]
    BY VfsMoves DEF ContentInv, RefsInv, CallInv
  <1>2. Ino(t)' = i /\ Copied(t)' = 0
    BY DEF Ino, Copied
  <1>3. \A b \in Blocks : Shows(data, chunks[i], 0, b, Zeros[b])
    BY DEF Shows, Zeros
  <1>4. \A b \in Blocks : Told(i, b) => Shows(data, chunks[i], Len(chunks[i]), b, file[i][b])
    BY DEF ContentInv, ChunkOK, Tabled
  <1>5. BufOK(t)'
    BY <1>2, <1>3, <1>4 DEF BufOK, Told
  <1>6. PrefixOK(t)'
    <2>1. Len(chunks[i]) \in Nat
      BY ChunkSlices DEF ContentInv
    <2>2. ((Len(chunks[i]) + 1)..Len(chunks[i])) = {}
      BY <2>1
    <2> QED
      BY <1>2, <2>1, <2>2 DEF PrefixOK
  <1>7. t = Fuse => OwnOK'
    BY DEF OwnOK
  <1> QED
    BY <1>1, <1>5, <1>6, <1>7, ContentTaskStep

LEMMA ContentLock ==
  ASSUME ContentInv, RefsInv', NEW t \in Tasks, LockAndList(t)
  PROVE  ContentInv'
  <1>0. /\ VfsTypeOK /\ vfs[t] \in VfsStates /\ Ino(t) \in Inodes
        /\ vfs[t].k = 0 /\ vfs[t].buf = Zeros
    BY DEF ContentInv, RefsInv, CallInv, CallOK, RestCall, LoopCall, VfsTypeOK, LockAndList, VfsAt
  <1>1. UNCHANGED <<chunks, file, raced, uncut, data, task>>
    BY DEF LockAndList, metaVars, history, cacheVars, vars
  <1>2. CASE VfsGoto(t, Relisted(vfs[t], chunks[Ino(t)]))
    <2>1. /\ vfs'[t].pc = "cread" /\ vfs'[t].ino = Ino(t) /\ vfs'[t].seen = chunks[Ino(t)]
          /\ vfs'[t].k = 0 /\ vfs'[t].buf = Zeros /\ VfsGoto(t, vfs'[t])
      BY <1>0, <1>2, VfsMoves, RelistedFields DEF VfsTypeOK, Ino
    <2> QED
      BY <1>0, <1>1, <2>1, ContentLists
  <1>3. CASE VfsGoto(t, WentTo(vfs[t], "cdelete"))
    <2>1. vfs'[t].pc = "cdelete" /\ \A u \in Tasks \ {t} : vfs'[u] = vfs[u]
      BY <1>0, <1>3, VfsMoves, WentToFields
    <2> QED
      BY <1>1, <2>1, ContentRoleLess
  <1> QED
    BY <1>2, <1>3 DEF LockAndList, Relisted, WentTo

LEMMA ContentWrites ==
  ASSUME ContentInv, RefsInv', NEW t \in Tasks, (t = Fuse /\ WriteSlice) \/ WriteMerged(t)
  PROVE  ContentInv'
  <1>0. /\ RefsInv /\ CallInv /\ VfsTypeOK /\ TypeOK /\ vfs[t] \in VfsStates
        /\ BufOK(t) /\ PrefixOK(t)
    BY DEF ContentInv, RefsInv, CallInv, VfsTypeOK
  <1>1. CASE MetaError(t)
    <2>1. UNCHANGED <<chunks, file, raced, uncut, data, task>> /\ VfsGoto(t, Rest)
      BY <1>1 DEF MetaError, Finish, metaVars, history, cacheVars, vars
    <2>2. vfs'[t].pc = "idle" /\ \A u \in Tasks \ {t} : vfs'[u] = vfs[u]
      BY <1>0, <2>1, VfsMoves DEF Rest
    <2> QED
      BY <2>1, <2>2, ContentRoleLess
  <1>2. CASE ~MetaError(t)
    <2>0. PICK s : s = NextSlice
      OBVIOUS
    <2>1. CASE t = Fuse /\ WriteSlice
      <3>1. /\ s \in Slices /\ Starts(t, "wal", s) /\ s \notin issued
            /\ UNCHANGED <<chunks, file, raced, uncut>>
            /\ VfsGoto(t, WentTo(vfs[t], "wmeta"))
        BY <1>0, <1>2, <2>0, <2>1, CallStarts DEF WriteSlice, WentTo, metaVars
      <3>2. PICK first \in Blocks : \E last \in first..ChunkBlocks :
              data' = [data EXCEPT ![s] =
                         [b \in Blocks |-> IF b \in first..last THEN s ELSE NoSlice]]
        BY <1>2, <2>0, <2>1 DEF WriteSlice
      <3>3. /\ vfs'[t].pc = "wmeta" /\ \A u \in Tasks \ {t} : vfs'[u] = vfs[u]
            /\ Arg(t)' = s /\ \A u \in Tasks \ {t} : task'[u] = task[u]
        BY <1>0, <3>1, VfsMoves, WentToFields DEF Starts, Arg
      <3>4. /\ \A x \in issued : data'[x] = data[x]
            /\ Own(s)'
        <4>1. PICK last \in first..ChunkBlocks :
                data' = [data EXCEPT ![s] =
                           [b \in Blocks |-> IF b \in first..last THEN s ELSE NoSlice]]
          BY <3>2
        <4>2. \A b \in Blocks : data'[s][b] \in {s, NoSlice}
          BY <1>0, <3>1, <4>1 DEF VfsTypeOK
        <4> QED
          BY <1>0, <3>1, <4>1, <4>2 DEF Own, VfsTypeOK, TypeOK
      <3>5. OwnOK'
        BY <2>1, <3>3, <3>4 DEF OwnOK, Own
      <3>6. BufOK(t)' /\ PrefixOK(t)'
        BY <3>3 DEF BufOK, PrefixOK, Reads, Merges
      <3> QED
        BY <3>1, <3>3, <3>4, <3>5, <3>6, ContentTaskStep
    <2>2. CASE WriteMerged(t)
      <3>1. /\ s \in Slices /\ Starts(t, "wal", s) /\ s \notin issued
            /\ UNCHANGED <<chunks, file, raced, uncut>>
            /\ VfsGoto(t, WentTo(vfs[t], "creplace"))
            /\ data' = [data EXCEPT ![s] = vfs[t].buf] /\ vfs[t].pc = "cread"
        BY <1>0, <1>2, <2>0, <2>2, CallStarts DEF WriteMerged, WentTo, metaVars, VfsAt
      <3>2. /\ vfs'[t].pc = "creplace" /\ vfs'[t].ino = vfs[t].ino
            /\ vfs'[t].seen = vfs[t].seen /\ vfs'[t].k = vfs[t].k /\ vfs'[t].buf = vfs[t].buf
            /\ \A u \in Tasks \ {t} : vfs'[u] = vfs[u] /\ task'[u] = task[u]
            /\ Arg(t)' = s
        BY <1>0, <3>1, VfsMoves, WentToFields DEF Starts, Arg
      <3>3. (\A x \in issued : data'[x] = data[x]) /\ data'[s] = vfs[t].buf
        BY <1>0, <3>1 DEF VfsTypeOK, TypeOK
      <3>4. /\ Copied(t)' = Copied(t) /\ Merges(t) /\ ~Reads(t)' /\ Ino(t)' = Ino(t)
            /\ Ino(t) \in Inodes
        BY <1>0, <3>1, <3>2 DEF Copied, Merges, Reads, Ino, CallInv, CallOK, RestCall
      <3>5. ASSUME NEW b \in Blocks
            PROVE  Shows(data', vfs'[t].seen, Copied(t)', b, vfs'[t].buf[b])
        <4>1. Shows(data, vfs[t].seen, Copied(t), b, vfs[t].buf[b])
          BY <1>0, <3>4 DEF BufOK
        <4>2. Copied(t) \in Nat /\ Copied(t) <= Len(vfs[t].seen)
          BY <1>0, CopiedBounds
        <4>3. Shows(data', vfs'[t].seen, Copied(t), b, vfs[t].buf[b])
          BY <1>0, <3>2, <3>3, <3>4, <4>1, <4>2, SeenStays
        <4> QED
          BY <3>2, <3>4, <4>3
      <3>6. BufOK(t)'
        BY <3>2, <3>3, <3>4, <3>5 DEF BufOK
      <3>7. PrefixOK(t)'
        <4>1. ASSUME NEW k \in (Len(vfs[t].seen) + 1)..Len(chunks[Ino(t)])
              PROVE  data'[chunks[Ino(t)][k]] = data[chunks[Ino(t)][k]]
          <5>1. k \in 1..Len(chunks[Ino(t)])
            BY <1>0, <3>4, SeenSlices, ChunkSlices
          <5> QED
            BY <1>0, <3>3, <3>4, <5>1, ChunkSlices
        <4> QED
          BY <1>0, <3>1, <3>2, <3>4, <4>1 DEF PrefixOK, Own
      <3>8. t = Fuse => OwnOK'
        BY <3>2 DEF OwnOK
      <3> QED
        BY <3>1, <3>2, <3>3, <3>6, <3>7, <3>8, ContentTaskStep
    <2> QED
      BY <2>1, <2>2
  <1> QED
    BY <1>1, <1>2

\* A step of the FUSE thread on one file: what is left to show is the table.
LEMMA ContentFileStep ==
  ASSUME ContentInv, RefsInv', data' = data, raced \subseteq raced',
         \A u \in Tasks \ {Fuse} : vfs'[u] = vfs[u] /\ task'[u] = task[u],
         vfs'[Fuse].pc \in {"idle", "wsize"}, NEW i \in Inodes,
         \A j \in Inodes \ {i} : /\ chunks'[j] = chunks[j] /\ file'[j] = file[j]
                                 /\ uncut'[j] = uncut[j],
         ChunkOK(i)', OwnOK',
         \A t \in Tasks : Merges(t) /\ Ino(t) = i /\ t # Fuse => PrefixOK(t)'
  PROVE  ContentInv'
  <1>1. RefsInv /\ \A s \in issued : data'[s] = data[s]
    BY DEF ContentInv
  <1>2. ASSUME NEW j \in Inodes \ {i} PROVE ChunkOK(j)'
    <2>1. ASSUME NEW b \in Blocks, NEW v, Tabled(j, b, v)
          PROVE  Shows(data', chunks'[j], Len(chunks'[j]), b, v)
      BY <1>1, <2>1, TabledStays
    <2>2. \A b : Told(j, b)' => Told(j, b)
      BY DEF Told
    <2> QED
      BY <2>1, <2>2 DEF ContentInv, ChunkOK, Tabled
  <1>3. ASSUME NEW t \in Tasks PROVE BufOK(t)' /\ PrefixOK(t)'
    <2>1. CASE t = Fuse
      BY <2>1 DEF BufOK, PrefixOK, Reads, Merges
    <2>2. CASE t # Fuse
      <3>1. vfs'[t] = vfs[t] /\ Arg(t)' = Arg(t) /\ ~Reads(t)
        BY <1>1, <2>2 DEF Arg, RefsInv, CallInv, CallOK, RestCall
      <3>2. BufOK(t)'
        BY <1>1, <3>1, BufStays
      <3>3. CASE Merges(t) /\ Ino(t) = i
        BY <2>2, <3>2, <3>3
      <3>4. CASE ~(Merges(t) /\ Ino(t) = i)
        <4>1. Merges(t) => Ino(t) \in Inodes
          BY <1>1 DEF RefsInv, CallInv, CallOK, RestCall, Merges
        <4>2. Merges(t) => chunks'[Ino(t)] = chunks[Ino(t)]
          BY <3>4, <4>1
        <4>3. PrefixOK(t)'
          BY <1>1, <3>1, <4>2, PrefixStays
        <4> QED
          BY <3>2, <4>3
      <3> QED
        BY <3>3, <3>4
    <2> QED
      BY <2>1, <2>2
  <1> QED
    BY <1>2, <1>3 DEF ContentInv

LEMMA ContentWriteMeta ==
  ASSUME ContentInv, RefsInv', WriteMeta
  PROVE  ContentInv'
  <1>0. /\ RefsInv /\ CallInv /\ VfsTypeOK /\ TypeOK /\ Fuse \in Tasks /\ vfs[Fuse] \in VfsStates
        /\ vfs[Fuse].pc = "wmeta" /\ At(Fuse, "idle") /\ OwnOK
    BY FuseTask DEF ContentInv, RefsInv, CallInv, VfsTypeOK, WriteMeta, VfsAt
  <1>1. CASE MetaError(Fuse)
    <2>1. UNCHANGED <<chunks, file, raced, uncut, data, task>> /\ VfsGoto(Fuse, Rest)
      BY <1>1 DEF MetaError, Finish, metaVars, history, cacheVars, vars
    <2>2. vfs'[Fuse].pc = "idle" /\ \A u \in Tasks \ {Fuse} : vfs'[u] = vfs[u]
      BY <1>0, <2>1, VfsMoves DEF Rest
    <2> QED
      BY <1>0, <2>1, <2>2, ContentRoleLess
  <1>2. CASE ~MetaError(Fuse)
    <2>1. PICK i \in Inodes : i = Ino(Fuse)
      BY <1>0 DEF CallInv, CallOK, RestCall
    <2>2. PICK s \in Slices : s = Arg(Fuse) /\ s \in issued
      <3>1. Arg(Fuse) \in written
        BY <1>0 DEF CallInv, CallOK, WriteCall, Pending
      <3> QED
        BY <1>0, <3>1 DEF CallInv, TypeOK
    <2>3. PICK beyond : beyond = Covered(s) \ Within(i)
      OBVIOUS
    <2>4. /\ chunks' = [chunks EXCEPT ![i] = Append(@, s)]
          /\ file' = [file EXCEPT ![i] = Over(@, data[s], Within(i))]
          /\ uncut' = [uncut EXCEPT ![i] = (@ \ Covered(s)) \cup beyond]
          /\ raced' = IF Merging(i) THEN raced \cup {s} ELSE raced
          /\ UNCHANGED <<data, task>>
          /\ VfsGoto(Fuse, Rest) \/ VfsGoto(Fuse, WentTo(vfs[Fuse], "wsize"))
      BY <1>2, <2>1, <2>2, <2>3 DEF WriteMeta, Finish, WentTo, cacheVars, vars
    <2>5. /\ vfs'[Fuse].pc \in {"idle", "wsize"}
          /\ vfs'[Fuse].pc = "wsize" => Ino(Fuse)' = i
          /\ \A u \in Tasks \ {Fuse} : vfs'[u] = vfs[u]
      <3>1. CASE VfsGoto(Fuse, Rest)
        BY <1>0, <3>1, VfsMoves DEF Rest
      <3>2. CASE VfsGoto(Fuse, WentTo(vfs[Fuse], "wsize"))
        BY <1>0, <2>1, <3>2, VfsMoves, WentToFields DEF Ino
      <3> QED
        BY <2>4, <3>1, <3>2
    <2>6. PICK q \in Seq(Slices) : q = chunks[i]
      BY <1>0, ChunkSlices
    <2>7. PICK n \in Nat : n = Len(q)
      BY <2>6
    <2>8. PICK p : p = chunks'[i]
      OBVIOUS
    <2>9. /\ p = Append(q, s) /\ Len(p) = n + 1 /\ p[n + 1] = s
          /\ \A k \in 1..n : p[k] = q[k]
      <3>1. p = Append(q, s)
        BY <1>0, <2>4, <2>6, <2>8 DEF VfsTypeOK
      <3> QED
        BY <2>6, <2>7, <3>1
    <2>10. /\ file'[i] = Over(file[i], data[s], Within(i))
           /\ uncut'[i] = (uncut[i] \ Covered(s)) \cup beyond
           /\ \A j \in Inodes \ {i} : /\ chunks'[j] = chunks[j] /\ file'[j] = file[j]
                                      /\ uncut'[j] = uncut[j]
      BY <1>0, <2>4 DEF VfsTypeOK
    <2>11. /\ Own(s) /\ data[s] \in Contents
           /\ \A b \in Blocks : data[s][b] = IF b \in Covered(s) THEN s ELSE NoSlice
      BY <1>0, <2>2 DEF OwnOK, Own, Covered, VfsTypeOK
    <2>12. ASSUME NEW b \in Blocks, NEW v, Tabled(i, b, v), NEW w,
                  w = IF b \in Covered(s) THEN s ELSE v
           PROVE  Shows(data, p, n + 1, b, w)
      <3>1. Shows(data, q, n, b, v)
        BY <2>6, <2>7, <2>12 DEF Tabled
      <3>2. Shows(data, p, n, b, v)
        BY <2>9, <3>1, ShowsSame
      <3>3. w = IF data[p[n + 1]][b] # NoSlice THEN data[p[n + 1]][b] ELSE v
        BY <2>9, <2>11, <2>12, NoSliceAssumption
      <3> QED
        BY <3>2, <3>3, ShowsNext
    <2>13. ChunkOK(i)'
      <3>1. ASSUME NEW b \in Blocks
            PROVE  \E w \in Slices \cup {NoSlice} : Shows(data, p, n + 1, b, w)
        <4>1. PICK v \in Slices \cup {NoSlice} : Tabled(i, b, v)
          BY DEF ContentInv, ChunkOK
        <4>2. PICK w \in Slices \cup {NoSlice} : w = IF b \in Covered(s) THEN s ELSE v
          OBVIOUS
        <4> QED
          BY <2>12, <4>1, <4>2
      <3>2. ASSUME NEW b \in Blocks, Told(i, b)'
            PROVE  Shows(data, p, n + 1, b, file'[i][b])
        <4>1. b \notin uncut'[i] /\ file'[i][b] \notin raced' /\ raced \subseteq raced'
          BY <2>4, <3>2 DEF Told
        <4>2. file'[i][b] = IF b \in Covered(s) THEN s ELSE file[i][b]
          <5>1. b \in Covered(s) => b \in Within(i)
            BY <2>3, <2>10, <4>1
          <5> QED
            BY <2>10, <2>11, <5>1, NoSliceAssumption DEF Over
        <4>3. CASE b \in Covered(s)
          <5>1. PICK v \in Slices \cup {NoSlice} : Tabled(i, b, v)
            BY DEF ContentInv, ChunkOK
          <5> QED
            BY <2>12, <4>2, <4>3, <5>1
        <4>4. CASE b \notin Covered(s)
          <5>1. Told(i, b)
            BY <2>10, <4>1, <4>2, <4>4 DEF Told
          <5>2. Tabled(i, b, file[i][b])
            BY <5>1 DEF ContentInv, ChunkOK
          <5> QED
            BY <2>12, <4>2, <4>4, <5>2
        <4> QED
          BY <4>3, <4>4
      <3> QED
        BY <2>4, <2>8, <2>9, <3>1, <3>2 DEF ChunkOK, Tabled
    <2>14. OwnOK'
      <3>1. Arg(Fuse)' = s /\ Covered(Arg(Fuse))' = Covered(s) /\ Own(Arg(Fuse))'
        BY <2>2, <2>4, <2>11 DEF Arg, Covered, Own
      <3>2. ASSUME NEW b \in Covered(s) PROVE Shows(data, p, n + 1, b, s)
        <4>1. b \in Blocks
          BY DEF Covered
        <4>2. PICK v \in Slices \cup {NoSlice} : Tabled(i, b, v)
          BY <4>1 DEF ContentInv, ChunkOK
        <4> QED
          BY <2>12, <3>2, <4>1, <4>2
      <3> QED
        BY <2>4, <2>5, <2>8, <2>9, <3>1, <3>2 DEF OwnOK, Tabled
    <2>15. ASSUME NEW t \in Tasks, Merges(t), Ino(t) = i, t # Fuse PROVE PrefixOK(t)'
      <3>1. PICK m \in Nat : m = Len(vfs[t].seen)
        BY <1>0, SeenSlices
      <3>2. /\ m <= n /\ (\A k \in 1..m : q[k] = vfs[t].seen[k])
            /\ \A k \in (m + 1)..n : q[k] \in raced /\ Own(q[k])
        BY <2>6, <2>7, <2>15, <3>1 DEF ContentInv, PrefixOK
      <3>3. Merging(i)
        BY <2>15 DEF Merging, Merges
      <3>4. raced' = raced \cup {s}
        BY <2>4, <3>3
      <3>5. \A k \in 1..m : p[k] = vfs[t].seen[k]
        BY <2>9, <3>2
      <3>6. \A k \in (m + 1)..(n + 1) : p[k] \in raced' /\ Own(p[k])
        <4>1. \A k \in (m + 1)..(n + 1) : k = n + 1 \/ (k \in (m + 1)..n /\ k \in 1..n)
          OBVIOUS
        <4> QED
          BY <2>9, <2>11, <3>2, <3>4, <4>1
      <3>7. vfs'[t] = vfs[t] /\ Ino(t)' = i
        BY <2>5, <2>15 DEF Ino
      <3> QED
        BY <2>4, <2>8, <2>9, <3>1, <3>2, <3>5, <3>6, <3>7 DEF PrefixOK, Own
    <2>16. data' = data /\ raced \subseteq raced' /\ \A u \in Tasks : task'[u] = task[u]
      BY <2>4
    <2>17. \A t \in Tasks : Merges(t) /\ Ino(t) = i /\ t # Fuse => PrefixOK(t)'
      BY <2>15
    <2> QED
      BY <2>5, <2>10, <2>13, <2>14, <2>16, <2>17, ContentFileStep
  <1> QED
    BY <1>1, <1>2

LEMMA ContentWriteSize ==
  ASSUME ContentInv, RefsInv', WriteSize
  PROVE  ContentInv'
  <1>0. /\ RefsInv /\ CallInv /\ VfsTypeOK /\ TypeOK /\ Fuse \in Tasks
        /\ vfs[Fuse].pc = "wsize" /\ OwnOK
    BY FuseTask DEF ContentInv, RefsInv, CallInv, VfsTypeOK, WriteSize, VfsAt
  <1>1. UNCHANGED <<chunks, raced, data, task>> /\ VfsGoto(Fuse, Rest)
    BY DEF WriteSize, MetaError, Finish, metaVars, history, cacheVars, vars
  <1>2. vfs'[Fuse].pc = "idle" /\ \A u \in Tasks \ {Fuse} : vfs'[u] = vfs[u]
    BY <1>0, <1>1, VfsMoves DEF Rest
  <1>3. CASE MetaError(Fuse)
    <2>1. UNCHANGED <<file, uncut>>
      BY <1>3 DEF MetaError, history
    <2> QED
      BY <1>0, <1>1, <1>2, <2>1, ContentRoleLess
  <1>4. CASE ~MetaError(Fuse)
    <2>1. PICK i \in Inodes : i = Ino(Fuse)
      BY <1>0 DEF CallInv, CallOK, RestCall
    <2>2. PICK s \in Slices : s = Arg(Fuse)
      <3>1. Arg(Fuse) \in written
        BY <1>0 DEF CallInv, CallOK, WriteCall
      <3> QED
        BY <1>0, <3>1 DEF TypeOK
    <2>3. /\ file'[i] = Over(file[i], data[s], Blocks) /\ uncut'[i] = uncut[i] \ Covered(s)
          /\ \A j \in Inodes \ {i} : file'[j] = file[j] /\ uncut'[j] = uncut[j]
      BY <1>0, <1>4, <2>1, <2>2 DEF WriteSize, VfsTypeOK
    <2>4. \A b \in Blocks : file'[i][b] = IF b \in Covered(s) THEN s ELSE file[i][b]
      BY <1>0, <2>2, <2>3 DEF OwnOK, Own, Over, Covered
    <2>5. \A b \in Blocks : Told(i, b)' => Tabled(i, b, file'[i][b])
      <3>1. ASSUME NEW b \in Blocks, Told(i, b)' PROVE Tabled(i, b, file'[i][b])
        <4>1. file'[i][b] \notin raced /\ b \notin uncut[i] \ Covered(s)
          BY <1>1, <2>3, <3>1 DEF Told
        <4>2. CASE b \in Covered(s)
          BY <1>0, <2>1, <2>2, <2>4, <4>1, <4>2 DEF OwnOK
        <4>3. CASE b \notin Covered(s)
          BY <2>4, <4>1, <4>3 DEF ContentInv, ChunkOK, Told
        <4> QED
          BY <4>2, <4>3
      <3> QED
        BY <3>1
    <2>6. ChunkOK(i)'
      BY <1>1, <2>5 DEF ContentInv, ChunkOK, Tabled
    <2>7. OwnOK'
      BY <1>2 DEF OwnOK
    <2>8. ASSUME NEW t \in Tasks, t # Fuse PROVE PrefixOK(t)'
      BY <1>1, <1>2, <2>8, PrefixStays
    <2> QED
      BY <1>0, <1>1, <1>2, <2>3, <2>6, <2>7, <2>8, ContentFileStep
  <1> QED
    BY <1>3, <1>4

LEMMA ContentTruncate ==
  ASSUME ContentInv, RefsInv', NEW i \in Inodes, NEW n \in 0..ChunkBlocks, Truncate(i, n)
  PROVE  ContentInv'
  <1>0. /\ RefsInv /\ CallInv /\ VfsTypeOK /\ TypeOK /\ Fuse \in Tasks /\ vfs[Fuse].pc = "idle"
        /\ UNCHANGED <<chunks, raced, data, task, vfs>>
    BY FuseTask DEF ContentInv, RefsInv, CallInv, VfsTypeOK, Truncate, VfsAt, cacheVars, vars
  <1>1. CASE UNCHANGED <<file, uncut>>
    BY <1>0, <1>1, ContentRoleLess
  <1>2. CASE /\ file' = [file EXCEPT ![i] = [b \in Blocks |-> IF b <= n THEN @[b] ELSE NoSlice]]
             /\ uncut' = [uncut EXCEPT ![i] =
                            @ \cup {b \in Blocks : b > n /\ Content(i)[b] # NoSlice}]
    <2>1. PICK cut : cut = {b \in Blocks : b > n /\ Content(i)[b] # NoSlice}
      OBVIOUS
    <2>2. /\ \A b \in Blocks : file'[i][b] = IF b <= n THEN file[i][b] ELSE NoSlice
          /\ uncut'[i] = uncut[i] \cup cut
          /\ \A j \in Inodes \ {i} : file'[j] = file[j] /\ uncut'[j] = uncut[j]
      BY <1>0, <1>2, <2>1 DEF VfsTypeOK
    <2>3. ASSUME NEW b \in Blocks, Told(i, b)' PROVE Tabled(i, b, file'[i][b])
      <3>1. file'[i][b] \notin raced /\ b \notin uncut[i] /\ b \notin cut
        BY <1>0, <2>2, <2>3 DEF Told
      <3>2. CASE b <= n
        BY <2>2, <3>1, <3>2 DEF ContentInv, ChunkOK, Told
      <3>3. CASE ~(b <= n)
        <4>1. Content(i)[b] = NoSlice
          BY <2>1, <3>1, <3>3, ChunkBlocksAssumption DEF Blocks
        <4>2. PICK v \in Slices \cup {NoSlice} : Tabled(i, b, v)
          BY DEF ContentInv, ChunkOK
        <4> QED
          BY <1>0, <2>2, <3>3, <4>1, <4>2, TabledContent
      <3> QED
        BY <3>2, <3>3
    <2>4. ChunkOK(i)'
      BY <1>0, <2>3 DEF ContentInv, ChunkOK, Tabled
    <2>5. OwnOK'
      BY <1>0 DEF OwnOK
    <2>6. ASSUME NEW t \in Tasks PROVE PrefixOK(t)'
      BY <1>0, PrefixStays
    <2> QED
      BY <1>0, <2>2, <2>4, <2>5, <2>6, ContentFileStep
  <1> QED
    BY <1>1, <1>2 DEF Truncate

\* The merged slice shows what the chunk it replaces showed, but for the
\* writes that hit the chunk meanwhile.
LEMMA ContentReplace ==
  ASSUME ContentInv, RefsInv', NEW t \in Tasks, ReplaceSlices(t)
  PROVE  ContentInv'
  <1>0. /\ RefsInv /\ CallInv /\ VfsTypeOK /\ TypeOK /\ vfs[t] \in VfsStates
        /\ vfs[t].pc = "creplace" /\ At(t, "idle") /\ BufOK(t) /\ PrefixOK(t)
    BY DEF ContentInv, RefsInv, CallInv, VfsTypeOK, ReplaceSlices, VfsAt
  <1>1. UNCHANGED <<file, raced, uncut, data, task>>
    BY DEF ReplaceSlices, MetaError, history, cacheVars, vars
  <1>2. CASE MetaError(t)
    <2>1. chunks' = chunks /\ VfsGoto(t, Rest)
      BY <1>2 DEF MetaError, Finish, metaVars
    <2>2. vfs'[t].pc = "idle" /\ \A u \in Tasks \ {t} : vfs'[u] = vfs[u]
      BY <1>0, <2>1, VfsMoves DEF Rest
    <2> QED
      BY <1>1, <2>1, <2>2, ContentRoleLess
  <1>3. CASE ~MetaError(t)
    <2>1. PICK i \in Inodes : i = Ino(t)
      BY <1>0 DEF CallInv, CallOK, RestCall
    <2>2. PICK s \in Slices : s = Arg(t)
      <3>1. Arg(t) \in written
        BY <1>0 DEF CallInv, CallOK, WriteCall, Pending
      <3> QED
        BY <1>0, <3>1 DEF TypeOK
    <2>3. /\ chunks'[i] = <<s>> /\ \A j \in Inodes \ {i} : chunks'[j] = chunks[j]
          /\ VfsGoto(t, Rewound(vfs[t]))
      BY <1>0, <1>3, <2>1, <2>2 DEF ReplaceSlices, Rewound, VfsTypeOK
    <2>4. vfs'[t].pc = "cdelete" /\ \A u \in Tasks \ {t} : vfs'[u] = vfs[u]
      BY <1>0, <2>3, VfsMoves, RewoundFields
    <2>5. PICK q \in Seq(Slices) : q = chunks[i]
      BY <1>0, ChunkSlices
    <2>6. PICK m \in Nat : m = Len(q)
      BY <2>5
    <2>7. PICK l : l = vfs[t].seen
      OBVIOUS
    <2>8. PICK n \in Nat : n = Len(l) /\ Copied(t) = n
      BY <1>0, <2>7, SeenSlices DEF CallInv, CallOK, LoopCall, Copied
    <2>9. /\ n <= m /\ \A k \in 1..n : q[k] = l[k]
          /\ \A k \in (n + 1)..m : q[k] \in raced /\ Own(q[k])
      BY <1>0, <2>1, <2>5, <2>6, <2>7, <2>8 DEF PrefixOK, Merges
    <2>10. \A b \in Blocks : Shows(data, l, n, b, data[s][b])
      BY <1>0, <2>2, <2>7, <2>8 DEF BufOK, Merges
    <2>11. ASSUME NEW b \in Blocks, NEW v, v \notin raced, Tabled(i, b, v)
           PROVE  v = data[s][b]
      <3>1. Shows(data, q, m, b, v)
        BY <2>5, <2>6, <2>11 DEF Tabled
      <3>2. v = NoSlice \/ \A k \in (n + 1)..m : data[q[k]][b] # v
        BY <2>9, <2>11 DEF Own
      <3>3. Shows(data, q, n, b, v)
        BY <2>9, <3>1, <3>2, ShowsPrefix
      <3>4. Shows(data, l, n, b, v)
        BY <2>9, <3>3, ShowsSame
      <3> QED
        BY <2>10, <3>4, ShowsOne
    <2>12. /\ Len(chunks'[i]) = 1
           /\ \A b \in Blocks : Shows(data, chunks'[i], 1, b, data[s][b])
      <3>1. chunks'[i][1] = s /\ Len(chunks'[i]) = 1 /\ 1..1 = {1} /\ (1 + 1)..1 = {}
        BY <2>3
      <3> QED
        BY <3>1 DEF Shows
    <2>13. ChunkOK(i)'
      <3>1. \A b \in Blocks : data[s][b] \in Slices \cup {NoSlice}
        BY <1>0 DEF VfsTypeOK, Contents
      <3>2. ASSUME NEW b \in Blocks, Told(i, b) PROVE file[i][b] = data[s][b]
        BY <2>11, <3>2 DEF ContentInv, ChunkOK, Told
      <3> QED
        BY <1>1, <2>12, <3>1, <3>2 DEF ChunkOK, Tabled, Told
    <2>14. ASSUME NEW j \in Inodes \ {i} PROVE ChunkOK(j)'
      BY <1>1, <2>3 DEF ContentInv, ChunkOK, Tabled, Told
    <2>15. OwnOK'
      <3>1. CASE t = Fuse
        BY <2>4, <3>1 DEF OwnOK
      <3>2. CASE t # Fuse
        <4>1. /\ vfs'[Fuse] = vfs[Fuse] /\ Arg(Fuse)' = Arg(Fuse) /\ Ino(Fuse)' = Ino(Fuse)
              /\ Fuse \in Tasks
          BY <1>1, <2>4, <3>2, FuseTask DEF Arg, Ino
        <4>2. vfs[Fuse].pc = "wsize" => Ino(Fuse) \in Inodes
          BY <1>0, <4>1 DEF CallInv, CallOK, RestCall
        <4>3. PICK x : x = Arg(Fuse)
          OBVIOUS
        <4>4. ASSUME vfs[Fuse].pc = "wsize", x \notin raced, NEW b \in Covered(x)
              PROVE  Shows(data, chunks'[Ino(Fuse)], Len(chunks'[Ino(Fuse)]), b, x)
          <5>1. b \in Blocks /\ Tabled(Ino(Fuse), b, x)
            BY <4>3, <4>4 DEF ContentInv, OwnOK, Covered
          <5>2. CASE Ino(Fuse) = i
            BY <2>11, <2>12, <4>4, <5>1, <5>2
          <5>3. CASE Ino(Fuse) # i
            BY <2>3, <4>2, <4>4, <5>1, <5>3 DEF Tabled
          <5> QED
            BY <5>2, <5>3
        <4>5. Covered(x)' = Covered(x) /\ (Own(x)' <=> Own(x))
          BY <1>1 DEF Covered, Own
        <4> QED
          BY <1>1, <4>1, <4>3, <4>4, <4>5 DEF ContentInv, OwnOK, Tabled, Own, Covered
      <3> QED
        BY <3>1, <3>2
    <2>16. ASSUME NEW u \in Tasks PROVE BufOK(u)' /\ PrefixOK(u)'
      <3>1. CASE u = t
        BY <2>4, <3>1 DEF BufOK, PrefixOK, Reads, Merges
      <3>2. CASE u # t
        <4>1. vfs'[u] = vfs[u] /\ Arg(u)' = Arg(u)
          BY <1>1, <2>4, <3>2 DEF Arg
        <4>2. Merges(u) => chunks'[Ino(u)] = chunks[Ino(u)]
          <5>1. Merges(u) => Ino(u) \in Inodes
            BY <1>0 DEF CallInv, CallOK, RestCall, Merges
          <5>2. Merges(u) => Ino(u) # i
            BY <1>0, <2>1, <3>2 DEF RefsInv, Apart, Holds, Merges
          <5> QED
            BY <2>3, <5>1, <5>2
        <4>3. BufOK(u)'
          BY <1>1, <4>1, BufStays
        <4>4. PrefixOK(u)'
          BY <1>1, <4>1, <4>2, PrefixStays
        <4> QED
          BY <4>3, <4>4
      <3> QED
        BY <3>1, <3>2
    <2> QED
      BY <2>13, <2>14, <2>15, <2>16 DEF ContentInv
  <1> QED
    BY <1>2, <1>3

\* The steps that end a list or an operation.
LEMMA ContentReturns ==
  ASSUME ContentInv, RefsInv', NEW t \in Tasks,
         \/ ListFails(t) \/ DeleteOld(t) \/ FlushAll(t) \/ CompactReturns(t)
         \/ t = Fuse /\ ReadReturns
  PROVE  ContentInv'
  <1>0. VfsTypeOK /\ TypeOK /\ vfs[t] \in VfsStates
    BY DEF ContentInv, RefsInv, CallInv, VfsTypeOK
  <1>1. UNCHANGED <<chunks, file, raced, uncut, data>>
    BY DEF ListFails, DeleteOld, FlushAll, CompactReturns, ReadReturns, metaVars, history
  <1>2. \A u \in Tasks \ {t} : task'[u] = task[u]
    BY <1>0, CallStarts DEF ListFails, DeleteOld, FlushAll, CompactReturns, ReadReturns, Starts,
       cacheVars, vars
  <1>3. CASE DeleteOld(t)
    <2>1. VfsGoto(t, Advanced(vfs[t], "cdelete"))
      <3>1. vfs[t].pc = "cdelete"
        BY <1>3 DEF DeleteOld, VfsAt
      <3> QED
        BY <1>0, <1>3, <3>1 DEF DeleteOld, Advanced, VfsStates
    <2>2. vfs'[t].pc = "cdelete" /\ \A u \in Tasks \ {t} : vfs'[u] = vfs[u]
      BY <1>0, <2>1, VfsMoves, AdvancedFields
    <2> QED
      BY <1>1, <1>2, <2>2, ContentRoleLess
  <1>4. CASE FlushAll(t)
    <2>1. VfsGoto(t, WentTo(vfs[t], "cflush"))
      BY <1>4 DEF FlushAll, WentTo
    <2>2. vfs'[t].pc = "cflush" /\ \A u \in Tasks \ {t} : vfs'[u] = vfs[u]
      BY <1>0, <2>1, VfsMoves, WentToFields
    <2> QED
      BY <1>1, <1>2, <2>2, ContentRoleLess
  <1>5. CASE ListFails(t) \/ CompactReturns(t) \/ (t = Fuse /\ ReadReturns)
    <2>1. VfsGoto(t, Rest)
      BY <1>5 DEF ListFails, CompactReturns, ReadReturns, Finish
    <2>2. vfs'[t].pc = "idle" /\ \A u \in Tasks \ {t} : vfs'[u] = vfs[u]
      BY <1>0, <2>1, VfsMoves DEF Rest
    <2> QED
      BY <1>1, <1>2, <2>2, ContentRoleLess
  <1> QED
    BY <1>3, <1>4, <1>5

LEMMA ContentOp ==
  ASSUME ContentInv, RefsInv', NoShort, NEW t \in Tasks, OpStep(t)
  PROVE  ContentInv'
  BY ContentReadSlice, ContentCopySlice, ContentLock, ContentWrites, ContentWriteMeta,
     ContentWriteSize, ContentReplace, ContentReturns DEF OpStep

LEMMA ContentRequest ==
  ASSUME ContentInv, RefsInv', Request
  PROVE  ContentInv'
  <1>0. VfsTypeOK /\ Fuse \in Tasks
    BY FuseTask DEF ContentInv, RefsInv, CallInv
  <1>1. PICK i \in Inodes : \/ Write(i) \/ Read(i) \/ Fsync(i) \/ Release(i)
                            \/ \E n \in 0..ChunkBlocks : Truncate(i, n)
    BY DEF Request
  <1>2. CASE Write(i) \/ Fsync(i)
    <2>1. PICK l \in {"wid", "clock"} : VfsGoto(Fuse, Begun(l, i))
      BY <1>2 DEF Write, Fsync, Compact, Begun
    <2>2. vfs'[Fuse].pc = l /\ \A u \in Tasks \ {Fuse} : vfs'[u] = vfs[u]
      BY <1>0, <2>1, VfsMoves, BegunFields
    <2>3. UNCHANGED <<chunks, file, raced, uncut, data, task>>
      BY <1>2 DEF Write, Fsync, metaVars, history, cacheVars, vars
    <2> QED
      BY <1>0, <2>2, <2>3, ContentRoleLess
  <1>3. CASE Read(i)
    <2>1. VfsGoto(Fuse, Listed("rnext", i, chunks[i])) /\ chunks[i] \in Seq(Slices)
      BY <1>0, <1>3 DEF Read, Listed, VfsTypeOK
    <2>2. /\ vfs'[Fuse].pc = "rnext" /\ vfs'[Fuse].ino = i /\ vfs'[Fuse].seen = chunks[i]
          /\ vfs'[Fuse].k = 0 /\ vfs'[Fuse].buf = Zeros /\ VfsGoto(Fuse, vfs'[Fuse])
      BY <1>0, <2>1, VfsMoves, ListedFields
    <2>3. UNCHANGED <<chunks, file, raced, uncut, data, task>>
      BY <1>3 DEF Read, metaVars, history, cacheVars, vars
    <2> QED
      BY <1>0, <2>2, <2>3, ContentLists
  <1>4. CASE Release(i)
    BY <1>0, <1>4, ContentRoleLess DEF Release, VfsAt, metaVars, history, cacheVars, vars
  <1>5. CASE \E n \in 0..ChunkBlocks : Truncate(i, n)
    BY <1>5, ContentTruncate
  <1> QED
    BY <1>1, <1>2, <1>3, <1>4, <1>5

LEMMA ContentBackground ==
  ASSUME ContentInv, RefsInv', NEW t \in Tasks, Background(t)
  PROVE  ContentInv'
  <1>0. VfsTypeOK /\ UNCHANGED <<chunks, file, raced, uncut, data, task>>
    BY DEF ContentInv, RefsInv, CallInv, Background, FlusherWakes, FlusherDrains, RunRelease,
           FlusherCompacts, Notified, metaVars, history, cacheVars, vars
  <1>1. PICK new : VfsGoto(t, new) /\ new.pc \in {"idle", "sleep", "clock"}
    <2>1. CASE FlusherWakes(t)
      <3>1. [Rest EXCEPT !.pc = "sleep"].pc = "sleep"
        BY DEF Rest
      <3> QED
        BY <2>1, <3>1 DEF FlusherWakes
    <2>2. CASE FlusherDrains(t)
      BY <2>2 DEF FlusherDrains, Rest
    <2>3. CASE \E i \in Inodes : RunRelease(t, i) \/ FlusherCompacts(t, i)
      <3>1. PICK i \in Inodes : VfsGoto(t, Begun("clock", i))
        BY <2>3 DEF RunRelease, FlusherCompacts, Compact, Begun
      <3> QED
        BY <3>1, BegunFields
    <2> QED
      BY <2>1, <2>2, <2>3 DEF Background
  <1>2. vfs'[t].pc \in {"idle", "sleep", "clock"} /\ \A u \in Tasks \ {t} : vfs'[u] = vfs[u]
    BY <1>0, <1>1, VfsMoves
  <1> QED
    BY <1>0, <1>2, ContentRoleLess

\* The steps of the cache leave the lists, and the slices in hand, alone.
LEMMA CacheKeepsArgs ==
  ASSUME RefsInv, CacheStep, NEW u \in Tasks, Pending(u) \/ vfs[u].pc = "wsize"
  PROVE  Arg(u)' = Arg(u)
  <1>0. CallInv /\ CallOK(u)
    BY DEF RefsInv, CallInv
  <1>1. task[u].pc \in WritePcs \cup {"idle"}
    BY <1>0 DEF CallOK, WriteCall, At
  <1>2. task[u].pc \notin FlushPcs
    BY <1>1 DEF WritePcs, FlushPcs
  <1>3. ASSUME NEW t \in Tasks, CallStep(t) PROVE Arg(u)' = Arg(u)
    <2>1. GoesOn(t)
      BY <1>0, <1>3, CallGoesOn DEF CallInv
    <2> QED
      BY <1>2, <2>1 DEF GoesOn, Arg
  <1>4. ASSUME NEW s \in Slices, Evict(s) PROVE Arg(u)' = Arg(u)
    BY <1>4 DEF Evict, Arg
  <1>5. ASSUME NEW t \in Tasks, ReplayWal(t) PROVE FALSE
    BY <1>0, <1>5 DEF ReplayWal, CallOK, RestCall, Pending
  <1> QED
    BY <1>3, <1>4, <1>5 DEF CacheStep

LEMMA ContentStutter ==
  ASSUME ContentInv, RefsInv', UNCHANGED vfsVars,
         \A u \in Tasks : Pending(u) \/ vfs[u].pc = "wsize" => Arg(u)' = Arg(u)
  PROVE  ContentInv'
  <1>1. UNCHANGED <<vfs, chunks, data, file, raced, uncut>> /\ Fuse \in Tasks
    BY FuseTask DEF vfsVars, metaVars, history
  <1>2. \A i \in Inodes : ChunkOK(i)'
    BY <1>1 DEF ContentInv, ChunkOK, Told, Tabled
  <1>3. OwnOK'
    BY <1>1 DEF ContentInv, OwnOK, Own, Covered, Tabled, Ino, Pending
  <1>4. ASSUME NEW u \in Tasks PROVE BufOK(u)' /\ PrefixOK(u)'
    BY <1>1, BufStays, PrefixStays
  <1> QED
    BY <1>2, <1>3, <1>4 DEF ContentInv

LEMMA ContentNext ==
  ASSUME ContentInv, NoShort, [VfsNext]_allVars
  PROVE  ContentInv'
  <1>0. RefsInv /\ RefsInv'
    BY RefsNext DEF ContentInv
  <1>1. CASE CacheStep
    <2>1. UNCHANGED vfsVars
      BY <1>1 DEF CacheStep
    <2> QED
      BY <1>0, <1>1, <2>1, CacheKeepsArgs, ContentStutter
  <1>2. CASE UNCHANGED allVars
    BY <1>0, <1>2, ContentStutter DEF allVars, vars, Arg
  <1>3. CASE VfsCrash
    <2>1. UNCHANGED <<chunks, data, file, raced, uncut>> /\ \A t \in Tasks : vfs'[t] = Rest
      BY <1>3 DEF VfsCrash, metaVars, history
    <2>2. \A i \in Inodes : ChunkOK(i)'
      BY <2>1 DEF ContentInv, ChunkOK, Told, Tabled
    <2> QED
      BY <1>0, <2>1, <2>2, FuseTask
      DEF ContentInv, OwnOK, BufOK, PrefixOK, Reads, Merges, Rest
  <1> QED
    BY <1>0, <1>1, <1>2, <1>3, ContentRequest, ContentOp, ContentBackground DEF VfsNext

LEMMA ContentInit == VfsInit => ContentInv
  <1> SUFFICES ASSUME VfsInit PROVE ContentInv
    OBVIOUS
  <1>1. ASSUME NEW i \in Inodes PROVE ChunkOK(i)
    <2>1. chunks[i] = <<>> /\ Len(<<>>) = 0 /\ 1..0 = {} /\ file[i] = Zeros
      BY DEF VfsInit
    <2>2. \A b \in Blocks : Tabled(i, b, NoSlice) /\ file[i][b] = NoSlice
      BY <2>1 DEF Tabled, Shows, Zeros
    <2> QED
      BY <2>2 DEF ChunkOK
  <1>2. \A t \in Tasks : vfs[t].pc = "idle"
    BY DEF VfsInit, Rest
  <1> QED
    BY <1>1, <1>2, RefsInit, FuseTask DEF ContentInv, OwnOK, BufOK, PrefixOK, Reads, Merges

LEMMA ContentHolds ==
  ASSUME ContentInv
  PROVE  ContentKept /\ ReadsContent
  <1>0. VfsTypeOK /\ RefsInv /\ Fuse \in Tasks
    BY FuseTask DEF ContentInv, RefsInv, CallInv
  <1>1. \A i \in Inodes : Within(i) \subseteq Blocks
    BY <1>0, ChunkBlocksAssumption DEF Within, Blocks, VfsTypeOK
  <1>2. ContentKept
    BY <1>0, <1>1, TabledContent DEF ContentInv, ChunkOK, ContentKept
  <1>3. ReadsContent
    <2> SUFFICES ASSUME VfsAt(Fuse, "rnext"), vfs[Fuse].k = Len(vfs[Fuse].seen),
                        NEW b \in Within(Ino(Fuse)), Told(Ino(Fuse), b)
                 PROVE  vfs[Fuse].buf[b] = file[Ino(Fuse)][b]
      BY DEF ReadsContent
    <2>1. Reads(Fuse) /\ Ino(Fuse) \in Inodes /\ Copied(Fuse) = Len(vfs[Fuse].seen)
      BY <1>0 DEF Reads, VfsAt, Copied, RefsInv, CallInv, CallOK, RestCall
    <2>2. PICK q, n : q = vfs[Fuse].seen /\ n = Len(vfs[Fuse].seen)
      OBVIOUS
    <2>3. n \in Nat /\ b \in Blocks
      BY <1>0, <1>1, <2>1, <2>2, SeenSlices
    <2>4. Shows(data, q, n, b, vfs[Fuse].buf[b]) /\ Shows(data, q, n, b, file[Ino(Fuse)][b])
      BY <1>0, <2>1, <2>2, <2>3 DEF ContentInv, BufOK
    <2> QED
      BY <2>3, <2>4, ShowsOne
  <1> QED
    BY <1>2, <1>3

-----------------------------------------------------------------------------
(* Without an L2 no copy is short, so no read is cut short.                *)

ShortFree ==
    /\ TypeOK /\ disk = Nothing
    /\ \A s \in Slices : l1[s] # "short"
    /\ \A t \in Tasks : task[t].result # "short" /\ task[t].pc # "fill"

LEMMA ShortFreeInit == Init => ShortFree
  BY TypeInit DEF Init, ShortFree, Nothing, Idle

LEMMA ShortFreeBecomes ==
  ASSUME ShortFree, TypeOK', NEW t \in Tasks, NEW new, Become(t, new),
         new.result # "short", new.pc # "fill",
         disk' = disk, \A s \in Slices : l1'[s] # "short"
  PROVE  ShortFree'
  <1>1. task'[t] = new /\ \A u \in Tasks \ {t} : task'[u] = task[u]
    BY OthersStay DEF ShortFree
  <1> QED
    BY <1>1 DEF ShortFree, Nothing

\* What Goto, Return, Call and the steps of a batch make of a task.
LEMMA ShortFreeMoves ==
  ASSUME ShortFree, NEW t \in Tasks, NEW k, k = task[t]
  PROVE  /\ \A l : l # "fill" => /\ [k EXCEPT !.pc = l].result # "short"
                                 /\ [k EXCEPT !.pc = l].pc # "fill"
         /\ \A r : r # "short" => /\ [k EXCEPT !.pc = "idle", !.result = r].result # "short"
                                  /\ [k EXCEPT !.pc = "idle", !.result = r].pc # "fill"
  BY DEF ShortFree, TypeOK, TaskStates

LEMMA ShortFreeStep ==
  ASSUME ShortFree, ~UseDisk, TypeOK', NEW t \in Tasks, CallStep(t)
  PROVE  ShortFree'
  <1>0. PICK k : k = task[t]
    OBVIOUS
  <1>1. /\ TypeOK /\ k \in TaskStates /\ k.result # "short" /\ k.pc # "fill"
        /\ \A s \in Slices : disk[s] = "absent" /\ l1[s] # "short"
    BY <1>0 DEF ShortFree, TypeOK, Nothing
  <1>2. /\ \A l : l # "fill" /\ Goto(t, l) =>
             \E new : Become(t, new) /\ new.result # "short" /\ new.pc # "fill"
        /\ \A r : r # "short" /\ Return(t, r) =>
             \E new : Become(t, new) /\ new.result # "short" /\ new.pc # "fill"
    <2>1. ASSUME NEW l, l # "fill", Goto(t, l)
          PROVE  \E new : Become(t, new) /\ new.result # "short" /\ new.pc # "fill"
      <3>1. Become(t, [k EXCEPT !.pc = l])
        BY <1>0, <2>1 DEF Goto
      <3>2. [k EXCEPT !.pc = l].result # "short" /\ [k EXCEPT !.pc = l].pc # "fill"
        BY <1>0, <2>1, ShortFreeMoves
      <3> QED
        BY <3>1, <3>2
    <2>2. ASSUME NEW r, r # "short", Return(t, r)
          PROVE  \E new : Become(t, new) /\ new.result # "short" /\ new.pc # "fill"
      <3>1. Become(t, [k EXCEPT !.pc = "idle", !.result = r])
        BY <1>0, <2>2 DEF Return
      <3>2. /\ [k EXCEPT !.pc = "idle", !.result = r].result # "short"
            /\ [k EXCEPT !.pc = "idle", !.result = r].pc # "fill"
        BY <1>0, <2>2, ShortFreeMoves
      <3> QED
        BY <3>1, <3>2
    <2> QED
      BY <2>1, <2>2
  <1>3. DiskWritten(t) => disk' = disk
    BY <1>1 DEF DiskWritten, ShortFree, Nothing
  <1>4. EndFlushInner(t) =>
          \E new : Become(t, new) /\ new.result # "short" /\ new.pc # "fill"
    BY <1>2 DEF EndFlushInner
  <1>5. CASE WalAppend(t) \/ WriteDirty(t)
    <2>1. PICK new : Become(t, new) /\ new.result # "short" /\ new.pc # "fill"
      BY <1>2, <1>5 DEF WalAppend, WriteDirty
    <2>2. disk' = disk /\ \A s \in Slices : l1'[s] # "short"
      BY <1>1, <1>5 DEF WalAppend, WriteDirty, ramVars, ShortFree, TypeOK
    <2> QED
      BY <2>1, <2>2, ShortFreeBecomes
  <1>6. CASE ReadLookup(t)
    <2>1. PICK new : Become(t, new) /\ new.result # "short" /\ new.pc # "fill"
      <3>1. task[t].pc = "rl1" \/ task[t].pc = "rdisk" => Arg(t) \in Slices
        BY <1>1, ArgType DEF TypeOK
      <3>2. /\ task[t].pc = "rl1" /\ l1[Arg(t)] # "absent" => AsResult(l1[Arg(t)]) = "ok"
            /\ task[t].pc = "rdisk" => disk[Arg(t)] = "absent"
        BY <1>1, <3>1 DEF AsResult, TypeOK, Copies
      <3> QED
        BY <1>2, <1>6, <3>2 DEF ReadLookup, At
    <2>2. disk' = disk /\ l1' = l1
      BY <1>6 DEF ReadLookup, tierVars, ramVars
    <2> QED
      BY <1>1, <2>1, <2>2, ShortFreeBecomes
  <1>7. CASE FillL1(t) \/ FillBoth(t) \/ FillDisk(t)
    <2>1. ~FillL1(t)
      BY <1>0, <1>1 DEF FillL1, At
    <2>2. PICK new : Become(t, new) /\ new.result # "short" /\ new.pc # "fill"
      BY <1>2, <1>7, <2>1 DEF FillBoth, FillDisk, DiskCheck
    <2>3. disk' = disk /\ \A s \in Slices : l1'[s] # "short"
      BY <1>1, <1>3, <1>7, <2>1 DEF FillBoth, FillDisk, DiskCheck, ramVars, TypeOK
    <2> QED
      BY <2>2, <2>3, ShortFreeBecomes
  <1>8. CASE DeleteDirty(t) \/ DeleteCopies(t)
    <2>1. PICK new : Become(t, new) /\ new.result # "short" /\ new.pc # "fill"
      BY <1>2, <1>8 DEF DeleteDirty, DeleteCopies
    <2>2. disk' = disk
      <3>1. [disk EXCEPT ![Arg(t)] = "absent"] = disk
        BY DEF ShortFree, Nothing
      <3> QED
        BY <1>8, <3>1 DEF DeleteDirty, DeleteCopies, Tried
    <2>3. \A s \in Slices : l1'[s] # "short"
      BY <1>1, <1>8 DEF DeleteDirty, DeleteCopies, TypeOK
    <2> QED
      BY <2>1, <2>2, <2>3, ShortFreeBecomes
  <1>9. CASE \/ Drain(t) \/ SettleDisk(t) \/ EndSettle(t) \/ ClearWal(t)
             \/ \E i \in Slices : Put(t, i) \/ SettleStored(t, i) \/ SettleFailed(t, i)
    <2>1. disk' = disk /\ l1' = l1
      BY <1>3, <1>9 DEF Drain, SettleDisk, EndSettle, ClearWal, Put, SettleStored, SettleFailed,
         DiskCheck, ramVars
    <2>2. PICK new : Become(t, new) /\ new.result # "short" /\ new.pc # "fill"
      <3>1. CASE \/ SettleDisk(t) \/ EndSettle(t) \/ ClearWal(t)
                 \/ Drain(t) /\ dirty_data = {}
        BY <1>2, <1>4, <3>1 DEF SettleDisk, EndSettle, ClearWal, Drain
      <3>2. CASE Drain(t) /\ dirty_data # {}
        <4> DEFINE b == [s \in Slices |-> IF s \in dirty_data THEN "putting" ELSE "none"]
        <4>1. Become(t, [k EXCEPT !.pc = "flush", !.batch = b])
          BY <1>0, <3>2 DEF Drain
        <4> HIDE DEF b
        <4>2. /\ [k EXCEPT !.pc = "flush", !.batch = b].result # "short"
              /\ [k EXCEPT !.pc = "flush", !.batch = b].pc # "fill"
          BY <1>1 DEF TaskStates
        <4> QED
          BY <4>1, <4>2
      <3>3. ASSUME NEW i \in Slices, Put(t, i) \/ SettleStored(t, i) \/ SettleFailed(t, i)
            PROVE  \E new : Become(t, new) /\ new.result # "short" /\ new.pc # "fill"
        <4>1. ASSUME NEW c
              PROVE  /\ [k EXCEPT !.batch[i] = c].result # "short"
                     /\ [k EXCEPT !.batch[i] = c].pc # "fill"
                     /\ [k EXCEPT !.batch[i] = "none", !.slice = i].result # "short"
                     /\ [k EXCEPT !.batch[i] = "none", !.slice = i].pc # "fill"
                     /\ [k EXCEPT !.batch[i] = "none", !.result = "err"].result # "short"
                     /\ [k EXCEPT !.batch[i] = "none", !.result = "err"].pc # "fill"
          BY <1>1 DEF TaskStates
        <4>2. CASE Put(t, i)
          <5>1. PICK c \in {"stored", "failed"} : Become(t, [k EXCEPT !.batch[i] = c])
            BY <1>0, <4>2 DEF Put
          <5> QED
            BY <4>1, <5>1
        <4>4. CASE SettleFailed(t, i)
          <5>1. Become(t, [k EXCEPT !.batch[i] = "none", !.result = "err"])
            BY <1>0, <4>4 DEF SettleFailed
          <5> QED
            BY <4>1, <5>1
        <4>3. CASE SettleStored(t, i)
          BY <1>0, <4>1, <4>3 DEF SettleStored, DiskCheck
        <4> QED
          BY <3>3, <4>2, <4>3, <4>4
      <3> QED
        BY <1>9, <3>1, <3>2, <3>3
    <2> QED
      BY <1>1, <2>1, <2>2, ShortFreeBecomes
  <1> QED
    BY <1>5, <1>6, <1>7, <1>8, <1>9 DEF CallStep

LEMMA ShortFreeNext ==
  ASSUME ShortFree, ~UseDisk, [Next]_vars
  PROVE  ShortFree'
  <1>0. TypeOK /\ TypeOK'
    BY TypeNext DEF ShortFree
  <1>1. ASSUME NEW t \in Tasks, StartCall(t) PROVE ShortFree'
    <2>1. PICK l, s : Call(t, l, s) /\ l \in {"wal", "rdirty", "ddirty", "drain"}
      BY <1>1 DEF StartCall, StartWrite, StartRead, StartDelete, StartFlush
    <2>2. UNCHANGED <<disk, l1>>
      BY <1>1 DEF StartCall, StartWrite, StartRead, StartDelete, StartFlush, tierVars, ramVars
    <2>3. /\ [Idle EXCEPT !.pc = l, !.slice = s].result # "short"
          /\ [Idle EXCEPT !.pc = l, !.slice = s].pc # "fill"
      BY <2>1 DEF Idle
    <2> QED
      BY <1>0, <2>1, <2>2, <2>3, ShortFreeBecomes DEF Call, ShortFree
  <1>2. CASE Crash
    <2>1. \A t \in Tasks : task'[t] = Idle
      BY <1>2 DEF Crash
    <2> QED
      BY <1>0, <1>2, <2>1 DEF Crash, ShortFree, Nothing, Idle
  <1>3. ASSUME NEW t \in Tasks, ReplayWal(t) PROVE ShortFree'
    <2>1. disk' = disk /\ \A s \in Slices : l1'[s] # "short"
      BY <1>3 DEF ReplayWal, ShortFree
    <2>2. CASE task' = task
      BY <1>0, <2>1, <2>2 DEF ShortFree
    <2>3. CASE Goto(t, "drain")
      <3>1. PICK k : k = task[t]
        OBVIOUS
      <3> QED
        BY <1>0, <2>1, <2>3, <3>1, ShortFreeMoves, ShortFreeBecomes DEF Goto
    <2> QED
      BY <1>3, <2>2, <2>3 DEF ReplayWal
  <1>4. CASE Notified \/ UNCHANGED vars \/ \E s \in Slices : Evict(s)
    BY <1>0, <1>4 DEF Notified, Evict, ShortFree, TypeOK, vars, tierVars, ramVars
  <1>5. ASSUME NEW t \in Tasks, CallStep(t) PROVE ShortFree'
    BY <1>0, <1>5, ShortFreeStep
  <1> QED
    BY <1>1, <1>2, <1>3, <1>4, <1>5 DEF Next, Environment

\* Files keep their content as long as no read of a slice is cut short: what
\* the chunk table shows of a file is what its writes and truncates made it,
\* whatever reads, writes, compactions, flushes, crashes and failures
\* interleave, for any number of inodes, blocks and tasks (vfs.rs:103-310).
THEOREM FilesKeepContent == VfsSpec /\ []NoShort => [](ContentKept /\ ReadsContent)
  <1>1. VfsInit => ContentInv
    BY ContentInit
  <1>2. ContentInv /\ NoShort /\ [VfsNext]_allVars => ContentInv'
    BY ContentNext
  <1>3. ContentInv => ContentKept /\ ReadsContent
    BY ContentHolds
  <1> QED
    BY <1>1, <1>2, <1>3, PTL DEF VfsSpec

\* Without a disk tier nothing is ever read short (cache.rs:97-133, 219-242).
LEMMA NoDiskNoShort == ~UseDisk => (VfsSpec => []NoShort)
  <1> SUFFICES ASSUME ~UseDisk PROVE VfsSpec => []NoShort
    OBVIOUS
  <1>1. Init => ShortFree
    BY ShortFreeInit
  <1>2. ShortFree /\ [Next]_vars => ShortFree'
    BY ShortFreeNext
  <1>3. ShortFree => NoShort
    BY DEF ShortFree, NoShort
  <1> QED
    BY <1>1, <1>2, <1>3, CacheUnderVfs, PTL DEF Spec

\* Compaction is invisible in the chunk table (vfs.rs:254-310): without a disk
\* tier, nothing else is needed.
THEOREM TableKeepsContent == ~UseDisk => (VfsSpec => []ContentKept)
  BY FilesKeepContent, NoDiskNoShort, PTL

\* Nor does a read see it: the bytes read assembles from its list of slices are
\* the file's (vfs.rs:103-152).
THEOREM ReadsReturnContent == ~UseDisk => (VfsSpec => []ReadsContent)
  BY FilesKeepContent, NoDiskNoShort, PTL

=============================================================================
