------------------------------ MODULE PosixVfs ------------------------------
(***************************************************************************)
(* File data in the posix mode (oxfs-posix/src/vfs.rs, fuse.rs): the FUSE  *)
(* thread reads, writes and fsyncs while the background flusher and the    *)
(* tasks spawned by release compact and flush, all over one TieredCache.   *)
(*                                                                         *)
(* An inode has a size and one chunk, a list of slices, both in the        *)
(* metadata database; a chunk is a row of blocks, and what a slice says of *)
(* a block is the write the bytes come from.  The namespace is modelled    *)
(* elsewhere.                                                              *)
(***************************************************************************)
EXTENDS TieredCache, Sequences

CONSTANTS
    Inodes, NoInode,
    ChunkBlocks,   \* the number of blocks in a chunk
    Fuse,          \* the FUSE thread, which handles one request at a time
    Flushers,      \* the background flusher, if it runs
    Workers,       \* tasks that run what release spawns
    MaxChanges,    \* bound: writes and truncates in a behaviour
    MetaFails      \* may a metadata operation return an error?

ASSUME TasksAssumption == Tasks = {Fuse} \cup Flushers \cup Workers
ASSUME SlicesAssumption == Slices \subseteq Nat \ {0}
ASSUME ChunkBlocksAssumption == ChunkBlocks \in Nat
ASSUME NoInodeAssumption == NoInode \notin Inodes
ASSUME MetaFailsAssumption == MetaFails \in BOOLEAN
ASSUME MaxChangesAssumption == MaxChanges \in Nat

VARIABLES
    vfs,           \* the operation each task is in
    size,          \* the size of each inode, in blocks
    chunks,        \* the chunk table: the slices of each inode, oldest first
    dirty_inodes,
    todo,          \* inodes the flusher has drained and not handled yet
    releases       \* inodes with a compaction spawned by release

\* History: what each slice says of each block, the content writes gave each
\* file, the writes that hit the file while a compaction had its chunk read,
\* the blocks whose bytes a truncate cut off, or a write that failed put there.
VARIABLES data, file, raced, uncut, changes

cacheVars == vars
metaVars == <<size, chunks>>
history == <<data, file, raced, uncut, changes>>
vfsVars == <<vfs, metaVars, dirty_inodes, todo, releases, history>>
allVars == <<vars, vfsVars>>

-----------------------------------------------------------------------------
\* NoSlice: no write covers the block, it reads as zeros.
Blocks == 1..ChunkBlocks
Contents == [Blocks -> Slices \cup {NoSlice}]
Zeros == [b \in Blocks |-> NoSlice]

\* seen: the slice list read from the chunk table; k: how many the loop has
\* handled; buf: the bytes assembled.
VfsStates == [pc : {"idle", "wid", "wmeta", "wsize", "rnext", "rgot", "sleep", "clock",
                    "cread", "cgot", "creplace", "cdelete", "cflush"},
              ino : Inodes \cup {NoInode}, seen : Seq(Slices), k : Nat, buf : Contents]
Rest == [pc |-> "idle", ino |-> NoInode, seen |-> <<>>, k |-> 0, buf |-> Zeros]

VfsTypeOK ==
    /\ TypeOK
    /\ vfs \in [Tasks -> VfsStates]
    /\ size \in [Inodes -> 0..ChunkBlocks]
    /\ chunks \in [Inodes -> Seq(Slices)]
    /\ {dirty_inodes, todo, releases} \subseteq SUBSET Inodes
    /\ data \in [Slices -> Contents]
    /\ file \in [Inodes -> Contents]
    /\ raced \subseteq Slices
    /\ uncut \in [Inodes -> SUBSET Blocks] /\ changes \in 0..MaxChanges

VfsInit ==
    /\ Init
    /\ vfs = [t \in Tasks |-> Rest]
    /\ size = [i \in Inodes |-> 0] /\ chunks = [i \in Inodes |-> <<>>]
    /\ dirty_inodes = {} /\ todo = {} /\ releases = {}
    /\ data = [s \in Slices |-> Zeros]
    /\ file = [i \in Inodes |-> Zeros]
    /\ raced = {} /\ uncut = [i \in Inodes |-> {}] /\ changes = 0

\* Task t is at l and the cache call it made, if any, has returned.
VfsAt(t, l) == vfs[t].pc = l /\ At(t, "idle") /\ serving
VfsGoto(t, new) == vfs' = [vfs EXCEPT ![t] = new]
Ino(t) == vfs[t].ino
Got(t) == task[t].result \in {"ok", "short"}

\* The operation returns; the flusher marks an inode it failed on as dirty.
Finish(t, ok) ==
    /\ VfsGoto(t, Rest)
    /\ dirty_inodes' = IF ~ok /\ t \in Flushers THEN dirty_inodes \cup {Ino(t)}
                                                ELSE dirty_inodes

\* Mutant: only the blocks the new slice covers are kept.
OverBare(old, new, got) == [b \in {c \in got : new[c] # NoSlice} |-> new[b]]

\* old overlaid by what new says of the blocks in got.
Over(old, new, got) ==
    [b \in Blocks |-> IF b \in got /\ new[b] # NoSlice THEN new[b] ELSE old[b]]

\* The content the chunk table gives a file: the last slice that covers a
\* block wins.
Content(i) ==
    [b \in Blocks |->
        LET on == {k \in DOMAIN chunks[i] : data[chunks[i][k]][b] # NoSlice}
        IN IF on = {} THEN NoSlice
           ELSE data[chunks[i][CHOOSE k \in on : \A j \in on : j <= k]][b]]

\* A metadata operation fails, and with it the operation of task t.
MetaError(t) == MetaFails /\ Finish(t, FALSE) /\ UNCHANGED <<cacheVars, metaVars, history>>

-----------------------------------------------------------------------------
(* write: mark the inode, get an id, hand the slice to the cache, append   *)
(* it to the chunk, then let the size grow.                                *)

\* next_slice_id: a counter in the metadata database.
NextSlice == Cardinality(issued) + 1

Changed == changes < MaxChanges /\ changes' = changes + 1

Write(i) ==
    /\ VfsAt(Fuse, "idle")
    /\ VfsGoto(Fuse, [Rest EXCEPT !.pc = "wid", !.ino = i])
    /\ dirty_inodes' = dirty_inodes \cup {i}
    /\ Changed
    /\ UNCHANGED <<cacheVars, metaVars, todo, releases, data, file, raced, uncut>>

WriteSlice ==
    /\ VfsAt(Fuse, "wid")
    /\ \/ /\ NextSlice \in Slices /\ StartWrite(Fuse, NextSlice)
          /\ \E first \in Blocks : \E last \in first..ChunkBlocks :
               data' = [data EXCEPT ![NextSlice] =
                          [b \in Blocks |-> IF b \in first..last THEN NextSlice ELSE NoSlice]]
          /\ VfsGoto(Fuse, [vfs[Fuse] EXCEPT !.pc = "wmeta"])
          /\ UNCHANGED <<metaVars, dirty_inodes, file, raced, uncut, changes>>
       \/ MetaError(Fuse)
    /\ UNCHANGED <<todo, releases>>

\* A compaction of i that has read the chunk and not replaced it yet.
Merging(i) == \E t \in Tasks : /\ Ino(t) = i
                               /\ vfs[t].pc \in {"cread", "cgot", "creplace"}

Covered(s) == {b \in Blocks : data[s][b] # NoSlice}
Within(i) == 1..size[i]

\* Mutant: the inode is marked again, now that the slice is in the chunk.
MarkLate ==
    /\ VfsAt(Fuse, "wmeta")
    /\ LET i == Ino(Fuse)
           s == Arg(Fuse)
           beyond == Covered(s) \ Within(i)
       IN \/ /\ chunks' = [chunks EXCEPT ![i] = Append(@, s)]
             /\ file' = [file EXCEPT ![i] = Over(@, data[s], Within(i))]
             /\ uncut' = [uncut EXCEPT ![i] = (@ \ Covered(s)) \cup beyond]
             /\ raced' = IF Merging(i) THEN raced \cup {s} ELSE raced
             /\ dirty_inodes' = dirty_inodes \cup {i}
             /\ VfsGoto(Fuse, IF beyond = {} THEN Rest ELSE [vfs[Fuse] EXCEPT !.pc = "wsize"])
             /\ UNCHANGED <<cacheVars, size, data, changes>>
          \/ MetaError(Fuse)
    /\ UNCHANGED <<todo, releases>>

\* A write within the file ends here.
WriteMeta ==
    /\ VfsAt(Fuse, "wmeta")
    /\ LET i == Ino(Fuse)
           s == Arg(Fuse)
           beyond == Covered(s) \ Within(i)
       IN \/ /\ chunks' = [chunks EXCEPT ![i] = Append(@, s)]
             /\ file' = [file EXCEPT ![i] = Over(@, data[s], Within(i))]
             /\ uncut' = [uncut EXCEPT ![i] = (@ \ Covered(s)) \cup beyond]
             /\ raced' = IF Merging(i) THEN raced \cup {s} ELSE raced
             /\ IF beyond = {} THEN Finish(Fuse, TRUE)
                ELSE VfsGoto(Fuse, [vfs[Fuse] EXCEPT !.pc = "wsize"]) /\ UNCHANGED dirty_inodes
             /\ UNCHANGED <<cacheVars, size, data, changes>>
          \/ MetaError(Fuse)
    /\ UNCHANGED <<todo, releases>>

\* Only the FUSE thread changes sizes: the one the write began with still holds.
WriteSize ==
    /\ VfsAt(Fuse, "wsize")
    /\ LET i == Ino(Fuse)
           s == Arg(Fuse)
       IN \/ /\ size' = [size EXCEPT ![i] = CHOOSE b \in Covered(s) : b + 1 \notin Covered(s)]
             /\ file' = [file EXCEPT ![i] = Over(@, data[s], Blocks)]
             /\ uncut' = [uncut EXCEPT ![i] = @ \ Covered(s)]
             /\ Finish(Fuse, TRUE)
             /\ UNCHANGED <<cacheVars, chunks, data, raced, changes>>
          \/ MetaError(Fuse)
    /\ UNCHANGED <<todo, releases>>

\* setattr with a size: the slices stay as they are, whatever the size.
Truncate(i, n) ==
    /\ VfsAt(Fuse, "idle") /\ Changed
    /\ \/ /\ size' = [size EXCEPT ![i] = n]
          /\ file' = [file EXCEPT ![i] = [b \in Blocks |-> IF b <= n THEN @[b] ELSE NoSlice]]
          /\ uncut' = [uncut EXCEPT ![i] = @ \cup {b \in Blocks : b > n /\ Content(i)[b] # NoSlice}]
       \/ MetaFails /\ UNCHANGED <<size, file, uncut>>
    /\ UNCHANGED <<cacheVars, vfs, chunks, dirty_inodes, todo, releases, data, raced>>

-----------------------------------------------------------------------------
(* The loop over a slice list that read and compact_and_flush share: read  *)
(* each slice from the cache, copy it over what the earlier ones gave.     *)

\* Mutant: the slices are read newest first.
ReadNewestFirst(t, from, to) ==
    /\ VfsAt(t, from) /\ vfs[t].k < Len(vfs[t].seen)
    /\ StartRead(t, vfs[t].seen[Len(vfs[t].seen) - vfs[t].k])
    /\ VfsGoto(t, [vfs[t] EXCEPT !.pc = to, !.k = @ + 1])
    /\ UNCHANGED <<metaVars, dirty_inodes, todo, releases, history>>

ReadSlice(t, from, to) ==
    /\ VfsAt(t, from) /\ vfs[t].k < Len(vfs[t].seen)
    /\ StartRead(t, vfs[t].seen[vfs[t].k + 1])
    /\ VfsGoto(t, [vfs[t] EXCEPT !.pc = to, !.k = @ + 1])
    /\ UNCHANGED <<metaVars, dirty_inodes, todo, releases, history>>

\* Mutant: what is in the buffer already is kept.
CopyUnder(t, from, to) ==
    /\ VfsAt(t, from)
    /\ IF Got(t)
       THEN /\ VfsGoto(t, [vfs[t] EXCEPT !.pc = to, !.buf = Over(data[Arg(t)], @, Blocks)])
            /\ UNCHANGED dirty_inodes
       ELSE Finish(t, FALSE)
    /\ UNCHANGED <<cacheVars, metaVars, todo, releases, history>>

CopySlice(t, from, to) ==
    /\ VfsAt(t, from)
    /\ IF Got(t)
       THEN /\ \E got \in IF task[t].result = "ok" THEN {Blocks} ELSE SUBSET Blocks :
                 VfsGoto(t, [vfs[t] EXCEPT !.pc = to, !.buf = Over(@, data[Arg(t)], got)])
            /\ UNCHANGED dirty_inodes
       ELSE Finish(t, FALSE)
    /\ UNCHANGED <<cacheVars, metaVars, todo, releases, history>>

Read(i) ==
    /\ VfsAt(Fuse, "idle")
    /\ VfsGoto(Fuse, [Rest EXCEPT !.pc = "rnext", !.ino = i, !.seen = chunks[i]])
    /\ UNCHANGED <<cacheVars, metaVars, dirty_inodes, todo, releases, history>>

\* The bytes go back to the application.
ReadReturns ==
    /\ VfsAt(Fuse, "rnext") /\ vfs[Fuse].k = Len(vfs[Fuse].seen)
    /\ Finish(Fuse, TRUE)
    /\ UNCHANGED <<cacheVars, metaVars, todo, releases, history>>

-----------------------------------------------------------------------------
(* compact_and_flush: under the inode's lock, merge a chunk of two slices  *)
(* or more into one, swap it in, delete the old slices, flush.             *)

Compact(t, i) == VfsAt(t, "idle") /\ VfsGoto(t, [Rest EXCEPT !.pc = "clock", !.ino = i])

Fsync(i) ==
    /\ Compact(Fuse, i)
    /\ UNCHANGED <<cacheVars, metaVars, dirty_inodes, todo, releases, history>>

\* release answers at once and spawns the compaction, whose error nobody sees.
Release(i) ==
    /\ VfsAt(Fuse, "idle")
    /\ releases' = releases \cup {i}
    /\ UNCHANGED <<cacheVars, vfs, metaVars, dirty_inodes, todo, history>>

RunRelease(t, i) ==
    /\ t \in Workers /\ i \in releases /\ Compact(t, i)
    /\ releases' = releases \ {i}
    /\ UNCHANGED <<cacheVars, metaVars, dirty_inodes, todo, history>>

\* The flusher: wait for a permit, sleep, drain the marks, handle each inode.
FlusherWakes(t) ==
    /\ t \in Flushers /\ VfsAt(t, "idle") /\ todo = {}
    /\ Notified
    /\ VfsGoto(t, [Rest EXCEPT !.pc = "sleep"])
    /\ UNCHANGED <<metaVars, dirty_inodes, todo, releases, history>>

FlusherDrains(t) ==
    /\ VfsAt(t, "sleep") /\ VfsGoto(t, Rest)
    /\ todo' = dirty_inodes /\ dirty_inodes' = {}
    /\ UNCHANGED <<cacheVars, metaVars, releases, history>>

FlusherCompacts(t, i) ==
    /\ t \in Flushers /\ i \in todo /\ Compact(t, i)
    /\ todo' = todo \ {i}
    /\ UNCHANGED <<cacheVars, metaVars, dirty_inodes, releases, history>>

\* Mutant: the lock is let go once the chunk is replaced.
LockedForMerge(i) == \E t \in Tasks : /\ Ino(t) = i
                                      /\ vfs[t].pc \in {"cread", "cgot", "creplace"}

Locked(i) == \E t \in Tasks : /\ Ino(t) = i
                              /\ vfs[t].pc \in {"cread", "cgot", "creplace", "cdelete", "cflush"}

\* Mutant: with nothing to merge, return without flushing.
ReturnEarly(t) ==
    /\ VfsAt(t, "clock") /\ ~Locked(Ino(t))
    /\ dirty_inodes' = dirty_inodes \ {Ino(t)}
    /\ VfsGoto(t, IF Len(chunks[Ino(t)]) > 1
                  THEN [vfs[t] EXCEPT !.pc = "cread", !.seen = chunks[Ino(t)]]
                  ELSE Rest)
    /\ UNCHANGED <<cacheVars, metaVars, todo, releases, history>>

\* Take the lock, drop the mark, read the chunk: nothing the other tasks see
\* separates the three.
LockAndList(t) ==
    /\ VfsAt(t, "clock") /\ ~Locked(Ino(t))
    /\ dirty_inodes' = dirty_inodes \ {Ino(t)}
    /\ VfsGoto(t, IF Len(chunks[Ino(t)]) > 1
                  THEN [vfs[t] EXCEPT !.pc = "cread", !.seen = chunks[Ino(t)]]
                  ELSE [vfs[t] EXCEPT !.pc = "cdelete"])
    /\ UNCHANGED <<cacheVars, metaVars, todo, releases, history>>

ListFails(t) ==
    /\ VfsAt(t, "clock") /\ ~Locked(Ino(t))
    /\ MetaFails /\ VfsGoto(t, Rest)
    /\ dirty_inodes' = IF t \in Flushers THEN dirty_inodes \cup {Ino(t)}
                                         ELSE dirty_inodes \ {Ino(t)}
    /\ UNCHANGED <<cacheVars, metaVars, todo, releases, history>>

WriteMerged(t) ==
    /\ VfsAt(t, "cread") /\ vfs[t].k = Len(vfs[t].seen)
    /\ \/ /\ NextSlice \in Slices /\ StartWrite(t, NextSlice)
          /\ data' = [data EXCEPT ![NextSlice] = vfs[t].buf]
          /\ VfsGoto(t, [vfs[t] EXCEPT !.pc = "creplace"])
          /\ UNCHANGED <<metaVars, dirty_inodes, file, raced, uncut, changes>>
       \/ MetaError(t)
    /\ UNCHANGED <<todo, releases>>

\* Mutant: the merged slice joins the old ones.
AppendMerged(t) ==
    /\ VfsAt(t, "creplace")
    /\ \/ /\ chunks' = [chunks EXCEPT ![Ino(t)] = Append(@, Arg(t))]
          /\ VfsGoto(t, [vfs[t] EXCEPT !.pc = "cdelete", !.k = 0])
          /\ UNCHANGED <<cacheVars, size, dirty_inodes, history>>
       \/ MetaError(t)
    /\ UNCHANGED <<todo, releases>>

\* The chunk becomes the merged slice, whatever it holds by now.
ReplaceSlices(t) ==
    /\ VfsAt(t, "creplace")
    /\ \/ /\ chunks' = [chunks EXCEPT ![Ino(t)] = <<Arg(t)>>]
          /\ VfsGoto(t, [vfs[t] EXCEPT !.pc = "cdelete", !.k = 0])
          /\ UNCHANGED <<cacheVars, size, dirty_inodes, history>>
       \/ MetaError(t)
    /\ UNCHANGED <<todo, releases>>

DeleteOld(t) ==
    /\ VfsAt(t, "cdelete") /\ vfs[t].k < Len(vfs[t].seen)
    /\ StartDelete(t, vfs[t].seen[vfs[t].k + 1])
    /\ VfsGoto(t, [vfs[t] EXCEPT !.k = @ + 1])
    /\ UNCHANGED <<metaVars, dirty_inodes, todo, releases, history>>

FlushAll(t) ==
    /\ VfsAt(t, "cdelete") /\ vfs[t].k = Len(vfs[t].seen)
    /\ StartFlush(t)
    /\ VfsGoto(t, [vfs[t] EXCEPT !.pc = "cflush"])
    /\ UNCHANGED <<metaVars, dirty_inodes, todo, releases, history>>

CompactReturns(t) ==
    /\ VfsAt(t, "cflush") /\ Finish(t, task[t].result = "ok")
    /\ UNCHANGED <<cacheVars, metaVars, todo, releases, history>>

-----------------------------------------------------------------------------
(* The metadata database survives a crash; everything else starts anew.    *)

VfsCrash ==
    /\ Crash
    /\ vfs' = [t \in Tasks |-> Rest]
    /\ dirty_inodes' = {} /\ todo' = {} /\ releases' = {}
    /\ UNCHANGED <<metaVars, history>>

\* Steps of the cache itself.
CacheStep ==
    /\ \/ \E t \in Tasks : CallStep(t) \/ ReplayWal(t)
       \/ \E s \in Slices : Evict(s)
    /\ UNCHANGED vfsVars

\* A request from the kernel.
Request == \E i \in Inodes :
    \/ Write(i) \/ Read(i) \/ Fsync(i) \/ Release(i)
    \/ \E n \in 0..ChunkBlocks : Truncate(i, n)

\* An operation that has started goes on.
OpStep(t) ==
    \/ t = Fuse /\ (WriteSlice \/ WriteMeta \/ WriteSize \/ ReadReturns)
    \/ ReadSlice(t, "rnext", "rgot") \/ CopySlice(t, "rgot", "rnext")
    \/ ReadSlice(t, "cread", "cgot") \/ CopySlice(t, "cgot", "cread")
    \/ LockAndList(t) \/ ListFails(t) \/ WriteMerged(t) \/ ReplaceSlices(t)
    \/ DeleteOld(t) \/ FlushAll(t) \/ CompactReturns(t)
Background(t) ==
    \/ FlusherWakes(t) \/ FlusherDrains(t)
    \/ \E i \in Inodes : RunRelease(t, i) \/ FlusherCompacts(t, i)

VfsNext ==
    \/ Request \/ CacheStep \/ VfsCrash
    \/ \E t \in Tasks : OpStep(t) \/ Background(t)

VfsSpec == VfsInit /\ [][VfsNext]_allVars

-----------------------------------------------------------------------------
(* What the data path promises.                                            *)

\* What the calls tell of block b of file i is in the table: but for writes that
\* hit the chunk while a compaction had it read (vfs.rs:266-299), and for bytes
\* that truncate, or a write that failed before the size grew, left beyond the
\* size (vfs.rs:189-194, redb_engine.rs:300).
Told(i, b) == file[i][b] \notin raced /\ b \notin uncut[i]

\* Compaction is invisible: with these exceptions a file reads, up to its size,
\* as its writes and truncates made it, in order.
ContentKept ==
    \A i \in Inodes : \A b \in Within(i) : Told(i, b) => Content(i)[b] = file[i][b]

\* What read hands to the application is the content of the file, with the same
\* exceptions, however compactions interleave with it (vfs.rs:103-152).
ReadsContent ==
    VfsAt(Fuse, "rnext") /\ vfs[Fuse].k = Len(vfs[Fuse].seen) =>
        LET i == Ino(Fuse)
        IN \A b \in Within(i) : Told(i, b) => vfs[Fuse].buf[b] = file[i][b]

\* No slice the chunk table refers to has been deleted: compactions of one
\* inode exclude each other, and replace before they delete (vfs.rs:262-305).
RefsNotDeleted ==
    \A i \in Inodes : \A k \in DOMAIN chunks[i] : chunks[i][k] \in written \ deleted

\* When fsync answers Ok, every slice of the file is in the object store, but
\* those an earlier crash has lost: the flush at the end of a compaction leaves
\* nothing of it behind (vfs.rs:307-308, fuse.rs:470-471).
FsyncStores ==
    VfsAt(Fuse, "cflush") /\ task[Fuse].result = "ok" =>
        \A k \in DOMAIN chunks[Ino(Fuse)] : chunks[Ino(Fuse)][k] \in inner \cup lost

-----------------------------------------------------------------------------
(* Liveness.  Tasks that can go on do, and the mutex of an inode is a queue *)
(* (tokio's is FIFO).  Nothing is assumed of what applications ask for.    *)

Progress(t) == \/ (CallStep(t) \/ ReplayWal(t)) /\ UNCHANGED vfsVars
               \/ OpStep(t) \/ Background(t)

FairVfsSpec ==
    /\ VfsSpec
    /\ \A t \in Tasks : WF_allVars(Progress(t)) /\ SF_allVars(LockAndList(t))

InTable(i, s) == \E k \in DOMAIN chunks[i] : chunks[i][k] = s

\* While nothing fails, what is in a file when it is released gets to the store,
\* or is merged into another slice and deleted: the compaction that release spawns
\* stores it whoever else compacts, flushes or writes the file meanwhile, and also
\* if the flusher, woken before the slice was there, has missed it
\* (fuse.rs:443-447, vfs.rs:262-309).
ReleasedStored ==
    \A i \in Inodes, s \in Slices :
        i \in releases /\ InTable(i, s) ~> s \in inner \cup deleted

\* While nothing fails, a marked inode is not forgotten, released or not: a write
\* marks it before the slice wakes the flusher, so that whoever takes the mark
\* flushes what the file holds by then (vfs.rs:54-70, vfs.rs:161, cache.rs:249-250).
MarkedStored ==
    \A i \in Inodes, s \in Slices :
        i \in dirty_inodes /\ InTable(i, s) ~> s \in inner \cup deleted

=============================================================================
