--------------------------- MODULE PosixVfsProofs ---------------------------
(***************************************************************************)
(* The data path uses its cache as the cache expects to be used: every     *)
(* step of PosixVfs is a step of TieredCache or leaves the cache alone, so *)
(* what is proved of the cache holds under the vfs.                        *)
(***************************************************************************)
EXTENDS PosixVfs, TieredCacheProofs

\* A call of the cache is a step of Next.
LEMMA CallsAreSteps ==
  ASSUME NEW t \in Tasks, NEW s \in Slices,
         StartWrite(t, s) \/ StartRead(t, s) \/ StartDelete(t, s) \/ StartFlush(t)
  PROVE  Next
  BY DEF Next, StartCall

LEMMA OpStepIsCacheStep ==
  ASSUME TypeOK, NEW t \in Tasks, OpStep(t)
  PROVE  [Next]_vars
  <1>1. ASSUME NEW l, NEW k, ReadSlice(t, l, k) PROVE Next
    <2>1. PICK s : s \in written /\ StartRead(t, s)
      BY <1>1 DEF ReadSlice, StartRead
    <2> QED
      BY <2>1, CallsAreSteps DEF TypeOK
  <1>2. ASSUME NEW l, NEW k, CopySlice(t, l, k) PROVE UNCHANGED vars
    BY <1>2 DEF CopySlice, cacheVars
  <1>3. CASE t = Fuse /\ (WriteSlice \/ WriteMeta \/ WriteSize \/ ReadReturns)
    <2>1. CASE WriteSlice
      BY <1>3, <2>1, CallsAreSteps DEF WriteSlice, MetaError, cacheVars
    <2>2. CASE WriteMeta \/ WriteSize
      BY <2>2 DEF WriteMeta, WriteSize, MetaError, cacheVars
    <2>3. CASE ReadReturns
      BY <2>3 DEF ReadReturns, cacheVars
    <2> QED
      BY <1>3, <2>1, <2>2, <2>3
  <1>4. CASE LockAndList(t) \/ ListFails(t) \/ ReplaceSlices(t) \/ CompactReturns(t)
    BY <1>4 DEF LockAndList, ListFails, ReplaceSlices, CompactReturns, MetaError, cacheVars
  <1>5. CASE WriteMerged(t)
    BY <1>5, CallsAreSteps DEF WriteMerged, MetaError, cacheVars
  <1>6. CASE DeleteOld(t)
    <2>1. PICK s : s \in written /\ StartDelete(t, s)
      BY <1>6 DEF DeleteOld, StartDelete
    <2> QED
      BY <2>1, CallsAreSteps DEF TypeOK
  <1>7. CASE FlushAll(t)
    BY <1>7 DEF FlushAll, Next, StartCall
  <1> QED
    BY <1>1, <1>2, <1>3, <1>4, <1>5, <1>6, <1>7 DEF OpStep

LEMMA BackgroundIsCacheStep ==
  ASSUME NEW t \in Tasks, Background(t)
  PROVE  [Next]_vars
  BY DEF Background, FlusherWakes, FlusherDrains, RunRelease, FlusherCompacts, Next,
         Environment, cacheVars

LEMMA VfsStepIsCacheStep ==
  ASSUME TypeOK, [VfsNext]_allVars
  PROVE  [Next]_vars
  <1>1. CASE Request
    BY <1>1 DEF Request, Write, Read, Fsync, Release, Truncate, cacheVars
  <1>2. CASE CacheStep
    BY <1>2 DEF CacheStep, Next, Environment
  <1>3. CASE VfsCrash
    BY <1>3 DEF VfsCrash, Next, Environment
  <1>4. ASSUME NEW t \in Tasks, OpStep(t) \/ Background(t) PROVE [Next]_vars
    BY <1>4, OpStepIsCacheStep, BackgroundIsCacheStep
  <1>5. CASE UNCHANGED allVars
    BY <1>5 DEF allVars
  <1> QED
    BY <1>1, <1>2, <1>3, <1>4, <1>5 DEF VfsNext

\* The cache under the vfs behaves as TieredCache says: the write, read,
\* compaction, release and flusher code calls it one call at a time per task,
\* on slices it has written (vfs.rs:51-310).
THEOREM CacheUnderVfs == VfsSpec => Spec
  <1>1. VfsInit => Init /\ TypeOK
    BY TypeInit DEF VfsInit
  <1>2. TypeOK /\ [VfsNext]_allVars => TypeOK' /\ [Next]_vars
    BY VfsStepIsCacheStep, TypeNext
  <1> QED
    BY <1>1, <1>2, PTL DEF VfsSpec, Spec

\* Hence no slice a file is made of is lost while the mount runs, whatever
\* reads, writes, compactions and flushes interleave and whatever fails.
THEOREM NothingLostUnderVfs == VfsSpec => []NoSliceLost
  BY CacheUnderVfs, NothingLost, PTL

-----------------------------------------------------------------------------
(* The vfs is well typed.  The strengthening says which call of the cache  *)
(* a task is in, and on what slice, at each place of its operation.        *)

WritePcs == {"wal", "dirty"}
DeletePcs == {"ddirty", "dl1", "ddisk", "dinner"}

\* A slice that has been handed to the cache and is in no chunk yet.
Pending(t) == vfs[t].pc \in {"wmeta", "creplace"}
Merges(t) == vfs[t].pc \in {"cread", "cgot", "creplace"}
Holds(t) == Merges(t) \/ vfs[t].pc \in {"cdelete", "cflush"}
Reads(t) == vfs[t].pc \in {"rnext", "rgot"}

\* The slice the loop of t is at.
Current(t) == vfs[t].k \in 1..Len(vfs[t].seen) /\ Arg(t) = vfs[t].seen[vfs[t].k]

WriteCall(t) ==
    /\ Pending(t) => /\ task[t].pc \in WritePcs \cup {"idle"} /\ Arg(t) \in issued
                     /\ At(t, "idle") => Arg(t) \in written
    /\ vfs[t].pc = "wsize" => At(t, "idle") /\ Arg(t) \in written
    /\ vfs[t].pc \in {"wmeta", "wsize"} =>
         \E first \in Blocks : \E last \in first..ChunkBlocks :
            Covered(Arg(t)) = first..last

LoopCall(t) ==
    /\ vfs[t].k <= Len(vfs[t].seen)
    /\ vfs[t].pc \in {"rgot", "cgot"} => task[t].pc \in ReadPcs \cup {"idle"} /\ Current(t)
    /\ vfs[t].pc = "cdelete" => /\ task[t].pc \in DeletePcs \cup {"idle"}
                                /\ ~At(t, "idle") => Current(t)
    /\ vfs[t].pc = "creplace" => vfs[t].k = Len(vfs[t].seen)
    /\ vfs[t].pc = "cflush" => task[t].pc \in FlushPcs \cup {"idle"}
    /\ vfs[t].pc = "clock" => vfs[t].seen = <<>> /\ vfs[t].k = 0 /\ vfs[t].buf = Zeros

RestCall(t) ==
    /\ vfs[t].pc \in {"wid", "rnext", "sleep", "clock", "cread"} => At(t, "idle")
    /\ vfs[t].pc = "idle" /\ serving => At(t, "idle")
    /\ ~serving => vfs[t].pc = "idle"
    /\ vfs[t].pc \notin {"idle", "sleep"} => Ino(t) \in Inodes
    /\ vfs[t].pc \in {"wid", "wmeta", "wsize"} \/ Reads(t) => t = Fuse

CallOK(t) == WriteCall(t) /\ LoopCall(t) /\ RestCall(t)

CallInv ==
    /\ KeptInv /\ VfsTypeOK
    /\ written \subseteq issued
    /\ \A t \in Tasks : task[t].pc \in WritePcs => Arg(t) \in issued
    /\ ~serving => \A t, u \in Tasks : t = u \/ At(t, "idle") \/ At(u, "idle")
    /\ \A t \in Tasks : CallOK(t)

\* A step of t alone: what holds of the calls of the others stays.
Steady(t) ==
    /\ serving /\ serving'
    /\ \A u \in Tasks \ {t} : vfs'[u] = vfs[u] /\ task'[u] = task[u]
    /\ issued \subseteq issued' /\ written \subseteq written'
    /\ \A s \in issued : data'[s] = data[s]

\* What a cache step of task t does to its call.
GoesOn(t) ==
    /\ \A u \in Tasks \ {t} : task'[u] = task[u]
    /\ issued' = issued
    /\ serving => serving'
    /\ serving' => serving \/ task'[t].pc = "idle"
    /\ task[t].pc \notin FlushPcs => task'[t].slice = task[t].slice
    /\ \/ /\ task[t].pc = "wal" /\ task'[t].pc = "dirty"
          /\ UNCHANGED <<written, deleted>>
       \/ /\ task[t].pc = "dirty" /\ task'[t].pc = "idle"
          /\ written' = written \cup {Arg(t)} /\ deleted' = deleted
       \/ /\ task[t].pc \in ReadPcs /\ task'[t].pc \in ReadPcs \cup {"idle"}
          /\ UNCHANGED <<written, deleted>>
       \/ /\ task[t].pc \in DeletePcs /\ task'[t].pc \in DeletePcs \cup {"idle"}
          /\ written' = written /\ deleted' \subseteq deleted \cup {Arg(t)}
       \/ /\ task[t].pc \in FlushPcs /\ task'[t].pc \in FlushPcs \cup {"idle"}
          /\ UNCHANGED <<written, deleted>>

LEMMA WriteGoesOn ==
  ASSUME KeptInv, NEW t \in Tasks, WalAppend(t) \/ WriteDirty(t)
  PROVE  GoesOn(t)
  <1>1. TypeOK
    BY DEF KeptInv
  <1>2. CASE WalAppend(t)
    <2>1. Moved(t, "dirty")
      BY <1>1, <1>2, GotoMoves DEF WalAppend
    <2> QED
      BY <1>2, <2>1 DEF WalAppend, GoesOn, Moved, At, FlushPcs
  <1>3. CASE WriteDirty(t)
    <2>1. Moved(t, "idle")
      BY <1>1, <1>3, ReturnMoves DEF WriteDirty
    <2> QED
      BY <1>3, <2>1 DEF WriteDirty, GoesOn, Moved, At, FlushPcs
  <1> QED
    BY <1>2, <1>3

LEMMA ReadGoesOn ==
  ASSUME KeptInv, NEW t \in Tasks, ReadLookup(t) \/ FillL1(t) \/ FillBoth(t) \/ FillDisk(t)
  PROVE  GoesOn(t)
  <1>1. PICK l \in {"idle", "rl1", "rdisk", "rinner", "fill", "fillcheck", "filldisk"} :
          Moved(t, l)
    BY ReadMoves DEF KeptInv
  <1>2. task[t].pc \in ReadPcs
    BY DEF ReadLookup, FillL1, FillBoth, FillDisk, At, ReadPcs
  <1>3. UNCHANGED <<issued, written, deleted, serving>>
    BY DEF ReadLookup, FillL1, FillBoth, FillDisk, tierVars, histVars
  <1> QED
    BY <1>1, <1>2, <1>3 DEF GoesOn, Moved, ReadPcs, FlushPcs

LEMMA DeleteGoesOn ==
  ASSUME KeptInv, NEW t \in Tasks, DeleteDirty(t) \/ DeleteCopies(t)
  PROVE  GoesOn(t)
  <1>1. PICK l \in {"idle", "dl1", "ddisk", "dinner"} : Moved(t, l)
    BY GotoMoves, ReturnMoves DEF KeptInv, DeleteDirty, DeleteCopies
  <1>2. task[t].pc \in DeletePcs
    BY DEF DeleteDirty, DeleteCopies, At, DeletePcs
  <1>3. /\ UNCHANGED <<issued, written, serving>>
        /\ deleted' \subseteq deleted \cup {Arg(t)}
    BY DEF DeleteDirty, DeleteCopies, histVars
  <1> QED
    BY <1>1, <1>2, <1>3 DEF GoesOn, Moved, DeletePcs, FlushPcs

\* Where the steps of a flush go.
LEMMA FlushGoesOn ==
  ASSUME KeptInv, NEW t \in Tasks,
         \/ Drain(t) \/ SettleDisk(t) \/ EndSettle(t) \/ ClearWal(t)
         \/ \E i \in Slices : Put(t, i) \/ SettleStored(t, i) \/ SettleFailed(t, i)
  PROVE  GoesOn(t)
  <1>1. TypeOK /\ task[t] \in TaskStates
    BY DEF KeptInv, TypeOK
  <1>2. UNCHANGED <<issued, written, deleted>> /\ task[t].pc \in FlushPcs
    BY DEF Drain, SettleDisk, EndSettle, ClearWal, Put, SettleStored, SettleFailed, Settling,
           At, histVars, FlushPcs
  <1>3. ASSUME EndFlushInner(t)
        PROVE  GoesOn(t)
    <2>1. serving' /\ (Moved(t, "idle") \/ Moved(t, "clear")) /\ (~serving => Moved(t, "idle"))
      BY <1>1, <1>3, EndFlushInnerMoves, ReturnMoves DEF EndFlushInner
    <2> QED
      BY <1>2, <2>1 DEF GoesOn, Moved, FlushPcs
  <1>4. ASSUME NEW new, Become(t, new), new.pc \in FlushPcs, serving' = serving
        PROVE  GoesOn(t)
    BY <1>1, <1>2, <1>4, OthersStay DEF GoesOn
  <1>5. CASE Drain(t)
    <2>1. CASE dirty_data = {}
      BY <1>3, <1>5, <2>1 DEF Drain
    <2>2. CASE dirty_data # {}
      <3> DEFINE b == [s \in Slices |-> IF s \in dirty_data THEN "putting" ELSE "none"]
      <3>1. Become(t, [task[t] EXCEPT !.pc = "flush", !.batch = b]) /\ serving' = serving
        BY <1>5, <2>2 DEF Drain
      <3> HIDE DEF b
      <3>2. [task[t] EXCEPT !.pc = "flush", !.batch = b].pc = "flush"
        BY <1>1 DEF TaskStates
      <3> QED
        BY <1>4, <3>1, <3>2 DEF FlushPcs
    <2> QED
      BY <2>1, <2>2
  <1>6. CASE SettleDisk(t) \/ ClearWal(t)
    <2>1. PICK l \in {"flush", "idle"} : Moved(t, l)
      BY <1>1, <1>6, GotoMoves, ReturnMoves DEF SettleDisk, ClearWal
    <2> QED
      BY <1>2, <1>6, <2>1 DEF GoesOn, Moved, FlushPcs, SettleDisk, ClearWal
  <1>7. CASE EndSettle(t)
    BY <1>3, <1>7 DEF EndSettle
  <1>8. ASSUME NEW i \in Slices, Put(t, i) \/ SettleStored(t, i) \/ SettleFailed(t, i)
        PROVE  GoesOn(t)
    <2>1. task[t].pc = "flush" /\ serving' = serving
      BY <1>8 DEF Put, SettleStored, SettleFailed, Settling, At, tierVars
    <2>2. PICK new : Become(t, new) /\ new.pc \in {"flush", "settledisk"}
      <3>1. ASSUME NEW b, Become(t, [task[t] EXCEPT !.batch[i] = b])
            PROVE  \E new : Become(t, new) /\ new.pc \in {"flush", "settledisk"}
        BY <1>1, <2>1, <3>1 DEF TaskStates
      <3>2. CASE SettleFailed(t, i)
        <4> DEFINE new == [task[t] EXCEPT !.batch[i] = "none", !.result = "err"]
        <4>1. Become(t, new) /\ new.pc = "flush"
          BY <1>1, <2>1, <3>2 DEF TaskStates, SettleFailed
        <4> QED
          BY <4>1
      <3>3. CASE SettleStored(t, i)
        <4> DEFINE settled == [task[t] EXCEPT !.batch[i] = "none", !.slice = i]
        <4>1. Become(t, settled) \/ Become(t, [settled EXCEPT !.pc = "settledisk"])
          BY <3>3 DEF SettleStored, DiskCheck
        <4>2. settled.pc = "flush" /\ [settled EXCEPT !.pc = "settledisk"].pc = "settledisk"
          BY <1>1, <2>1 DEF TaskStates
        <4> QED
          BY <4>1, <4>2
      <3>4. CASE Put(t, i)
        BY <3>1, <3>4 DEF Put
      <3> QED
        BY <1>8, <3>2, <3>3, <3>4
    <2> QED
      BY <1>4, <2>1, <2>2 DEF FlushPcs
  <1> QED
    BY <1>5, <1>6, <1>7, <1>8

LEMMA CallGoesOn ==
  ASSUME KeptInv, NEW t \in Tasks, CallStep(t)
  PROVE  GoesOn(t)
  BY WriteGoesOn, ReadGoesOn, DeleteGoesOn, FlushGoesOn DEF CallStep

-----------------------------------------------------------------------------
(* CallInv is inductive: first what every step of an operation has in      *)
(* common.                                                                 *)

LEMMA FuseTask == Fuse \in Tasks
  BY TasksAssumption

LEMMA ContentTypes ==
  /\ Zeros \in Contents
  /\ \A old, new \in Contents, got \in SUBSET Blocks : Over(old, new, got) \in Contents
  BY DEF Zeros, Contents, Over

LEMMA RestType == Rest \in VfsStates
  BY ContentTypes DEF Rest, VfsStates

LEMMA VfsMoves ==
  ASSUME VfsTypeOK, NEW t \in Tasks, NEW new, VfsGoto(t, new)
  PROVE  /\ vfs'[t] = new /\ \A u \in Tasks \ {t} : vfs'[u] = vfs[u]
         /\ new \in VfsStates => vfs' \in [Tasks -> VfsStates]
  BY DEF VfsGoto, VfsTypeOK

\* A call begins.
Starts(t, l, s) ==
    /\ task'[t].pc = l /\ task'[t].slice = s
    /\ task'[t].batch = NoBatch /\ task'[t].result = "none"
    /\ \A u \in Tasks \ {t} : task'[u] = task[u]
    /\ serving' = serving /\ UNCHANGED <<written, deleted, dirty_data, inner, lost>>

LEMMA CallStarts ==
  ASSUME TypeOK, NEW t \in Tasks
  PROVE  /\ \A s : StartWrite(t, s) => /\ Starts(t, "wal", s) /\ s \notin issued
                                       /\ issued' = issued \cup {s}
         /\ \A s : StartRead(t, s) => /\ Starts(t, "rdirty", s) /\ s \in written
                                      /\ issued' = issued
         /\ \A s : StartDelete(t, s) => /\ Starts(t, "ddirty", s) /\ s \in written
                                        /\ issued' = issued
         /\ StartFlush(t) => Starts(t, "drain", NoSlice) /\ issued' = issued
  <1>1. ASSUME NEW l, NEW s, Call(t, l, s)
        PROVE  /\ task'[t].pc = l /\ task'[t].slice = s
               /\ task'[t].batch = NoBatch /\ task'[t].result = "none"
               /\ \A u \in Tasks \ {t} : task'[u] = task[u]
    <2> DEFINE new == [Idle EXCEPT !.pc = l, !.slice = s]
    <2>1. new.pc = l /\ new.slice = s /\ new.batch = NoBatch /\ new.result = "none"
      BY DEF Idle
    <2>2. Become(t, new)
      BY <1>1 DEF Call
    <2> HIDE DEF new
    <2> QED
      BY <2>1, <2>2, OthersStay
  <1> QED
    BY <1>1 DEF StartWrite, StartRead, StartDelete, StartFlush, Starts, tierVars, ramVars, histVars

\* A step of the operation of t that makes no call.
Quiet(t, new) == serving /\ VfsGoto(t, new) /\ UNCHANGED <<cacheVars, data>>

LEMMA QuietSteady ==
  ASSUME VfsTypeOK, NEW t \in Tasks, NEW new, Quiet(t, new)
  PROVE  /\ Steady(t) /\ vfs'[t] = new
         /\ task' = task /\ issued' = issued /\ written' = written
  BY VfsMoves DEF Quiet, Steady, cacheVars, vars, tierVars, histVars

LEMMA OthersCallOK ==
  ASSUME CallInv, NEW t \in Tasks, Steady(t), NEW u \in Tasks \ {t}
  PROVE  CallOK(u)'
  <1>1. CallOK(u) /\ vfs'[u] = vfs[u] /\ task'[u] = task[u] /\ Arg(u)' = Arg(u) /\ Ino(u)' = Ino(u)
    BY DEF CallInv, Steady, Arg, Ino
  <1>2. WriteCall(u)'
    <2>1. ASSUME vfs[u].pc \in {"wmeta", "wsize"} PROVE Covered(Arg(u))' = Covered(Arg(u))
      BY <1>1, <2>1 DEF CallOK, WriteCall, Pending, CallInv, Steady, Covered
    <2> QED
      BY <1>1, <2>1 DEF CallOK, WriteCall, Pending, Steady, At
  <1>3. LoopCall(u)'
    BY <1>1 DEF CallOK, LoopCall, Current, At
  <1>4. RestCall(u)'
    BY <1>1 DEF CallOK, RestCall, Steady, At, Reads
  <1> QED
    BY <1>2, <1>3, <1>4 DEF CallOK

LEMMA CallInvStep ==
  ASSUME CallInv, KeptInv', VfsTypeOK', NEW t \in Tasks, Steady(t), CallOK(t)',
         written' \subseteq issued', task'[t].pc \in WritePcs => task'[t].slice \in issued'
  PROVE  CallInv'
  <1>1. \A u \in Tasks : CallOK(u)'
    BY OthersCallOK
  <1>2. \A u \in Tasks : task'[u].pc \in WritePcs => Arg(u)' \in issued'
    BY DEF CallInv, Steady, Arg
  <1> QED
    BY <1>1, <1>2 DEF CallInv, Steady

LEMMA QuietStep ==
  ASSUME CallInv, KeptInv', VfsTypeOK', NEW t \in Tasks, NEW new, Quiet(t, new), CallOK(t)'
  PROVE  CallInv'
  <1>1. Steady(t) /\ task' = task /\ issued' = issued /\ written' = written
    BY QuietSteady DEF CallInv
  <1> QED
    BY <1>1, CallInvStep DEF CallInv, Arg

\* The operation of t is over.
LEMMA FinishStep ==
  ASSUME CallInv, KeptInv', NEW t \in Tasks, VfsGoto(t, Rest), VfsAt(t, vfs[t].pc),
         dirty_inodes' \subseteq Inodes,
         UNCHANGED <<cacheVars, todo, releases, data, changes>>, raced' \subseteq Slices,
         size' \in [Inodes -> 0..ChunkBlocks], chunks' \in [Inodes -> Seq(Slices)],
         file' \in [Inodes -> Contents], uncut' \in [Inodes -> SUBSET Blocks]
  PROVE  CallInv'
  <1>0. VfsTypeOK
    BY DEF CallInv
  <1>1. Quiet(t, Rest)
    BY DEF VfsAt, Quiet
  <1>2. vfs' \in [Tasks -> VfsStates] /\ vfs'[t] = Rest /\ task' = task
    BY <1>0, <1>1, VfsMoves, RestType, QuietSteady DEF Quiet
  <1>3. VfsTypeOK'
    BY <1>0, <1>2 DEF VfsTypeOK, KeptInv
  <1>4. CallOK(t)'
    BY <1>2 DEF CallOK, WriteCall, LoopCall, RestCall, Pending, Reads, Rest, VfsAt, At
  <1> QED
    BY <1>1, <1>3, <1>4, QuietStep

\* A metadata operation fails.
LEMMA MetaErrorStep ==
  ASSUME CallInv, KeptInv', NEW t \in Tasks, MetaError(t), VfsAt(t, vfs[t].pc),
         vfs[t].pc # "idle" /\ vfs[t].pc # "sleep", UNCHANGED <<todo, releases>>
  PROVE  CallInv'
  <1>1. /\ VfsGoto(t, Rest) /\ UNCHANGED <<cacheVars, todo, releases, data, changes>>
        /\ UNCHANGED <<size, chunks, file, uncut, raced>>
        /\ dirty_inodes' \subseteq dirty_inodes \cup {Ino(t)}
    BY DEF MetaError, metaVars, history, Finish
  <1>2. /\ size' \in [Inodes -> 0..ChunkBlocks] /\ chunks' \in [Inodes -> Seq(Slices)]
        /\ file' \in [Inodes -> Contents] /\ uncut' \in [Inodes -> SUBSET Blocks]
        /\ raced' \subseteq Slices /\ dirty_inodes' \subseteq Inodes
    BY <1>1 DEF CallInv, CallOK, RestCall, VfsTypeOK
  <1> QED
    BY <1>1, <1>2, FinishStep

\* The states a step puts an operation in, field by field.
Begun(l, i) == [Rest EXCEPT !.pc = l, !.ino = i]
Listed(l, i, q) == [Rest EXCEPT !.pc = l, !.ino = i, !.seen = q]
WentTo(r, l) == [r EXCEPT !.pc = l]
Advanced(r, l) == [r EXCEPT !.pc = l, !.k = @ + 1]
Filled(r, l, c) == [r EXCEPT !.pc = l, !.buf = c]
Relisted(r, q) == [r EXCEPT !.pc = "cread", !.seen = q]
Rewound(r) == [r EXCEPT !.pc = "cdelete", !.k = 0]

LEMMA BegunFields ==
  ASSUME NEW l \in {"wid", "clock"}, NEW i \in Inodes
  PROVE  /\ Begun(l, i) \in VfsStates /\ Begun(l, i).pc = l /\ Begun(l, i).ino = i
         /\ Begun(l, i).seen = <<>> /\ Begun(l, i).k = 0 /\ Begun(l, i).buf = Zeros
  <1>1. /\ Rest \in VfsStates
        /\ Rest.seen = <<>> /\ Rest.k = 0 /\ Rest.buf = Zeros
    BY RestType DEF Rest
  <1> QED
    BY <1>1 DEF VfsStates, Begun

LEMMA ListedFields ==
  ASSUME NEW l \in {"rnext", "cread"}, NEW i \in Inodes, NEW q \in Seq(Slices)
  PROVE  /\ Listed(l, i, q) \in VfsStates /\ Listed(l, i, q).pc = l /\ Listed(l, i, q).ino = i
         /\ Listed(l, i, q).seen = q /\ Listed(l, i, q).k = 0 /\ Listed(l, i, q).buf = Zeros
  <1>1. /\ Rest \in VfsStates
        /\ Rest.seen = <<>> /\ Rest.k = 0 /\ Rest.buf = Zeros
    BY RestType DEF Rest
  <1> QED
    BY <1>1 DEF VfsStates, Listed

LEMMA WentToFields ==
  ASSUME NEW r \in VfsStates, NEW l \in {"wmeta", "wsize", "creplace", "cdelete", "cflush"}
  PROVE  /\ WentTo(r, l) \in VfsStates /\ WentTo(r, l).pc = l /\ WentTo(r, l).ino = r.ino
         /\ WentTo(r, l).seen = r.seen /\ WentTo(r, l).k = r.k /\ WentTo(r, l).buf = r.buf
  BY DEF VfsStates, WentTo

LEMMA AdvancedFields ==
  ASSUME NEW r \in VfsStates, NEW l \in {"rgot", "cgot", "cdelete"}
  PROVE  /\ Advanced(r, l) \in VfsStates /\ Advanced(r, l).pc = l /\ Advanced(r, l).ino = r.ino
         /\ Advanced(r, l).seen = r.seen /\ Advanced(r, l).k = r.k + 1 /\ Advanced(r, l).buf = r.buf
  <1> DEFINE n == r.k + 1
  <1>1. n \in Nat
    BY DEF VfsStates
  <1>2. Advanced(r, l) = [r EXCEPT !.pc = l, !.k = n]
    BY DEF Advanced
  <1> HIDE DEF n
  <1>3. /\ Advanced(r, l) \in VfsStates /\ Advanced(r, l).pc = l /\ Advanced(r, l).ino = r.ino
        /\ Advanced(r, l).seen = r.seen /\ Advanced(r, l).k = n /\ Advanced(r, l).buf = r.buf
    BY <1>1, <1>2 DEF VfsStates
  <1> QED
    BY <1>3 DEF n

LEMMA FilledFields ==
  ASSUME NEW r \in VfsStates, NEW l \in {"rnext", "cread"}, NEW c \in Contents
  PROVE  /\ Filled(r, l, c) \in VfsStates /\ Filled(r, l, c).pc = l /\ Filled(r, l, c).ino = r.ino
         /\ Filled(r, l, c).seen = r.seen /\ Filled(r, l, c).k = r.k /\ Filled(r, l, c).buf = c
  BY DEF VfsStates, Filled

LEMMA RelistedFields ==
  ASSUME NEW r \in VfsStates, NEW q \in Seq(Slices)
  PROVE  /\ Relisted(r, q) \in VfsStates /\ Relisted(r, q).pc = "cread" /\ Relisted(r, q).ino = r.ino
         /\ Relisted(r, q).seen = q /\ Relisted(r, q).k = r.k /\ Relisted(r, q).buf = r.buf
  BY DEF VfsStates, Relisted

LEMMA RewoundFields ==
  ASSUME NEW r \in VfsStates
  PROVE  /\ Rewound(r) \in VfsStates /\ Rewound(r).pc = "cdelete" /\ Rewound(r).ino = r.ino
         /\ Rewound(r).seen = r.seen /\ Rewound(r).k = 0 /\ Rewound(r).buf = r.buf
  BY DEF VfsStates, Rewound

\* An operation begins.
BeginsFresh(t, new) ==
    /\ new \in VfsStates /\ new.k = 0 /\ new.ino \in Inodes
    /\ \/ new.pc = "clock" /\ new.seen = <<>> /\ new.buf = Zeros
       \/ t = Fuse /\ new.pc \in {"wid", "rnext"}

LEMMA BeginStep ==
  ASSUME CallInv, KeptInv', NEW t \in Tasks, VfsAt(t, vfs[t].pc), NEW new, BeginsFresh(t, new),
         VfsGoto(t, new), UNCHANGED <<cacheVars, metaVars, data, file, raced, uncut>>,
         {dirty_inodes', todo', releases'} \subseteq SUBSET Inodes, changes' \in 0..MaxChanges
  PROVE  CallInv'
  <1>0. VfsTypeOK
    BY DEF CallInv
  <1>1. Quiet(t, new)
    BY DEF VfsAt, Quiet
  <1>2. vfs' \in [Tasks -> VfsStates] /\ vfs'[t] = new /\ task' = task
    BY <1>0, <1>1, VfsMoves, QuietSteady DEF Quiet, BeginsFresh
  <1>3. VfsTypeOK'
    BY <1>0, <1>2 DEF VfsTypeOK, KeptInv, metaVars
  <1>4. CallOK(t)'
    <2>1. new.seen \in Seq(Slices)
      BY DEF BeginsFresh, VfsStates
    <2>2. Len(new.seen) \in Nat /\ Len(new.seen) >= 0
      BY <2>1
    <2>3. At(t, "idle")'
      BY <1>2 DEF VfsAt, At
    <2>4. WriteCall(t)' /\ LoopCall(t)'
      BY <1>2, <2>2 DEF BeginsFresh, WriteCall, LoopCall, Pending
    <2>5. RestCall(t)'
      BY <1>2, <2>3, <1>1 DEF BeginsFresh, RestCall, Reads, Ino, Quiet, cacheVars, vars, tierVars
    <2> QED
      BY <2>4, <2>5 DEF CallOK
  <1> QED
    BY <1>1, <1>3, <1>4, QuietStep

LEMMA CallRequest ==
  ASSUME CallInv, KeptInv', Request
  PROVE  CallInv'
  <1>0. VfsTypeOK /\ Fuse \in Tasks
    BY FuseTask DEF CallInv
  <1>1. PICK i \in Inodes : \/ Write(i) \/ Read(i) \/ Fsync(i) \/ Release(i)
                            \/ \E n \in 0..ChunkBlocks : Truncate(i, n)
    BY DEF Request
  <1>2. VfsAt(Fuse, "idle") /\ VfsAt(Fuse, vfs[Fuse].pc)
    BY <1>1 DEF Write, Read, Fsync, Release, Truncate, Compact, VfsAt
  <1>3. CASE Write(i)
    <2>1. BeginsFresh(Fuse, Begun("wid", i))
      BY <1>0, BegunFields DEF BeginsFresh, VfsTypeOK
    <2>2. VfsGoto(Fuse, Begun("wid", i))
      BY <1>3 DEF Write, Begun
    <2>3. changes' \in 0..MaxChanges /\ dirty_inodes' \subseteq Inodes
      BY <1>0, <1>3, MaxChangesAssumption DEF Write, Changed, VfsTypeOK
    <2> QED
      BY <1>0, <1>2, <1>3, <2>1, <2>2, <2>3, BeginStep DEF Write, VfsTypeOK
  <1>4. CASE Read(i)
    <2>1. BeginsFresh(Fuse, Listed("rnext", i, chunks[i]))
      BY <1>0, ListedFields DEF BeginsFresh, VfsTypeOK
    <2>2. VfsGoto(Fuse, Listed("rnext", i, chunks[i]))
      BY <1>4 DEF Read, Listed
    <2> QED
      BY <1>0, <1>2, <1>4, <2>1, <2>2, BeginStep DEF Read, VfsTypeOK, history
  <1>5. CASE Fsync(i)
    <2>1. BeginsFresh(Fuse, Begun("clock", i))
      BY <1>0, BegunFields DEF BeginsFresh, VfsTypeOK
    <2>2. VfsGoto(Fuse, Begun("clock", i))
      BY <1>5 DEF Fsync, Compact, Begun
    <2> QED
      BY <1>0, <1>2, <1>5, <2>1, <2>2, BeginStep DEF Fsync, VfsTypeOK, history
  <1>6. ASSUME VfsTypeOK', UNCHANGED <<cacheVars, vfs, data>> PROVE CallInv'
    BY <1>6 DEF CallInv, CallOK, WriteCall, LoopCall, RestCall, Pending, Reads, Current, Covered,
       At, Arg, Ino, cacheVars, vars, tierVars, histVars
  <1>7. CASE Release(i)
    BY <1>0, <1>6, <1>7 DEF Release, VfsTypeOK, metaVars, history, KeptInv
  <1>8. ASSUME NEW n \in 0..ChunkBlocks, Truncate(i, n) PROVE CallInv'
    <2>1. size' \in [Inodes -> 0..ChunkBlocks] /\ changes' \in 0..MaxChanges
      BY <1>0, <1>8, MaxChangesAssumption DEF Truncate, Changed, VfsTypeOK
    <2>2. file' \in [Inodes -> Contents]
      <3>1. [b \in Blocks |-> IF b <= n THEN file[i][b] ELSE NoSlice] \in Contents
        BY <1>0 DEF VfsTypeOK, Contents
      <3> QED
        BY <1>0, <1>8, <3>1 DEF Truncate, VfsTypeOK
    <2>3. uncut' \in [Inodes -> SUBSET Blocks]
      BY <1>0, <1>8 DEF Truncate, VfsTypeOK
    <2> QED
      BY <1>0, <1>6, <1>8, <2>1, <2>2, <2>3 DEF Truncate, VfsTypeOK, KeptInv
  <1> QED
    BY <1>1, <1>3, <1>4, <1>5, <1>7, <1>8

\* The operation of t goes on, or makes a call of the cache.
LEMMA CallingStep ==
  ASSUME CallInv, KeptInv', NEW t \in Tasks, VfsAt(t, vfs[t].pc), NEW l, NEW s,
         Starts(t, l, s), issued \subseteq issued',
         NEW new \in VfsStates, VfsGoto(t, new), CallOK(t)',
         data' \in [Slices -> Contents], \A x \in issued : data'[x] = data[x],
         UNCHANGED <<metaVars, todo, releases, file, raced, uncut, changes>>,
         dirty_inodes' \subseteq Inodes, l \in WritePcs => s \in issued'
  PROVE  CallInv'
  <1>0. VfsTypeOK
    BY DEF CallInv
  <1>1. vfs' \in [Tasks -> VfsStates] /\ \A u \in Tasks \ {t} : vfs'[u] = vfs[u]
    BY <1>0, VfsMoves
  <1>2. Steady(t)
    BY <1>1 DEF Starts, Steady, VfsAt
  <1>3. VfsTypeOK'
    BY <1>0, <1>1 DEF VfsTypeOK, KeptInv, metaVars
  <1>4. written' \subseteq issued'
    BY DEF CallInv, Starts
  <1> QED
    BY <1>2, <1>3, <1>4, CallInvStep DEF Starts

LEMMA CallWriteSlice ==
  ASSUME CallInv, KeptInv', WriteSlice
  PROVE  CallInv'
  <1>0. VfsTypeOK /\ Fuse \in Tasks /\ TypeOK /\ VfsAt(Fuse, "wid") /\ VfsAt(Fuse, vfs[Fuse].pc)
        /\ vfs[Fuse] \in VfsStates
    BY FuseTask DEF CallInv, VfsTypeOK, WriteSlice, VfsAt
  <1>1. CASE MetaError(Fuse)
    BY <1>0, <1>1, MetaErrorStep DEF WriteSlice, VfsAt
  <1>2. CASE ~MetaError(Fuse)
    <2> DEFINE new == WentTo(vfs[Fuse], "wmeta")
    <2>0. PICK s : s = NextSlice
      OBVIOUS
    <2>1. /\ s \in Slices /\ Starts(Fuse, "wal", s) /\ s \notin issued
          /\ issued' = issued \cup {s} /\ VfsGoto(Fuse, new)
          /\ UNCHANGED <<metaVars, dirty_inodes, todo, releases, file, raced, uncut, changes>>
      BY <1>0, <1>2, <2>0, CallStarts DEF WriteSlice, WentTo
    <2>2. PICK first \in Blocks : \E last \in first..ChunkBlocks :
            data' = [data EXCEPT ![s] =
                       [b \in Blocks |-> IF b \in first..last THEN s ELSE NoSlice]]
      BY <1>2, <2>0 DEF WriteSlice
    <2>3. PICK last \in first..ChunkBlocks :
            data' = [data EXCEPT ![s] =
                       [b \in Blocks |-> IF b \in first..last THEN s ELSE NoSlice]]
      BY <2>2
    <2>4. /\ new \in VfsStates /\ new.pc = "wmeta" /\ new.ino = vfs[Fuse].ino
          /\ new.seen = vfs[Fuse].seen /\ new.k = vfs[Fuse].k
      BY <1>0, WentToFields
    <2> HIDE DEF new
    <2>5. /\ data' \in [Slices -> Contents] /\ \A x \in issued : data'[x] = data[x]
          /\ \A b \in Blocks : data'[s][b] # NoSlice <=> b \in first..last
      <3>1. [b \in Blocks |-> IF b \in first..last THEN s ELSE NoSlice] \in Contents
        BY <2>1 DEF Contents
      <3> QED
        BY <1>0, <2>1, <2>3, <3>1, NoSliceAssumption DEF VfsTypeOK, TypeOK
    <2>6. Covered(s)' = first..last
      BY <2>5, ChunkBlocksAssumption DEF Covered, Blocks
    <2>7. vfs'[Fuse] = new
      BY <1>0, <2>1, VfsMoves
    <2>8. WriteCall(Fuse)'
      <3>1. Covered(Arg(Fuse))' = first..last
        BY <2>1, <2>6 DEF Starts, Arg, Covered
      <3> QED
        BY <2>1, <2>4, <2>7, <3>1 DEF WriteCall, Pending, Starts, WritePcs, Arg, At
    <2>9. LoopCall(Fuse)' /\ RestCall(Fuse)'
      BY <1>0, <2>1, <2>4, <2>7 DEF CallInv, CallOK, LoopCall, RestCall, Starts, VfsAt, Reads, Ino
    <2>10. CallOK(Fuse)' /\ dirty_inodes' \subseteq Inodes /\ issued \subseteq issued'
      BY <1>0, <2>1, <2>8, <2>9 DEF CallOK, VfsTypeOK
    <2> QED
      BY <1>0, <2>1, <2>4, <2>5, <2>10, CallingStep
  <1> QED
    BY <1>1, <1>2

LEMMA CallWriteMeta ==
  ASSUME CallInv, KeptInv', WriteMeta
  PROVE  CallInv'
  <1>0. VfsTypeOK /\ Fuse \in Tasks /\ TypeOK /\ VfsAt(Fuse, "wmeta") /\ VfsAt(Fuse, vfs[Fuse].pc)
        /\ vfs[Fuse] \in VfsStates
    BY FuseTask DEF CallInv, VfsTypeOK, WriteMeta, VfsAt
  <1>1. CASE MetaError(Fuse)
    BY <1>0, <1>1, MetaErrorStep DEF WriteMeta, VfsAt
  <1>2. CASE ~MetaError(Fuse)
    <2> DEFINE i == Ino(Fuse)
               s == Arg(Fuse)
               beyond == Covered(s) \ Within(i)
    <2>1. /\ chunks' = [chunks EXCEPT ![i] = Append(@, s)]
          /\ file' = [file EXCEPT ![i] = Over(@, data[s], Within(i))]
          /\ uncut' = [uncut EXCEPT ![i] = (@ \ Covered(s)) \cup beyond]
          /\ raced' = IF Merging(i) THEN raced \cup {s} ELSE raced
          /\ IF beyond = {} THEN Finish(Fuse, TRUE)
             ELSE VfsGoto(Fuse, WentTo(vfs[Fuse], "wsize")) /\ UNCHANGED dirty_inodes
          /\ UNCHANGED <<cacheVars, size, data, changes, todo, releases>>
      BY <1>2 DEF WriteMeta, WentTo
    <2>2. i \in Inodes /\ s \in Slices /\ s \in written
          /\ Covered(s) \subseteq Blocks /\ Within(i) \subseteq Blocks
      <3>1. i \in Inodes /\ s \in written
        BY <1>0 DEF CallInv, CallOK, WriteCall, RestCall, Pending, VfsAt
      <3> QED
        BY <1>0, <3>1, ChunkBlocksAssumption DEF TypeOK, VfsTypeOK, Covered, Within, Blocks
    <2> HIDE DEF i, s
    <2>3. chunks' \in [Inodes -> Seq(Slices)] /\ uncut' \in [Inodes -> SUBSET Blocks]
      BY <1>0, <2>1, <2>2 DEF VfsTypeOK
    <2>4. file' \in [Inodes -> Contents] /\ raced' \subseteq Slices
      <3>1. Over(file[i], data[s], Within(i)) \in Contents
        BY <1>0, <2>2, ContentTypes DEF VfsTypeOK
      <3> QED
        BY <1>0, <2>1, <2>2, <3>1 DEF VfsTypeOK
    <2>5. size' \in [Inodes -> 0..ChunkBlocks]
      BY <1>0, <2>1 DEF VfsTypeOK
    <2>6. CASE beyond = {}
      <3>1. /\ VfsGoto(Fuse, Rest) /\ UNCHANGED <<cacheVars, todo, releases, data, changes>>
            /\ dirty_inodes' \subseteq Inodes
        BY <1>0, <2>1, <2>6 DEF Finish, VfsTypeOK
      <3> QED
        BY <1>0, <2>3, <2>4, <2>5, <3>1, FinishStep
    <2>7. CASE beyond # {}
      <3> DEFINE new == WentTo(vfs[Fuse], "wsize")
      <3>1. /\ new \in VfsStates /\ new.pc = "wsize" /\ new.ino = vfs[Fuse].ino
            /\ new.seen = vfs[Fuse].seen /\ new.k = vfs[Fuse].k
        BY <1>0, WentToFields
      <3>2. VfsGoto(Fuse, new) /\ UNCHANGED dirty_inodes
        BY <2>1, <2>7
      <3> HIDE DEF new
      <3>3. Quiet(Fuse, new)
        BY <1>0, <2>1, <3>2 DEF Quiet, VfsAt
      <3>4. /\ vfs'[Fuse] = new /\ vfs' \in [Tasks -> VfsStates] /\ Steady(Fuse)
            /\ task' = task /\ written' = written /\ issued' = issued
        BY <1>0, <3>1, <3>2, <3>3, VfsMoves, QuietSteady
      <3>5. VfsTypeOK'
        BY <1>0, <2>1, <2>3, <2>4, <2>5, <3>2, <3>4 DEF VfsTypeOK, KeptInv
      <3>6. WriteCall(Fuse)'
        <4>1. Covered(Arg(Fuse))' = Covered(Arg(Fuse))
          BY <2>1, <3>4 DEF Covered, Arg
        <4> QED
          BY <1>0, <2>2, <3>1, <3>4, <4>1 DEF CallInv, CallOK, WriteCall, Pending, VfsAt, At, Arg, s
      <3>7. LoopCall(Fuse)' /\ RestCall(Fuse)'
        BY <1>0, <3>1, <3>4 DEF CallInv, CallOK, LoopCall, RestCall, Steady, VfsAt, Reads, Ino, At
      <3> QED
        BY <1>0, <3>3, <3>5, <3>6, <3>7, QuietStep DEF CallOK
    <2> QED
      BY <2>6, <2>7
  <1> QED
    BY <1>1, <1>2

\* The greatest element of an interval.
LEMMA IntervalEnds ==
  ASSUME NEW first \in Nat, NEW n \in Nat, NEW last \in first..n
  PROVE  (CHOOSE b \in first..last : b + 1 \notin first..last) = last
  <1>1. last \in first..last /\ last + 1 \notin first..last
    OBVIOUS
  <1>2. \A b \in first..last : b + 1 \notin first..last => b = last
    OBVIOUS
  <1> QED
    BY <1>1, <1>2

LEMMA CallWriteSize ==
  ASSUME CallInv, KeptInv', WriteSize
  PROVE  CallInv'
  <1>0. VfsTypeOK /\ Fuse \in Tasks /\ TypeOK /\ VfsAt(Fuse, "wsize") /\ VfsAt(Fuse, vfs[Fuse].pc)
    BY FuseTask DEF CallInv, VfsTypeOK, WriteSize, VfsAt
  <1>1. CASE MetaError(Fuse)
    BY <1>0, <1>1, MetaErrorStep DEF WriteSize, VfsAt
  <1>2. CASE ~MetaError(Fuse)
    <2> DEFINE i == Ino(Fuse)
               s == Arg(Fuse)
    <2>1. /\ size' = [size EXCEPT ![i] = CHOOSE b \in Covered(s) : b + 1 \notin Covered(s)]
          /\ file' = [file EXCEPT ![i] = Over(@, data[s], Blocks)]
          /\ uncut' = [uncut EXCEPT ![i] = @ \ Covered(s)]
          /\ VfsGoto(Fuse, Rest) /\ dirty_inodes' = dirty_inodes
          /\ UNCHANGED <<cacheVars, chunks, data, raced, changes, todo, releases>>
      BY <1>2 DEF WriteSize, Finish
    <2>2. /\ i \in Inodes /\ s \in Slices
          /\ \E first \in Blocks : \E last \in first..ChunkBlocks : Covered(s) = first..last
      <3>1. /\ i \in Inodes /\ s \in written
            /\ \E first \in Blocks : \E last \in first..ChunkBlocks : Covered(s) = first..last
        BY <1>0 DEF CallInv, CallOK, WriteCall, RestCall, VfsAt
      <3> QED
        BY <1>0, <3>1 DEF TypeOK
    <2> HIDE DEF i, s
    <2>3. PICK first \in Blocks : \E last \in first..ChunkBlocks : Covered(s) = first..last
      BY <2>2
    <2>4. PICK last \in first..ChunkBlocks : Covered(s) = first..last
      BY <2>3
    <2>5. (CHOOSE b \in Covered(s) : b + 1 \notin Covered(s)) = last /\ last \in 0..ChunkBlocks
      <3>1. first \in Nat
        BY DEF Blocks
      <3>2. (CHOOSE b \in first..last : b + 1 \notin first..last) = last
        BY <3>1, ChunkBlocksAssumption, IntervalEnds
      <3>3. last \in 0..ChunkBlocks
        BY <3>1, ChunkBlocksAssumption
      <3> QED
        BY <2>4, <3>2, <3>3
    <2>6. size' \in [Inodes -> 0..ChunkBlocks]
      <3>1. size' = [size EXCEPT ![i] = last]
        BY <2>1, <2>5
      <3> QED
        BY <1>0, <2>5, <3>1 DEF VfsTypeOK
    <2>7. file' \in [Inodes -> Contents] /\ uncut' \in [Inodes -> SUBSET Blocks]
      <3>1. Over(file[i], data[s], Blocks) \in Contents
        BY <1>0, <2>2, ContentTypes DEF VfsTypeOK
      <3> QED
        BY <1>0, <2>1, <2>2, <3>1 DEF VfsTypeOK
    <2>8. /\ chunks' \in [Inodes -> Seq(Slices)] /\ raced' \subseteq Slices
          /\ dirty_inodes' \subseteq Inodes /\ UNCHANGED <<cacheVars, todo, releases, data, changes>>
      BY <1>0, <2>1 DEF VfsTypeOK
    <2> QED
      BY <1>0, <2>1, <2>6, <2>7, <2>8, FinishStep
  <1> QED
    BY <1>1, <1>2

LEMMA CallReadSlice ==
  ASSUME CallInv, KeptInv', NEW t \in Tasks,
         ReadSlice(t, "rnext", "rgot") \/ ReadSlice(t, "cread", "cgot")
  PROVE  CallInv'
  <1>0. VfsTypeOK /\ TypeOK /\ VfsAt(t, vfs[t].pc) /\ vfs[t] \in VfsStates
    BY DEF CallInv, VfsTypeOK, ReadSlice, VfsAt
  <1>1. PICK l \in {"rgot", "cgot"} :
          /\ vfs[t].pc = IF l = "rgot" THEN "rnext" ELSE "cread"
          /\ ReadSlice(t, vfs[t].pc, l)
    BY DEF ReadSlice, VfsAt
  <1>2. PICK s : s = vfs[t].seen[vfs[t].k + 1]
    OBVIOUS
  <1> DEFINE new == Advanced(vfs[t], l)
  <1>3. /\ vfs[t].k < Len(vfs[t].seen) /\ Starts(t, "rdirty", s) /\ issued' = issued
        /\ VfsGoto(t, new) /\ UNCHANGED <<metaVars, dirty_inodes, todo, releases, history>>
    BY <1>0, <1>1, <1>2, CallStarts DEF ReadSlice, Advanced
  <1>4. /\ new \in VfsStates /\ new.pc = l /\ new.ino = vfs[t].ino
        /\ new.seen = vfs[t].seen /\ new.k = vfs[t].k + 1
    BY <1>0, AdvancedFields
  <1> HIDE DEF new
  <1>5. vfs'[t] = new
    BY <1>0, <1>3, VfsMoves
  <1>6. new.k \in 1..Len(new.seen)
    BY <1>0, <1>3, <1>4 DEF VfsStates
  <1>7. WriteCall(t)'
    BY <1>4, <1>5 DEF WriteCall, Pending
  <1>8. LoopCall(t)'
    <2>1. Current(t)'
      BY <1>2, <1>3, <1>4, <1>5, <1>6 DEF Current, Starts, Arg
    <2> QED
      BY <1>3, <1>4, <1>5, <1>6, <2>1 DEF LoopCall, Starts, ReadPcs
  <1>9. RestCall(t)'
    BY <1>0, <1>1, <1>3, <1>4, <1>5 DEF CallInv, CallOK, RestCall, Starts, VfsAt, Reads, Ino
  <1>10. CallOK(t)'
    BY <1>7, <1>8, <1>9 DEF CallOK
  <1>11. /\ data' \in [Slices -> Contents] /\ (\A x \in issued : data'[x] = data[x])
         /\ dirty_inodes' \subseteq Inodes
         /\ UNCHANGED <<metaVars, todo, releases, file, raced, uncut, changes>>
    BY <1>0, <1>3 DEF VfsTypeOK, history
  <1> QED
    BY <1>0, <1>3, <1>4, <1>10, <1>11, CallingStep DEF WritePcs

LEMMA CallCopySlice ==
  ASSUME CallInv, KeptInv', NEW t \in Tasks,
         CopySlice(t, "rgot", "rnext") \/ CopySlice(t, "cgot", "cread")
  PROVE  CallInv'
  <1>0. /\ VfsTypeOK /\ TypeOK /\ VfsAt(t, vfs[t].pc) /\ vfs[t] \in VfsStates
        /\ vfs[t].pc \in {"rgot", "cgot"}
    BY DEF CallInv, VfsTypeOK, CopySlice, VfsAt
  <1>1. PICK l \in {"rnext", "cread"} :
          /\ vfs[t].pc = IF l = "rnext" THEN "rgot" ELSE "cgot"
          /\ CopySlice(t, vfs[t].pc, l)
    BY DEF CopySlice, VfsAt
  <1>2. UNCHANGED <<cacheVars, metaVars, todo, releases, history>>
    BY <1>1 DEF CopySlice
  <1>3. CASE ~Got(t)
    <2>1. VfsGoto(t, Rest) /\ dirty_inodes' \subseteq dirty_inodes \cup {Ino(t)}
      BY <1>1, <1>3 DEF CopySlice, Finish
    <2>2. Ino(t) \in Inodes
      BY <1>0 DEF CallInv, CallOK, RestCall
    <2> QED
      BY <1>0, <1>2, <2>1, <2>2, FinishStep DEF VfsTypeOK, metaVars, history
  <1>4. CASE Got(t)
    <2>1. PICK got \in SUBSET Blocks :
            /\ VfsGoto(t, Filled(vfs[t], l, Over(vfs[t].buf, data[Arg(t)], got)))
            /\ UNCHANGED dirty_inodes
      BY <1>1, <1>4 DEF CopySlice, Filled
    <2>2. Arg(t) \in Slices
      <3>1. Current(t) /\ vfs[t].seen \in Seq(Slices)
        BY <1>0 DEF CallInv, CallOK, LoopCall, VfsStates
      <3> QED
        BY <3>1 DEF Current
    <2>3. PICK c \in Contents : c = Over(vfs[t].buf, data[Arg(t)], got)
      BY <1>0, <2>2, ContentTypes DEF VfsTypeOK, VfsStates
    <2> DEFINE new == Filled(vfs[t], l, c)
    <2>4. /\ new \in VfsStates /\ new.pc = l /\ new.ino = vfs[t].ino
          /\ new.seen = vfs[t].seen /\ new.k = vfs[t].k
      BY <1>0, FilledFields
    <2>5. VfsGoto(t, new)
      BY <2>1, <2>3
    <2> HIDE DEF new
    <2>6. Quiet(t, new)
      BY <1>0, <1>2, <2>5 DEF Quiet, VfsAt, history
    <2>7. /\ vfs'[t] = new /\ vfs' \in [Tasks -> VfsStates] /\ Steady(t)
          /\ task' = task
      BY <1>0, <2>4, <2>5, <2>6, VfsMoves, QuietSteady
    <2>8. VfsTypeOK'
      BY <1>0, <1>2, <2>1, <2>7 DEF VfsTypeOK, KeptInv, metaVars, history
    <2>9. CallOK(t)'
      BY <1>0, <1>1, <2>4, <2>7 DEF CallInv, CallOK, WriteCall, LoopCall, RestCall, Pending, Reads,
         VfsAt, At, Ino, Steady
    <2> QED
      BY <2>6, <2>8, <2>9, QuietStep
  <1> QED
    BY <1>3, <1>4

LEMMA CallCompactCalls ==
  ASSUME CallInv, KeptInv', NEW t \in Tasks, DeleteOld(t) \/ FlushAll(t)
  PROVE  CallInv'
  <1>0. VfsTypeOK /\ TypeOK /\ VfsAt(t, "cdelete") /\ VfsAt(t, vfs[t].pc) /\ vfs[t] \in VfsStates
    BY DEF CallInv, VfsTypeOK, DeleteOld, FlushAll, VfsAt
  <1>1. UNCHANGED <<metaVars, dirty_inodes, todo, releases, history>>
    BY DEF DeleteOld, FlushAll
  <1>2. /\ data' \in [Slices -> Contents] /\ (\A x \in issued : data'[x] = data[x])
        /\ dirty_inodes' \subseteq Inodes
        /\ UNCHANGED <<metaVars, todo, releases, file, raced, uncut, changes>>
    BY <1>0, <1>1 DEF VfsTypeOK, history
  <1>3. CASE DeleteOld(t)
    <2>1. PICK s : s = vfs[t].seen[vfs[t].k + 1]
      OBVIOUS
    <2> DEFINE new == Advanced(vfs[t], "cdelete")
    <2>2. new = [vfs[t] EXCEPT !.k = @ + 1]
      BY <1>0 DEF Advanced, VfsStates, VfsAt
    <2>3. /\ vfs[t].k < Len(vfs[t].seen) /\ Starts(t, "ddirty", s) /\ issued' = issued
          /\ VfsGoto(t, [vfs[t] EXCEPT !.k = @ + 1])
      BY <1>0, <1>3, <2>1, CallStarts DEF DeleteOld
    <2>4. VfsGoto(t, new)
      BY <2>2, <2>3
    <2>5. /\ new \in VfsStates /\ new.pc = "cdelete" /\ new.ino = vfs[t].ino
          /\ new.seen = vfs[t].seen /\ new.k = vfs[t].k + 1
      BY <1>0, AdvancedFields
    <2> HIDE DEF new
    <2>6. vfs'[t] = new
      BY <1>0, <2>4, VfsMoves
    <2>7. new.k \in 1..Len(new.seen)
      BY <1>0, <2>3, <2>5 DEF VfsStates
    <2>8. Current(t)'
      BY <2>1, <2>3, <2>5, <2>6, <2>7 DEF Current, Starts, Arg
    <2>9. WriteCall(t)' /\ LoopCall(t)'
      BY <2>3, <2>5, <2>6, <2>7, <2>8 DEF WriteCall, Pending, LoopCall, Starts, DeletePcs
    <2>10. RestCall(t)'
      BY <1>0, <2>3, <2>5, <2>6 DEF CallInv, CallOK, RestCall, Starts, VfsAt, Reads, Ino
    <2>11. CallOK(t)'
      BY <2>9, <2>10 DEF CallOK
    <2> QED
      BY <1>0, <1>2, <2>3, <2>4, <2>5, <2>11, CallingStep DEF WritePcs
  <1>4. CASE FlushAll(t)
    <2> DEFINE new == WentTo(vfs[t], "cflush")
    <2>1. Starts(t, "drain", NoSlice) /\ issued' = issued /\ VfsGoto(t, new)
      BY <1>0, <1>4, CallStarts DEF FlushAll, WentTo
    <2>2. /\ new \in VfsStates /\ new.pc = "cflush" /\ new.ino = vfs[t].ino
          /\ new.seen = vfs[t].seen /\ new.k = vfs[t].k
      BY <1>0, WentToFields
    <2> HIDE DEF new
    <2>3. vfs'[t] = new
      BY <1>0, <2>1, VfsMoves
    <2>4. WriteCall(t)' /\ LoopCall(t)'
      BY <1>0, <2>1, <2>2, <2>3
      DEF CallInv, CallOK, WriteCall, Pending, LoopCall, Starts, FlushPcs
    <2>5. RestCall(t)'
      BY <1>0, <2>1, <2>2, <2>3 DEF CallInv, CallOK, RestCall, Starts, VfsAt, Reads, Ino
    <2>6. CallOK(t)'
      BY <2>4, <2>5 DEF CallOK
    <2> QED
      BY <1>0, <1>2, <2>1, <2>2, <2>6, CallingStep DEF WritePcs
  <1> QED
    BY <1>3, <1>4

LEMMA CallWriteMerged ==
  ASSUME CallInv, KeptInv', NEW t \in Tasks, WriteMerged(t)
  PROVE  CallInv'
  <1>0. /\ VfsTypeOK /\ TypeOK /\ VfsAt(t, "cread") /\ VfsAt(t, vfs[t].pc)
        /\ vfs[t] \in VfsStates /\ vfs[t].k = Len(vfs[t].seen)
    BY DEF CallInv, VfsTypeOK, WriteMerged, VfsAt
  <1>1. CASE MetaError(t)
    BY <1>0, <1>1, MetaErrorStep DEF WriteMerged, VfsAt
  <1>2. CASE ~MetaError(t)
    <2> DEFINE new == WentTo(vfs[t], "creplace")
    <2>0. PICK s : s = NextSlice
      OBVIOUS
    <2>1. /\ s \in Slices /\ Starts(t, "wal", s) /\ s \notin issued
          /\ issued' = issued \cup {s} /\ VfsGoto(t, new)
          /\ data' = [data EXCEPT ![s] = vfs[t].buf]
          /\ UNCHANGED <<metaVars, dirty_inodes, todo, releases, file, raced, uncut, changes>>
      BY <1>0, <1>2, <2>0, CallStarts DEF WriteMerged, WentTo
    <2>2. /\ new \in VfsStates /\ new.pc = "creplace" /\ new.ino = vfs[t].ino
          /\ new.seen = vfs[t].seen /\ new.k = vfs[t].k
      BY <1>0, WentToFields
    <2> HIDE DEF new
    <2>3. vfs'[t] = new
      BY <1>0, <2>1, VfsMoves
    <2>4. data' \in [Slices -> Contents] /\ \A x \in issued : data'[x] = data[x]
      BY <1>0, <2>1 DEF VfsTypeOK, VfsStates, TypeOK
    <2>5. WriteCall(t)' /\ LoopCall(t)'
      BY <1>0, <2>1, <2>2, <2>3
      DEF CallInv, CallOK, WriteCall, Pending, LoopCall, Starts, WritePcs, At, Arg
    <2>6. RestCall(t)'
      BY <1>0, <2>1, <2>2, <2>3 DEF CallInv, CallOK, RestCall, Starts, VfsAt, Reads, Ino
    <2>7. CallOK(t)'
      BY <2>5, <2>6 DEF CallOK
    <2>8. dirty_inodes' \subseteq Inodes
      BY <1>0, <2>1 DEF VfsTypeOK
    <2> QED
      BY <1>0, <2>1, <2>2, <2>4, <2>7, <2>8, CallingStep
  <1> QED
    BY <1>1, <1>2

LEMMA CallReplaceSlices ==
  ASSUME CallInv, KeptInv', NEW t \in Tasks, ReplaceSlices(t)
  PROVE  CallInv'
  <1>0. /\ VfsTypeOK /\ TypeOK /\ VfsAt(t, "creplace") /\ VfsAt(t, vfs[t].pc)
        /\ vfs[t] \in VfsStates
    BY DEF CallInv, VfsTypeOK, ReplaceSlices, VfsAt
  <1>1. CASE MetaError(t)
    BY <1>0, <1>1, MetaErrorStep DEF ReplaceSlices, VfsAt
  <1>2. CASE ~MetaError(t)
    <2> DEFINE new == Rewound(vfs[t])
    <2>1. /\ VfsGoto(t, new) /\ chunks' = [chunks EXCEPT ![Ino(t)] = <<Arg(t)>>]
          /\ UNCHANGED <<cacheVars, size, dirty_inodes, todo, releases, history>>
      BY <1>2 DEF ReplaceSlices, Rewound
    <2>2. /\ new \in VfsStates /\ new.pc = "cdelete" /\ new.ino = vfs[t].ino
          /\ new.seen = vfs[t].seen /\ new.k = 0
      BY <1>0, RewoundFields
    <2> HIDE DEF new
    <2>3. Quiet(t, new)
      BY <1>0, <2>1 DEF Quiet, VfsAt, history
    <2>4. /\ vfs'[t] = new /\ vfs' \in [Tasks -> VfsStates] /\ Steady(t)
          /\ task' = task
      BY <1>0, <2>1, <2>2, <2>3, VfsMoves, QuietSteady
    <2>5. chunks' \in [Inodes -> Seq(Slices)]
      <3>1. Arg(t) \in written
        BY <1>0 DEF CallInv, CallOK, WriteCall, Pending, VfsAt
      <3>2. <<Arg(t)>> \in Seq(Slices)
        BY <1>0, <3>1 DEF TypeOK
      <3> QED
        BY <1>0, <2>1, <3>2 DEF VfsTypeOK
    <2>6. VfsTypeOK'
      BY <1>0, <2>1, <2>4, <2>5 DEF VfsTypeOK, KeptInv, history
    <2>7. Len(new.seen) \in Nat
      BY <2>2 DEF VfsStates
    <2>8. CallOK(t)'
      BY <1>0, <2>2, <2>4, <2>7 DEF CallInv, CallOK, WriteCall, LoopCall, RestCall, Pending, Reads,
         VfsAt, At, Ino, Steady
    <2> QED
      BY <2>3, <2>6, <2>8, QuietStep
  <1> QED
    BY <1>1, <1>2

LEMMA CallLock ==
  ASSUME CallInv, KeptInv', NEW t \in Tasks, LockAndList(t) \/ ListFails(t)
  PROVE  CallInv'
  <1>0. /\ VfsTypeOK /\ TypeOK /\ VfsAt(t, "clock") /\ VfsAt(t, vfs[t].pc)
        /\ vfs[t] \in VfsStates /\ Ino(t) \in Inodes
        /\ vfs[t].seen = <<>> /\ vfs[t].k = 0
    BY DEF CallInv, CallOK, LoopCall, RestCall, VfsTypeOK, LockAndList, ListFails, VfsAt
  <1>1. UNCHANGED <<cacheVars, metaVars, todo, releases, history>> /\ dirty_inodes' \subseteq Inodes
    BY <1>0 DEF LockAndList, ListFails, VfsTypeOK
  <1>2. CASE ListFails(t)
    BY <1>0, <1>1, <1>2, FinishStep DEF ListFails, VfsTypeOK, metaVars, history
  <1>3. CASE LockAndList(t)
    <2>1. PICK new \in {Relisted(vfs[t], chunks[Ino(t)]), WentTo(vfs[t], "cdelete")} :
            VfsGoto(t, new)
      BY <1>3 DEF LockAndList, Relisted, WentTo
    <2>2. /\ new \in VfsStates /\ new.pc \in {"cread", "cdelete"} /\ new.ino = vfs[t].ino
          /\ new.k = 0
      BY <1>0, <2>1, RelistedFields, WentToFields DEF VfsTypeOK
    <2>3. Quiet(t, new)
      BY <1>0, <1>1, <2>1 DEF Quiet, VfsAt, history
    <2>4. /\ vfs'[t] = new /\ vfs' \in [Tasks -> VfsStates] /\ Steady(t)
          /\ task' = task
      BY <1>0, <2>1, <2>2, <2>3, VfsMoves, QuietSteady
    <2>5. VfsTypeOK'
      BY <1>0, <1>1, <2>4 DEF VfsTypeOK, KeptInv, metaVars, history
    <2>6. Len(new.seen) \in Nat
      BY <2>2 DEF VfsStates
    <2>7. CallOK(t)'
      BY <1>0, <2>2, <2>4, <2>6 DEF CallInv, CallOK, WriteCall, LoopCall, RestCall, Pending, Reads,
         VfsAt, At, Ino, Steady
    <2> QED
      BY <2>3, <2>5, <2>7, QuietStep
  <1> QED
    BY <1>2, <1>3

LEMMA CallReturn ==
  ASSUME CallInv, KeptInv', NEW t \in Tasks, CompactReturns(t) \/ (t = Fuse /\ ReadReturns)
  PROVE  CallInv'
  <1>0. VfsTypeOK /\ VfsAt(t, vfs[t].pc) /\ Ino(t) \in Inodes
    BY DEF CallInv, CallOK, RestCall, CompactReturns, ReadReturns, VfsAt
  <1>1. /\ VfsGoto(t, Rest) /\ dirty_inodes' \subseteq dirty_inodes \cup {Ino(t)}
        /\ UNCHANGED <<cacheVars, metaVars, todo, releases, history>>
    BY DEF CompactReturns, ReadReturns, Finish
  <1> QED
    BY <1>0, <1>1, FinishStep DEF VfsTypeOK, metaVars, history

LEMMA CallOp ==
  ASSUME CallInv, KeptInv', NEW t \in Tasks, OpStep(t)
  PROVE  CallInv'
  <1>1. CASE t = Fuse /\ (WriteSlice \/ WriteMeta \/ WriteSize \/ ReadReturns)
    BY <1>1, CallWriteSlice, CallWriteMeta, CallWriteSize, CallReturn
  <1>2. CASE \/ ReadSlice(t, "rnext", "rgot") \/ ReadSlice(t, "cread", "cgot")
             \/ CopySlice(t, "rgot", "rnext") \/ CopySlice(t, "cgot", "cread")
    BY <1>2, CallReadSlice, CallCopySlice
  <1>3. CASE \/ LockAndList(t) \/ ListFails(t) \/ WriteMerged(t) \/ ReplaceSlices(t)
             \/ DeleteOld(t) \/ FlushAll(t) \/ CompactReturns(t)
    <2>1. CASE LockAndList(t) \/ ListFails(t)
      BY <2>1, CallLock
    <2>2. CASE WriteMerged(t) \/ ReplaceSlices(t)
      BY <2>2, CallWriteMerged, CallReplaceSlices
    <2>3. CASE DeleteOld(t) \/ FlushAll(t)
      BY <2>3, CallCompactCalls
    <2>4. CASE CompactReturns(t)
      BY <2>4, CallReturn
    <2> QED
      BY <1>3, <2>1, <2>2, <2>3, <2>4
  <1> QED
    BY <1>1, <1>2, <1>3 DEF OpStep

LEMMA CallBackground ==
  ASSUME CallInv, KeptInv', NEW t \in Tasks, Background(t)
  PROVE  CallInv'
  <1>0. VfsTypeOK /\ VfsAt(t, vfs[t].pc)
    BY DEF CallInv, Background, FlusherWakes, FlusherDrains, RunRelease, FlusherCompacts,
           Compact, VfsAt
  <1>1. CASE FlusherWakes(t)
    <2> DEFINE new == [Rest EXCEPT !.pc = "sleep"]
    <2>1. new \in VfsStates /\ new.pc = "sleep" /\ new.seen = <<>> /\ new.k = 0
      <3>1. Rest \in VfsStates /\ Rest.seen = <<>> /\ Rest.k = 0
        BY RestType DEF Rest
      <3> QED
        BY <3>1 DEF VfsStates
    <2>2. VfsGoto(t, new) /\ UNCHANGED <<metaVars, dirty_inodes, todo, releases, history>>
      BY <1>1 DEF FlusherWakes
    <2> HIDE DEF new
    <2>3. UNCHANGED <<task, serving, issued, written>>
      BY <1>1 DEF FlusherWakes, Notified, histVars
    <2>4. /\ vfs'[t] = new /\ vfs' \in [Tasks -> VfsStates]
          /\ \A u \in Tasks \ {t} : vfs'[u] = vfs[u]
      BY <1>0, <2>1, <2>2, VfsMoves
    <2>5. Steady(t)
      BY <1>0, <2>2, <2>3, <2>4 DEF Steady, VfsAt, history
    <2>6. VfsTypeOK'
      BY <1>0, <2>2, <2>4 DEF VfsTypeOK, KeptInv, metaVars, history
    <2>7. CallOK(t)'
      BY <1>0, <2>1, <2>3, <2>4
      DEF CallOK, WriteCall, LoopCall, RestCall, Pending, Reads, VfsAt, At
    <2> QED
      BY <2>3, <2>5, <2>6, <2>7, CallInvStep DEF CallInv, Arg
  <1>2. CASE FlusherDrains(t)
    <2>1. VfsGoto(t, Rest) /\ UNCHANGED <<cacheVars, metaVars, releases, history>>
      BY <1>2 DEF FlusherDrains
    <2>2. Quiet(t, Rest)
      BY <1>0, <2>1 DEF Quiet, VfsAt, history
    <2>3. vfs' \in [Tasks -> VfsStates] /\ vfs'[t] = Rest /\ task' = task
      BY <1>0, <2>2, VfsMoves, RestType, QuietSteady DEF Quiet
    <2>4. VfsTypeOK'
      BY <1>0, <1>2, <2>1, <2>3 DEF FlusherDrains, VfsTypeOK, KeptInv, metaVars, history
    <2>5. CallOK(t)'
      BY <1>0, <2>3 DEF CallOK, WriteCall, LoopCall, RestCall, Pending, Reads, Rest, VfsAt, At
    <2> QED
      BY <2>2, <2>4, <2>5, QuietStep
  <1>3. ASSUME NEW i \in Inodes, RunRelease(t, i) \/ FlusherCompacts(t, i) PROVE CallInv'
    <2>1. VfsGoto(t, Begun("clock", i)) /\ UNCHANGED <<cacheVars, metaVars, history>>
      BY <1>3 DEF RunRelease, FlusherCompacts, Compact, Begun
    <2>2. BeginsFresh(t, Begun("clock", i))
      BY BegunFields DEF BeginsFresh
    <2>3. {dirty_inodes', todo', releases'} \subseteq SUBSET Inodes
      BY <1>0, <1>3 DEF RunRelease, FlusherCompacts, VfsTypeOK
    <2> QED
      BY <1>0, <2>1, <2>2, <2>3, BeginStep DEF VfsTypeOK, history
  <1> QED
    BY <1>1, <1>2, <1>3 DEF Background

LEMMA CallCacheStep ==
  ASSUME CallInv, KeptInv', CacheStep
  PROVE  CallInv'
  <1>0. UNCHANGED vfsVars /\ VfsTypeOK
    BY DEF CacheStep, CallInv
  <1>1. VfsTypeOK' /\ vfs' = vfs /\ data' = data
    BY <1>0 DEF vfsVars, metaVars, history, VfsTypeOK, KeptInv
  <1>2. \A s : Covered(s)' = Covered(s)
    BY <1>1 DEF Covered
  <1>3. ASSUME NEW t \in Tasks, CallStep(t) PROVE CallInv'
    <2>1. GoesOn(t)
      BY <1>3, CallGoesOn DEF CallInv
    <2>2. written \subseteq written' /\ written' \subseteq issued'
      BY <2>1 DEF GoesOn, CallInv, WritePcs
    <2>3. \A u \in Tasks : task'[u].pc \in WritePcs => Arg(u)' \in issued'
      BY <2>1 DEF GoesOn, CallInv, Arg, WritePcs, ReadPcs, DeletePcs, FlushPcs
    <2>4. task[t].pc # "idle"
      BY <2>1 DEF GoesOn, ReadPcs, DeletePcs, FlushPcs
    <2>5. ~serving => \A u \in Tasks \ {t} : At(u, "idle") /\ At(u, "idle")'
      BY <2>1, <2>4 DEF CallInv, GoesOn, At
    <2>6. ~serving' => \A u, v \in Tasks : u = v \/ At(u, "idle")' \/ At(v, "idle")'
      BY <2>1, <2>5 DEF GoesOn
    <2>7. ASSUME NEW u \in Tasks \ {t} PROVE CallOK(u)'
      <3>1. CallOK(u) /\ task'[u] = task[u] /\ Arg(u)' = Arg(u) /\ Ino(u)' = Ino(u)
        BY <1>1, <2>1 DEF CallInv, GoesOn, Arg, Ino
      <3>2. WriteCall(u)' /\ LoopCall(u)'
        BY <1>1, <1>2, <2>1, <2>2, <3>1
        DEF CallOK, WriteCall, LoopCall, Pending, Current, At, GoesOn
      <3>3. RestCall(u)'
        BY <1>1, <2>1, <2>5, <3>1 DEF CallOK, RestCall, Reads, At, GoesOn
      <3> QED
        BY <3>2, <3>3 DEF CallOK
    <2>8. CallOK(t)'
      <3>1. CallOK(t) /\ Ino(t)' = Ino(t)
        BY <1>1 DEF CallInv, Ino
      <3>2. task[t].pc \notin FlushPcs => Arg(t)' = Arg(t)
        BY <2>1 DEF GoesOn, Arg
      <3>3. WriteCall(t)'
        <4>1. CASE Pending(t)
          BY <1>1, <1>2, <2>1, <2>2, <2>4, <3>1, <3>2, <4>1
          DEF CallOK, WriteCall, Pending, At, GoesOn, WritePcs, ReadPcs, DeletePcs, FlushPcs
        <4>2. CASE ~Pending(t)
          BY <1>1, <2>4, <3>1, <4>2 DEF CallOK, WriteCall, Pending, At
        <4> QED
          BY <4>1, <4>2
      <3>4. LoopCall(t)'
        BY <1>1, <2>1, <2>4, <3>1, <3>2
        DEF CallOK, LoopCall, Current, At, GoesOn, WritePcs, ReadPcs, DeletePcs, FlushPcs
      <3>5. RestCall(t)'
        BY <1>1, <2>1, <2>4, <3>1 DEF CallOK, RestCall, Reads, At, GoesOn
      <3> QED
        BY <3>3, <3>4, <3>5 DEF CallOK
    <2>9. \A u \in Tasks : CallOK(u)'
      BY <2>7, <2>8
    <2> QED
      BY <1>1, <2>2, <2>3, <2>6, <2>9 DEF CallInv
  <1>4. ASSUME UNCHANGED <<task, serving, issued, written>> PROVE CallInv'
    BY <1>1, <1>2, <1>4 DEF CallInv, CallOK, WriteCall, LoopCall, RestCall, Pending, Reads, Current,
       At, Arg, Ino
  <1>5. ASSUME NEW s \in Slices, Evict(s) PROVE CallInv'
    BY <1>4, <1>5 DEF Evict, histVars
  <1>6. ASSUME NEW t \in Tasks, ReplayWal(t) PROVE CallInv'
    <2>1. /\ ~serving /\ (\A u \in Tasks : task[u].pc = "idle")
          /\ UNCHANGED <<issued, written>>
      BY <1>6 DEF ReplayWal, At
    <2>2. \A u \in Tasks \ {t} : task'[u] = task[u]
      BY <1>6, GotoMoves DEF ReplayWal, Moved, CallInv, KeptInv
    <2>3. \/ serving' /\ task' = task
          \/ ~serving' /\ task'[t].pc = "drain"
      <3>1. Goto(t, "drain") => task'[t].pc = "drain"
        BY GotoMoves DEF Moved, CallInv, KeptInv
      <3> QED
        BY <1>6, <2>1, <3>1 DEF ReplayWal
    <2>4. \A u \in Tasks : vfs[u].pc = "idle"
      BY <2>1 DEF CallInv, CallOK, RestCall
    <2>5. ASSUME NEW u \in Tasks PROVE CallOK(u)'
      <3>1. CallOK(u) /\ vfs'[u].pc = "idle"
        BY <1>1, <2>4 DEF CallInv
      <3>2. WriteCall(u)' /\ LoopCall(u)'
        BY <1>1, <3>1 DEF CallOK, WriteCall, LoopCall, Pending
      <3>3. RestCall(u)'
        BY <2>1, <2>3, <3>1 DEF RestCall, Reads, At
      <3> QED
        BY <3>2, <3>3 DEF CallOK
    <2>6. \A u \in Tasks : task'[u].pc \notin WritePcs
      BY <2>1, <2>2, <2>3 DEF WritePcs
    <2> QED
      BY <1>1, <2>1, <2>2, <2>5, <2>6 DEF CallInv, At
  <1> QED
    BY <1>3, <1>5, <1>6 DEF CacheStep

LEMMA CallNext ==
  ASSUME CallInv, [VfsNext]_allVars
  PROVE  CallInv'
  <1>0. KeptInv' /\ VfsTypeOK
    BY VfsStepIsCacheStep, KeptNext DEF CallInv, KeptInv
  <1>1. CASE VfsCrash
    <2>1. /\ \A t \in Tasks : vfs'[t] = Rest /\ task'[t] = Idle
          /\ ~serving' /\ UNCHANGED <<issued, written, metaVars, history>>
          /\ dirty_inodes' = {} /\ todo' = {} /\ releases' = {}
          /\ vfs' \in [Tasks -> VfsStates]
      BY <1>1, RestType DEF VfsCrash, Crash
    <2>2. VfsTypeOK'
      BY <1>0, <2>1 DEF VfsTypeOK, KeptInv, metaVars, history
    <2>3. ASSUME NEW t \in Tasks PROVE CallOK(t)'
      BY <2>1 DEF CallOK, WriteCall, LoopCall, RestCall, Pending, Reads, Rest, Idle, At
    <2> QED
      BY <1>0, <2>1, <2>2, <2>3 DEF CallInv, Idle, At, WritePcs
  <1>2. CASE UNCHANGED allVars
    BY <1>0, <1>2 DEF CallInv, VfsTypeOK, KeptInv, CallOK, WriteCall, LoopCall, RestCall, Pending,
       Reads, Current, Covered, At, Arg, Ino, allVars, vfsVars, metaVars, history,
       vars, tierVars, histVars
  <1> QED
    BY <1>0, <1>1, <1>2, CallRequest, CallCacheStep, CallOp, CallBackground DEF VfsNext

LEMMA CallInit == VfsInit => CallInv
  <1> SUFFICES ASSUME VfsInit PROVE CallInv
    OBVIOUS
  <1>1. KeptInv
    BY KeptInit DEF VfsInit
  <1>2. \A t \in Tasks : task[t] = Idle /\ vfs[t] = Rest
    BY DEF VfsInit, Init
  <1>3. VfsTypeOK
    <2>1. vfs \in [Tasks -> VfsStates]
      BY RestType DEF VfsInit
    <2>2. data \in [Slices -> Contents] /\ file \in [Inodes -> Contents]
      BY ContentTypes DEF VfsInit
    <2>3. size \in [Inodes -> 0..ChunkBlocks] /\ chunks \in [Inodes -> Seq(Slices)]
      BY ChunkBlocksAssumption DEF VfsInit
    <2> QED
      BY <1>1, <2>1, <2>2, <2>3, MaxChangesAssumption DEF VfsInit, VfsTypeOK, KeptInv
  <1>4. ASSUME NEW t \in Tasks PROVE CallOK(t)
    BY <1>2 DEF VfsInit, Init, CallOK, WriteCall, LoopCall, RestCall, Pending, Reads, Rest, Idle, At
  <1> QED
    BY <1>1, <1>2, <1>3, <1>4 DEF VfsInit, Init, CallInv, Idle, At, WritePcs

\* Every variable of the data path keeps its type: a request is on an inode,
\* a loop stays within the list it has read, a size within the chunk
\* (vfs.rs:51-310).
THEOREM VfsTypeCorrect == VfsSpec => []VfsTypeOK
  <1>1. VfsInit => CallInv
    BY CallInit
  <1>2. CallInv /\ [VfsNext]_allVars => CallInv'
    BY CallNext
  <1>3. CallInv => VfsTypeOK
    BY DEF CallInv
  <1> QED
    BY <1>1, <1>2, <1>3, PTL DEF VfsSpec

-----------------------------------------------------------------------------
(* No slice of a chunk is deleted.  The strengthening follows a slice from *)
(* the write that makes it to the table, and from the table to the list of *)
(* the compaction that deletes it: a slice is new to everybody, in one     *)
(* chunk, or in the list of one compaction, whose lock keeps others away.  *)

Refs(i) == {chunks[i][k] : k \in 1..Len(chunks[i])}
Seen(t) == {vfs[t].seen[k] : k \in 1..Len(vfs[t].seen)}
Sees(t) == Reads(t) \/ Holds(t)
Deletes(t) == vfs[t].pc \in {"cdelete", "cflush"}

TableOK(i) ==
    /\ Refs(i) \subseteq written \ deleted
    /\ \A j \in Inodes \ {i} : Refs(i) \cap Refs(j) = {}

FreshOK(t) == Pending(t) => Arg(t) \notin deleted /\ \A i \in Inodes : Arg(t) \notin Refs(i)

SeenOK(t) ==
    Sees(t) => /\ Seen(t) \subseteq written
               /\ Merges(t) => \A j \in Inodes \ {Ino(t)} : Seen(t) \cap Refs(j) = {}
               /\ Deletes(t) => \A j \in Inodes : Seen(t) \cap Refs(j) = {}

Apart(t, u) ==
    /\ Pending(t) /\ Sees(u) => Arg(t) \notin Seen(u)
    /\ t # u => /\ Pending(t) /\ Pending(u) => Arg(t) # Arg(u)
                /\ Holds(t) /\ Holds(u) => Ino(t) # Ino(u)

RefsInv ==
    /\ CallInv /\ deleted \subseteq written
    /\ \A i \in Inodes : TableOK(i)
    /\ \A t \in Tasks : FreshOK(t) /\ SeenOK(t) /\ \A u \in Tasks : Apart(t, u)

\* A step of t that leaves the table alone.
LEMMA RefsTaskStep ==
  ASSUME RefsInv, CallInv', NEW t \in Tasks, chunks' = chunks, deleted' = deleted,
         written \subseteq written',
         \A u \in Tasks \ {t} : vfs'[u] = vfs[u] /\ task'[u] = task[u],
         FreshOK(t)', SeenOK(t)', \A u \in Tasks : Apart(t, u)' /\ Apart(u, t)'
  PROVE  RefsInv'
  <1>1. \A i \in Inodes : Refs(i)' = Refs(i)
    BY DEF Refs
  <1>2. \A i \in Inodes : TableOK(i)'
    BY <1>1 DEF RefsInv, TableOK
  <1>3. \A u \in Tasks \ {t} : /\ Arg(u)' = Arg(u) /\ Ino(u)' = Ino(u) /\ Seen(u)' = Seen(u)
                               /\ Pending(u)' <=> Pending(u)
                               /\ Sees(u)' <=> Sees(u)
                               /\ Merges(u)' <=> Merges(u)
                               /\ Deletes(u)' <=> Deletes(u)
                               /\ Holds(u)' <=> Holds(u)
    BY DEF Arg, Ino, Seen, Pending, Sees, Reads, Merges, Deletes, Holds
  <1>4. \A u \in Tasks \ {t} : FreshOK(u)' /\ SeenOK(u)'
    BY <1>1, <1>3 DEF RefsInv, FreshOK, SeenOK
  <1>5. \A u, v \in Tasks \ {t} : Apart(u, v)'
    BY <1>3 DEF RefsInv, Apart
  <1> QED
    BY <1>2, <1>4, <1>5 DEF RefsInv

\* It takes on no role it had not.
Subdues(t) ==
    /\ Pending(t)' => Pending(t) /\ Arg(t)' = Arg(t)
    /\ Sees(t)' => Sees(t) /\ Seen(t)' = Seen(t) /\ Ino(t)' = Ino(t)
    /\ Holds(t)' => Holds(t)
    /\ Merges(t)' => Merges(t)
    /\ Deletes(t)' => Deletes(t)

LEMMA SubduedStep ==
  ASSUME RefsInv, CallInv', NEW t \in Tasks, chunks' = chunks, deleted' = deleted,
         written \subseteq written', Subdues(t),
         \A u \in Tasks \ {t} : vfs'[u] = vfs[u] /\ task'[u] = task[u]
  PROVE  RefsInv'
  <1>1. \A i \in Inodes : Refs(i)' = Refs(i)
    BY DEF Refs
  <1>2. Holds(t)' => Sees(t)'
    BY DEF Sees
  <1>3. FreshOK(t)' /\ SeenOK(t)'
    BY <1>1 DEF RefsInv, FreshOK, SeenOK, Subdues
  <1>4. ASSUME NEW u \in Tasks PROVE Apart(t, u)' /\ Apart(u, t)'
    <2>1. CASE u = t
      BY <2>1 DEF RefsInv, Apart, Subdues
    <2>2. CASE u # t
      <3>1. /\ Arg(u)' = Arg(u) /\ Ino(u)' = Ino(u) /\ Seen(u)' = Seen(u)
            /\ Pending(u)' <=> Pending(u)
            /\ Sees(u)' <=> Sees(u)
            /\ Holds(u)' <=> Holds(u)
        BY <2>2 DEF Arg, Ino, Seen, Pending, Sees, Reads, Merges, Holds
      <3> QED
        BY <1>2, <3>1 DEF RefsInv, Apart, Subdues
    <2> QED
      BY <2>1, <2>2
  <1> QED
    BY <1>3, <1>4, RefsTaskStep

\* t goes to a state with none of these roles.
LEMMA RoleLess ==
  ASSUME RefsInv, CallInv', NEW t \in Tasks, VfsGoto(t, vfs'[t]),
         vfs'[t].pc \in {"idle", "wid", "wsize", "clock", "sleep"},
         UNCHANGED <<chunks, task, deleted, written>>
  PROVE  RefsInv'
  <1>1. \A u \in Tasks \ {t} : vfs'[u] = vfs[u]
    BY VfsMoves DEF RefsInv, CallInv
  <1>2. Subdues(t)
    BY DEF Subdues, Pending, Sees, Reads, Holds, Merges, Deletes
  <1> QED
    BY <1>1, <1>2, SubduedStep

LEMMA RefsRequest ==
  ASSUME RefsInv, CallInv', Request
  PROVE  RefsInv'
  <1>0. VfsTypeOK /\ Fuse \in Tasks
    BY FuseTask DEF RefsInv, CallInv
  <1>1. PICK i \in Inodes : \/ Write(i) \/ Read(i) \/ Fsync(i) \/ Release(i)
                            \/ \E n \in 0..ChunkBlocks : Truncate(i, n)
    BY DEF Request
  <1>2. UNCHANGED <<chunks, task, deleted, written>>
    BY <1>1 DEF Write, Read, Fsync, Release, Truncate, metaVars, cacheVars, vars, histVars
  <1>3. CASE Write(i) \/ Fsync(i)
    <2>1. PICK l \in {"wid", "clock"} : VfsGoto(Fuse, Begun(l, i))
      BY <1>3 DEF Write, Fsync, Compact, Begun
    <2>2. vfs'[Fuse] = Begun(l, i) /\ Begun(l, i).pc = l
      BY <1>0, <2>1, VfsMoves, BegunFields
    <2> QED
      BY <1>0, <1>2, <2>1, <2>2, RoleLess
  <1>4. CASE Read(i)
    <2>1. VfsGoto(Fuse, Listed("rnext", i, chunks[i])) /\ chunks[i] \in Seq(Slices)
      BY <1>0, <1>4 DEF Read, Listed, VfsTypeOK
    <2>2. /\ vfs'[Fuse] = Listed("rnext", i, chunks[i])
          /\ vfs'[Fuse].pc = "rnext" /\ vfs'[Fuse].seen = chunks[i]
          /\ \A u \in Tasks \ {Fuse} : vfs'[u] = vfs[u]
      BY <1>0, <2>1, VfsMoves, ListedFields
    <2>3. Seen(Fuse)' = Refs(i) /\ Refs(i) \subseteq written
      BY <2>2 DEF Seen, Refs, RefsInv, TableOK
    <2>4. FreshOK(Fuse)' /\ SeenOK(Fuse)'
      BY <1>2, <2>2, <2>3 DEF FreshOK, Pending, SeenOK, Merges, Deletes
    <2>5. ASSUME NEW u \in Tasks PROVE Apart(Fuse, u)' /\ Apart(u, Fuse)'
      <3>1. ~Pending(Fuse)' /\ ~Holds(Fuse)'
        BY <2>2 DEF Pending, Holds, Merges
      <3>2. Pending(u)' => u # Fuse /\ Pending(u) /\ Arg(u)' = Arg(u)
        BY <1>2, <2>2, <3>1 DEF Pending, Arg
      <3>3. Pending(u)' => Arg(u)' \notin Seen(Fuse)'
        BY <2>3, <3>2 DEF RefsInv, FreshOK
      <3> QED
        BY <3>1, <3>3 DEF Apart
    <2> QED
      BY <1>0, <1>2, <2>2, <2>4, <2>5, RefsTaskStep
  <1>5. CASE Release(i) \/ \E n \in 0..ChunkBlocks : Truncate(i, n)
    <2>1. vfs' = vfs
      BY <1>5 DEF Release, Truncate
    <2>2. Subdues(Fuse)
      BY <1>2, <2>1 DEF Subdues, Pending, Sees, Reads, Holds, Merges, Deletes, Arg, Seen, Ino
    <2> QED
      BY <1>0, <1>2, <2>1, <2>2, SubduedStep
  <1> QED
    BY <1>1, <1>3, <1>4, <1>5

LEMMA RefsBackground ==
  ASSUME RefsInv, CallInv', NEW t \in Tasks, Background(t)
  PROVE  RefsInv'
  <1>0. VfsTypeOK
    BY DEF RefsInv, CallInv
  <1>1. UNCHANGED <<chunks, task, deleted, written>>
    BY DEF Background, FlusherWakes, FlusherDrains, RunRelease, FlusherCompacts, Notified, metaVars,
           cacheVars, vars, histVars
  <1>2. PICK new : VfsGoto(t, new) /\ new.pc \in {"sleep", "idle", "clock"}
    <2>1. CASE FlusherWakes(t)
      <3>1. [Rest EXCEPT !.pc = "sleep"].pc = "sleep"
        BY DEF Rest
      <3> QED
        BY <2>1, <3>1 DEF FlusherWakes
    <2>2. CASE FlusherDrains(t)
      BY <2>2 DEF FlusherDrains, Rest
    <2>3. ASSUME NEW i \in Inodes, RunRelease(t, i) \/ FlusherCompacts(t, i)
          PROVE  VfsGoto(t, Begun("clock", i)) /\ Begun("clock", i).pc = "clock"
      BY <2>3, BegunFields DEF RunRelease, FlusherCompacts, Compact, Begun
    <2> QED
      BY <2>1, <2>2, <2>3 DEF Background
  <1>3. vfs'[t] = new
    BY <1>0, <1>2, VfsMoves
  <1> QED
    BY <1>1, <1>2, <1>3, RoleLess

\* Steps of an operation that leave the table alone and take no lock.
LEMMA RefsMetaError ==
  ASSUME RefsInv, CallInv', NEW t \in Tasks, MetaError(t)
  PROVE  RefsInv'
  <1>1. vfs'[t] = Rest /\ VfsGoto(t, Rest)
    BY VfsMoves DEF MetaError, Finish, RefsInv, CallInv
  <1>2. UNCHANGED <<chunks, task, deleted, written>>
    BY DEF MetaError, metaVars, cacheVars, vars, histVars
  <1> QED
    BY <1>1, <1>2, RoleLess DEF Rest

LEMMA RefsLoop ==
  ASSUME RefsInv, CallInv', NEW t \in Tasks,
         \/ ReadSlice(t, "rnext", "rgot") \/ ReadSlice(t, "cread", "cgot")
         \/ CopySlice(t, "rgot", "rnext") \/ CopySlice(t, "cgot", "cread")
         \/ DeleteOld(t) \/ FlushAll(t)
  PROVE  RefsInv'
  <1>0. VfsTypeOK /\ TypeOK /\ vfs[t] \in VfsStates
    BY DEF RefsInv, CallInv, VfsTypeOK
  <1>1. /\ UNCHANGED <<chunks, deleted, written>>
        /\ \A u \in Tasks \ {t} : task'[u] = task[u]
    <2>1. CASE CopySlice(t, "rgot", "rnext") \/ CopySlice(t, "cgot", "cread")
      BY <2>1 DEF CopySlice, metaVars, cacheVars, vars, histVars
    <2>2. CASE ReadSlice(t, "rnext", "rgot") \/ ReadSlice(t, "cread", "cgot")
      BY <1>0, <2>2, CallStarts DEF ReadSlice, metaVars, Starts
    <2>3. CASE DeleteOld(t) \/ FlushAll(t)
      BY <1>0, <2>3, CallStarts DEF DeleteOld, FlushAll, metaVars, Starts
    <2> QED
      BY <2>1, <2>2, <2>3
  <1>2. PICK new : /\ VfsGoto(t, new)
                   /\ \/ new.pc = "idle"
                      \/ /\ new.seen = vfs[t].seen /\ new.ino = vfs[t].ino
                         /\ \/ {vfs[t].pc, new.pc} \subseteq {"rnext", "rgot"}
                            \/ {vfs[t].pc, new.pc} \subseteq {"cread", "cgot"}
                            \/ {vfs[t].pc, new.pc} \subseteq {"cdelete", "cflush"}
    <2>1. ASSUME NEW from, NEW l \in {"rgot", "cgot"}, ReadSlice(t, from, l)
          PROVE  VfsGoto(t, Advanced(vfs[t], l)) /\ vfs[t].pc = from
      BY <2>1 DEF ReadSlice, Advanced, VfsAt
    <2>2. CASE ReadSlice(t, "rnext", "rgot") \/ ReadSlice(t, "cread", "cgot")
      BY <1>0, <2>1, <2>2, AdvancedFields
    <2>3. ASSUME NEW from, NEW l \in {"rnext", "cread"}, CopySlice(t, from, l)
          PROVE  /\ vfs[t].pc = from
                 /\ \/ VfsGoto(t, Rest)
                    \/ \E got \in SUBSET Blocks :
                         VfsGoto(t, Filled(vfs[t], l, Over(vfs[t].buf, data[Arg(t)], got)))
      BY <2>3 DEF CopySlice, Filled, VfsAt, Finish
    <2>4. ASSUME NEW l, NEW c
          PROVE  /\ Filled(vfs[t], l, c).pc = l /\ Filled(vfs[t], l, c).ino = vfs[t].ino
                 /\ Filled(vfs[t], l, c).seen = vfs[t].seen
      BY <1>0 DEF Filled, VfsStates
    <2>5. Rest.pc = "idle"
      BY DEF Rest
    <2>6. CASE CopySlice(t, "rgot", "rnext") \/ CopySlice(t, "cgot", "cread")
      BY <2>3, <2>4, <2>5, <2>6
    <2>7. CASE DeleteOld(t)
      <3>1. vfs[t].pc = "cdelete" /\ VfsGoto(t, [vfs[t] EXCEPT !.k = @ + 1])
        BY <2>7 DEF DeleteOld, VfsAt
      <3>2. [vfs[t] EXCEPT !.k = @ + 1] = Advanced(vfs[t], "cdelete")
        BY <1>0, <3>1 DEF Advanced, VfsStates
      <3> QED
        BY <1>0, <3>1, <3>2, AdvancedFields
    <2>8. CASE FlushAll(t)
      <3>1. vfs[t].pc = "cdelete" /\ VfsGoto(t, WentTo(vfs[t], "cflush"))
        BY <2>8 DEF FlushAll, VfsAt, WentTo
      <3> QED
        BY <1>0, <3>1, WentToFields
    <2> QED
      BY <2>2, <2>6, <2>7, <2>8
  <1>3. vfs'[t] = new /\ \A u \in Tasks \ {t} : vfs'[u] = vfs[u]
    BY <1>0, <1>2, VfsMoves
  <1>4. Subdues(t)
    <2>1. Seen(t)' = Seen(t) \/ new.pc = "idle"
      BY <1>2, <1>3 DEF Seen
    <2> QED
      BY <1>2, <1>3, <2>1 DEF Subdues, Pending, Sees, Reads, Holds, Merges, Deletes, Ino
  <1> QED
    BY <1>1, <1>3, <1>4, SubduedStep

\* A slice just handed to the cache.
LEMMA RefsNewSlice ==
  ASSUME RefsInv, CallInv', NEW t \in Tasks, NEW s, s \notin issued, Starts(t, "wal", s),
         NEW l, VfsGoto(t, WentTo(vfs[t], l)), chunks' = chunks,
         \/ vfs[t].pc = "wid" /\ l = "wmeta"
         \/ vfs[t].pc = "cread" /\ l = "creplace"
  PROVE  RefsInv'
  <1>0. VfsTypeOK /\ vfs[t] \in VfsStates
    BY DEF RefsInv, CallInv, VfsTypeOK
  <1>1. /\ vfs'[t] = WentTo(vfs[t], l) /\ vfs'[t].pc = l
        /\ vfs'[t].seen = vfs[t].seen /\ vfs'[t].ino = vfs[t].ino
        /\ \A u \in Tasks \ {t} : vfs'[u] = vfs[u] /\ task'[u] = task[u]
    BY <1>0, VfsMoves, WentToFields DEF Starts
  <1>2. /\ s \notin written /\ s \notin deleted /\ \A i \in Inodes : s \notin Refs(i)
        /\ \A u \in Tasks : Sees(u) => s \notin Seen(u)
        /\ \A u \in Tasks : Pending(u) => Arg(u) # s
    BY DEF RefsInv, TableOK, SeenOK, CallInv, CallOK, WriteCall
  <1>3. /\ Arg(t)' = s /\ Seen(t)' = Seen(t) /\ Ino(t)' = Ino(t)
        /\ \A i \in Inodes : Refs(i)' = Refs(i)
        /\ UNCHANGED <<written, deleted>>
    BY <1>1 DEF Starts, Arg, Seen, Ino, Refs
  <1>4. /\ Sees(t)' => Sees(t) /\ Merges(t)
        /\ Holds(t)' => Holds(t)
        /\ ~Deletes(t)'
    BY <1>1 DEF Sees, Reads, Holds, Merges, Deletes
  <1>5. FreshOK(t)' /\ SeenOK(t)'
    BY <1>2, <1>3, <1>4 DEF RefsInv, FreshOK, SeenOK
  <1>6. ASSUME NEW u \in Tasks PROVE Apart(t, u)' /\ Apart(u, t)'
    <2>1. CASE u = t
      BY <1>2, <1>3, <1>4, <2>1 DEF Apart
    <2>2. CASE u # t
      <3>1. /\ Arg(u)' = Arg(u) /\ Ino(u)' = Ino(u) /\ Seen(u)' = Seen(u)
            /\ Pending(u)' <=> Pending(u)
            /\ Sees(u)' <=> Sees(u)
            /\ Holds(u)' <=> Holds(u)
        BY <1>1, <2>2 DEF Arg, Ino, Seen, Pending, Sees, Reads, Merges, Holds
      <3> QED
        BY <1>2, <1>3, <1>4, <3>1 DEF RefsInv, Apart
    <2> QED
      BY <2>1, <2>2
  <1> QED
    BY <1>1, <1>3, <1>5, <1>6, RefsTaskStep

LEMMA RefsWrites ==
  ASSUME RefsInv, CallInv', NEW t \in Tasks, (t = Fuse /\ WriteSlice) \/ WriteMerged(t)
  PROVE  RefsInv'
  <1>0. TypeOK
    BY DEF RefsInv, CallInv, VfsTypeOK
  <1>1. CASE MetaError(t)
    BY <1>1, RefsMetaError
  <1>2. CASE ~MetaError(t)
    <2>0. PICK s : s = NextSlice
      OBVIOUS
    <2>1. CASE t = Fuse /\ WriteSlice
      <3>1. /\ Starts(t, "wal", s) /\ s \notin issued /\ chunks' = chunks /\ vfs[t].pc = "wid"
            /\ VfsGoto(t, WentTo(vfs[t], "wmeta"))
        BY <1>0, <1>2, <2>0, <2>1, CallStarts DEF WriteSlice, WentTo, metaVars, VfsAt
      <3> QED
        BY <3>1, RefsNewSlice
    <2>2. CASE WriteMerged(t)
      <3>1. /\ Starts(t, "wal", s) /\ s \notin issued /\ chunks' = chunks /\ vfs[t].pc = "cread"
            /\ VfsGoto(t, WentTo(vfs[t], "creplace"))
        BY <1>0, <1>2, <2>0, <2>2, CallStarts DEF WriteMerged, WentTo, metaVars, VfsAt
      <3> QED
        BY <3>1, RefsNewSlice
    <2> QED
      BY <2>1, <2>2
  <1> QED
    BY <1>1, <1>2

\* A compaction takes the lock: the list it reads is its own until it lets go.
LEMMA RefsLock ==
  ASSUME RefsInv, CallInv', NEW t \in Tasks, LockAndList(t)
  PROVE  RefsInv'
  <1>0. VfsTypeOK /\ vfs[t] \in VfsStates /\ vfs[t].pc = "clock" /\ Ino(t) \in Inodes
        /\ vfs[t].seen = <<>>
    BY DEF RefsInv, CallInv, CallOK, RestCall, LoopCall, VfsTypeOK, LockAndList, VfsAt
  <1>1. UNCHANGED <<chunks, task, deleted, written>>
    BY DEF LockAndList, metaVars, cacheVars, vars, histVars
  <1>2. PICK new \in {Relisted(vfs[t], chunks[Ino(t)]), WentTo(vfs[t], "cdelete")} :
          VfsGoto(t, new)
    BY DEF LockAndList, Relisted, WentTo
  <1>3. /\ new.ino = vfs[t].ino
        /\ \/ new.pc = "cread" /\ new.seen = chunks[Ino(t)]
           \/ new.pc = "cdelete" /\ new.seen = <<>>
    BY <1>0, <1>2, RelistedFields, WentToFields DEF VfsTypeOK
  <1>4. vfs'[t] = new /\ \A u \in Tasks \ {t} : vfs'[u] = vfs[u]
    BY <1>0, <1>2, VfsMoves
  <1>5. /\ Ino(t)' = Ino(t) /\ Seen(t)' \subseteq Refs(Ino(t)) /\ ~Pending(t)'
        /\ \A i \in Inodes : Refs(i)' = Refs(i)
        /\ Deletes(t)' => Seen(t)' = {}
    BY <1>1, <1>3, <1>4 DEF Ino, Seen, Refs, Pending, Deletes
  <1>6. FreshOK(t)' /\ SeenOK(t)'
    BY <1>0, <1>1, <1>5 DEF RefsInv, TableOK, FreshOK, SeenOK
  <1>7. ASSUME NEW u \in Tasks PROVE Apart(t, u)' /\ Apart(u, t)'
    <2>1. CASE u = t
      BY <1>5, <2>1 DEF Apart
    <2>2. CASE u # t
      <3>1. /\ Arg(u)' = Arg(u) /\ Ino(u)' = Ino(u)
            /\ Pending(u)' <=> Pending(u)
            /\ Holds(u)' <=> Holds(u)
        BY <1>1, <1>4, <2>2 DEF Arg, Ino, Pending, Merges, Holds
      <3>2. Holds(u) => Ino(u) # Ino(t)
        BY DEF LockAndList, Locked, Holds, Merges
      <3>3. Pending(u) => Arg(u) \notin Seen(t)'
        BY <1>0, <1>5 DEF RefsInv, FreshOK
      <3> QED
        BY <1>5, <3>1, <3>2, <3>3 DEF Apart
    <2> QED
      BY <2>1, <2>2
  <1> QED
    BY <1>1, <1>4, <1>6, <1>7, RefsTaskStep

LEMMA RefsReturns ==
  ASSUME RefsInv, CallInv', NEW t \in Tasks,
         \/ ListFails(t) \/ CompactReturns(t)
         \/ t = Fuse /\ (WriteSize \/ ReadReturns)
  PROVE  RefsInv'
  <1>1. CASE MetaError(t)
    BY <1>1, RefsMetaError
  <1>2. CASE ~MetaError(t)
    <2>1. VfsGoto(t, Rest) /\ UNCHANGED <<chunks, task, deleted, written>>
      BY <1>2 DEF ListFails, CompactReturns, WriteSize, ReadReturns, Finish, metaVars, cacheVars,
         vars, histVars
    <2>2. vfs'[t] = Rest
      BY <2>1, VfsMoves DEF RefsInv, CallInv
    <2> QED
      BY <2>1, <2>2, RoleLess DEF Rest
  <1> QED
    BY <1>1, <1>2

\* The slice t has written enters the chunk of its inode.
LEMMA RefsTable ==
  ASSUME RefsInv, CallInv', NEW t \in Tasks, NEW i \in Inodes, i = Ino(t),
         Pending(t), At(t, "idle"), ~Pending(t)',
         UNCHANGED <<task, written, deleted>>,
         \A u \in Tasks \ {t} : vfs'[u] = vfs[u],
         Refs(i)' \subseteq Refs(i) \cup {Arg(t)},
         \A j \in Inodes \ {i} : Refs(j)' = Refs(j),
         Sees(t)' => /\ Holds(t) /\ Merges(t) /\ ~Merges(t)' /\ Refs(i)' = {Arg(t)}
                     /\ Seen(t)' = Seen(t) /\ Ino(t)' = Ino(t)
  PROVE  RefsInv'
  <1>0. /\ Arg(t) \in written /\ Arg(t) \notin deleted
        /\ \A j \in Inodes : Arg(t) \notin Refs(j)
        /\ \A u \in Tasks : Sees(u) => Arg(t) \notin Seen(u)
        /\ \A u \in Tasks \ {t} : Pending(u) => Arg(u) # Arg(t)
    BY DEF RefsInv, FreshOK, Apart, CallInv, CallOK, WriteCall
  <1>1. ASSUME NEW j \in Inodes PROVE TableOK(j)'
    BY <1>0 DEF RefsInv, TableOK
  <1>2. \A u \in Tasks \ {t} : /\ Arg(u)' = Arg(u) /\ Ino(u)' = Ino(u) /\ Seen(u)' = Seen(u)
                               /\ Pending(u)' <=> Pending(u)
                               /\ Sees(u)' <=> Sees(u)
                               /\ Merges(u)' <=> Merges(u)
                               /\ Deletes(u)' <=> Deletes(u)
                               /\ Holds(u)' <=> Holds(u)
    BY DEF Arg, Ino, Seen, Pending, Sees, Reads, Merges, Deletes, Holds
  <1>3. ASSUME NEW u \in Tasks \ {t} PROVE FreshOK(u)' /\ SeenOK(u)'
    BY <1>0, <1>2 DEF RefsInv, FreshOK, SeenOK
  <1>4. FreshOK(t)' /\ SeenOK(t)'
    <2>1. Sees(t)' => Sees(t)
      BY DEF Sees
    <2> QED
      BY <1>0, <2>1 DEF RefsInv, FreshOK, SeenOK
  <1>5. ASSUME NEW u \in Tasks, NEW v \in Tasks PROVE Apart(u, v)'
    <2>1. CASE u # t /\ v # t
      BY <1>2, <2>1 DEF RefsInv, Apart
    <2>2. CASE u = t \/ v = t
      <3>1. Holds(t)' => Sees(t)'
        BY DEF Sees
      <3>2. Sees(t)' => Sees(t)
        BY DEF Sees
      <3> QED
        BY <1>2, <2>2, <3>1, <3>2 DEF RefsInv, Apart
    <2> QED
      BY <2>1, <2>2
  <1> QED
    BY <1>1, <1>3, <1>4, <1>5 DEF RefsInv

LEMMA RefsWriteMeta ==
  ASSUME RefsInv, CallInv', WriteMeta
  PROVE  RefsInv'
  <1>0. /\ VfsTypeOK /\ Fuse \in Tasks /\ vfs[Fuse] \in VfsStates
        /\ vfs[Fuse].pc = "wmeta" /\ At(Fuse, "idle")
    BY FuseTask DEF RefsInv, CallInv, VfsTypeOK, WriteMeta, VfsAt
  <1>1. CASE MetaError(Fuse)
    BY <1>0, <1>1, RefsMetaError
  <1>2. CASE ~MetaError(Fuse)
    <2>1. PICK i \in Inodes : i = Ino(Fuse)
      BY <1>0 DEF RefsInv, CallInv, CallOK, RestCall
    <2>2. PICK s : s = Arg(Fuse)
      OBVIOUS
    <2>3. /\ chunks' = [chunks EXCEPT ![i] = Append(@, s)]
          /\ UNCHANGED <<task, written, deleted>>
          /\ VfsGoto(Fuse, Rest) \/ VfsGoto(Fuse, WentTo(vfs[Fuse], "wsize"))
      BY <1>2, <2>1, <2>2 DEF WriteMeta, Finish, WentTo, cacheVars, vars, histVars
    <2>4. vfs'[Fuse].pc \in {"idle", "wsize"} /\ \A u \in Tasks \ {Fuse} : vfs'[u] = vfs[u]
      <3>1. CASE VfsGoto(Fuse, Rest)
        BY <1>0, <3>1, VfsMoves DEF Rest
      <3>2. CASE VfsGoto(Fuse, WentTo(vfs[Fuse], "wsize"))
        BY <1>0, <3>2, VfsMoves, WentToFields
      <3> QED
        BY <2>3, <3>1, <3>2
    <2>5. Pending(Fuse) /\ ~Pending(Fuse)' /\ ~Sees(Fuse)'
      BY <1>0, <2>4 DEF Pending, Sees, Reads, Holds, Merges
    <2>6. Refs(i)' \subseteq Refs(i) \cup {Arg(Fuse)}
      <3>1. chunks[i] \in Seq(Slices) /\ chunks'[i] = Append(chunks[i], s)
        BY <1>0, <2>3 DEF VfsTypeOK
      <3> QED
        BY <2>2, <3>1 DEF Refs
    <2>7. \A j \in Inodes \ {i} : Refs(j)' = Refs(j)
      BY <1>0, <2>3 DEF VfsTypeOK, Refs
    <2> QED
      BY <1>0, <2>1, <2>3, <2>4, <2>5, <2>6, <2>7, RefsTable
  <1> QED
    BY <1>1, <1>2

LEMMA RefsReplace ==
  ASSUME RefsInv, CallInv', NEW t \in Tasks, ReplaceSlices(t)
  PROVE  RefsInv'
  <1>0. /\ VfsTypeOK /\ vfs[t] \in VfsStates
        /\ vfs[t].pc = "creplace" /\ At(t, "idle")
    BY DEF RefsInv, CallInv, VfsTypeOK, ReplaceSlices, VfsAt
  <1>1. CASE MetaError(t)
    BY <1>0, <1>1, RefsMetaError
  <1>2. CASE ~MetaError(t)
    <2>1. PICK i \in Inodes : i = Ino(t)
      BY <1>0 DEF RefsInv, CallInv, CallOK, RestCall
    <2>2. PICK s : s = Arg(t)
      OBVIOUS
    <2>3. /\ chunks' = [chunks EXCEPT ![i] = <<s>>]
          /\ UNCHANGED <<task, written, deleted>>
          /\ VfsGoto(t, Rewound(vfs[t]))
      BY <1>2, <2>1, <2>2 DEF ReplaceSlices, Rewound, cacheVars, vars, histVars
    <2>4. /\ vfs'[t].pc = "cdelete" /\ vfs'[t].ino = vfs[t].ino /\ vfs'[t].seen = vfs[t].seen
          /\ \A u \in Tasks \ {t} : vfs'[u] = vfs[u]
      BY <1>0, <2>3, VfsMoves, RewoundFields
    <2>5. /\ Pending(t) /\ ~Pending(t)' /\ Merges(t) /\ Holds(t) /\ ~Merges(t)'
          /\ Seen(t)' = Seen(t) /\ Ino(t)' = Ino(t)
      BY <1>0, <2>4 DEF Pending, Holds, Merges, Seen, Ino
    <2>6. Refs(i)' = {Arg(t)}
      <3>1. chunks'[i] = <<s>>
        BY <1>0, <2>3 DEF VfsTypeOK
      <3>2. Len(<<s>>) = 1 /\ <<s>>[1] = s /\ 1..1 = {1}
        OBVIOUS
      <3> QED
        BY <2>2, <3>1, <3>2 DEF Refs
    <2>7. \A j \in Inodes \ {i} : Refs(j)' = Refs(j)
      BY <1>0, <2>3 DEF VfsTypeOK, Refs
    <2> QED
      BY <1>0, <2>1, <2>3, <2>4, <2>5, <2>6, <2>7, RefsTable
  <1> QED
    BY <1>1, <1>2

LEMMA RefsOp ==
  ASSUME RefsInv, CallInv', NEW t \in Tasks, OpStep(t)
  PROVE  RefsInv'
  <1>1. CASE t = Fuse /\ (WriteSlice \/ WriteMeta \/ WriteSize \/ ReadReturns)
    BY <1>1, RefsWrites, RefsWriteMeta, RefsReturns
  <1>2. CASE \/ ReadSlice(t, "rnext", "rgot") \/ ReadSlice(t, "cread", "cgot")
             \/ CopySlice(t, "rgot", "rnext") \/ CopySlice(t, "cgot", "cread")
             \/ DeleteOld(t) \/ FlushAll(t)
    BY <1>2, RefsLoop
  <1>3. CASE LockAndList(t) \/ ListFails(t) \/ WriteMerged(t) \/ ReplaceSlices(t)
             \/ CompactReturns(t)
    <2>1. CASE LockAndList(t)
      BY <2>1, RefsLock
    <2>2. CASE ListFails(t) \/ CompactReturns(t)
      BY <2>2, RefsReturns
    <2>3. CASE WriteMerged(t)
      BY <2>3, RefsWrites
    <2>4. CASE ReplaceSlices(t)
      BY <2>4, RefsReplace
    <2> QED
      BY <1>3, <2>1, <2>2, <2>3, <2>4
  <1> QED
    BY <1>1, <1>2, <1>3 DEF OpStep

\* What is being deleted is in the list of a compaction that has replaced it.
LEMMA OnlySeenDeleted ==
  ASSUME CallInv, NEW t \in Tasks, task[t].pc \in DeletePcs
  PROVE  vfs[t].pc = "cdelete" /\ Arg(t) \in Seen(t)
  <1>1. serving
    BY DEF CallInv, KeptInv, ReplayInv, DeletePcs
  <1>2. vfs[t].pc \in {"idle", "wid", "wmeta", "wsize", "rnext", "rgot", "sleep", "clock",
                       "cread", "cgot", "creplace", "cdelete", "cflush"}
    BY DEF CallInv, VfsTypeOK, VfsStates
  <1>3. CallOK(t) /\ ~At(t, "idle") /\ task[t].pc \notin WritePcs \cup ReadPcs \cup FlushPcs
    BY DEF CallInv, At, WritePcs, ReadPcs, DeletePcs, FlushPcs
  <1>4. vfs[t].pc = "cdelete"
    <2>1. /\ vfs[t].pc \notin {"wmeta", "creplace", "wsize"}
          /\ vfs[t].pc \notin {"rgot", "cgot", "cflush"}
          /\ vfs[t].pc \notin {"wid", "rnext", "sleep", "clock", "cread", "idle"}
      BY <1>1, <1>3 DEF CallOK, WriteCall, LoopCall, RestCall, Pending, At
    <2> QED
      BY <1>2, <2>1
  <1> QED
    BY <1>3, <1>4 DEF CallOK, LoopCall, Current, Seen

LEMMA RefsCacheStep ==
  ASSUME RefsInv, CallInv', CacheStep
  PROVE  RefsInv'
  <1>0. UNCHANGED <<chunks, vfs>> /\ CallInv
    BY DEF CacheStep, vfsVars, metaVars, RefsInv
  <1>1. /\ \A i \in Inodes : Refs(i)' = Refs(i)
        /\ \A u \in Tasks : /\ Ino(u)' = Ino(u) /\ Seen(u)' = Seen(u)
                            /\ Pending(u)' <=> Pending(u)
                            /\ Sees(u)' <=> Sees(u)
                            /\ Merges(u)' <=> Merges(u)
                            /\ Deletes(u)' <=> Deletes(u)
                            /\ Holds(u)' <=> Holds(u)
    BY <1>0 DEF Refs, Ino, Seen, Pending, Sees, Reads, Merges, Deletes, Holds
  <1>2. ASSUME \A u \in Tasks : Pending(u) => Arg(u)' = Arg(u),
               written \subseteq written', deleted' \subseteq written',
               \A s \in deleted' \ deleted :
                  \E t \in Tasks : Deletes(t) /\ s \in Seen(t)
        PROVE  RefsInv'
    <2>1. \A t \in Tasks : Deletes(t) => Sees(t)
      BY DEF Deletes, Sees, Holds
    <2>2. ASSUME NEW s \in deleted' \ deleted
          PROVE  /\ \A i \in Inodes : s \notin Refs(i)
                 /\ \A u \in Tasks : Pending(u) => Arg(u) # s
      BY <1>2, <2>1 DEF RefsInv, SeenOK, Apart
    <2>3. ASSUME NEW i \in Inodes PROVE TableOK(i)'
      BY <1>1, <1>2, <2>2 DEF RefsInv, TableOK
    <2>4. ASSUME NEW u \in Tasks PROVE FreshOK(u)' /\ SeenOK(u)'
      BY <1>1, <1>2, <2>2 DEF RefsInv, FreshOK, SeenOK
    <2>5. ASSUME NEW u \in Tasks, NEW v \in Tasks PROVE Apart(u, v)'
      BY <1>1, <1>2 DEF RefsInv, Apart
    <2> QED
      BY <1>2, <2>3, <2>4, <2>5 DEF RefsInv
  <1>3. ASSUME NEW t \in Tasks, CallStep(t) PROVE RefsInv'
    <2>1. GoesOn(t)
      BY <1>0, <1>3, CallGoesOn DEF CallInv
    <2>2. written \subseteq written'
      BY <2>1 DEF GoesOn
    <2>3. ASSUME NEW u \in Tasks, Pending(u) PROVE Arg(u)' = Arg(u)
      <3>1. task[u].pc \in WritePcs \cup {"idle"}
        BY <1>0, <2>3 DEF CallInv, CallOK, WriteCall
      <3>2. task[u].pc \notin FlushPcs
        BY <3>1 DEF WritePcs, FlushPcs
      <3> QED
        BY <2>1, <3>2 DEF GoesOn, Arg
    <2>4. ASSUME NEW s \in deleted' \ deleted
          PROVE  Deletes(t) /\ s \in Seen(t) /\ s \in written
      <3>1. task[t].pc \in DeletePcs /\ s = Arg(t)
        BY <2>1, <2>4 DEF GoesOn
      <3>2. Deletes(t) /\ s \in Seen(t)
        BY <1>0, <3>1, OnlySeenDeleted DEF Deletes
      <3>3. Sees(t)
        BY <3>2 DEF Deletes, Sees, Holds
      <3> QED
        BY <3>2, <3>3 DEF RefsInv, SeenOK
    <2>5. deleted' \subseteq written'
      BY <2>2, <2>4 DEF RefsInv
    <2> QED
      BY <1>2, <2>2, <2>3, <2>4, <2>5
  <1>4. ASSUME NEW s \in Slices, Evict(s) PROVE RefsInv'
    BY <1>2, <1>4 DEF Evict, histVars, Arg, RefsInv
  <1>5. ASSUME NEW t \in Tasks, ReplayWal(t) PROVE RefsInv'
    <2>1. \A u \in Tasks : ~Pending(u)
      BY <1>0, <1>5 DEF ReplayWal, CallInv, CallOK, RestCall, Pending
    <2> QED
      BY <1>2, <1>5, <2>1 DEF ReplayWal, RefsInv
  <1> QED
    BY <1>3, <1>4, <1>5 DEF CacheStep

LEMMA RefsNext ==
  ASSUME RefsInv, [VfsNext]_allVars
  PROVE  RefsInv'
  <1>0. CallInv'
    BY CallNext DEF RefsInv
  <1>1. CASE VfsCrash
    <2>1. UNCHANGED <<chunks, written, deleted>> /\ \A t \in Tasks : vfs'[t] = Rest
      BY <1>1 DEF VfsCrash, Crash, metaVars
    <2>2. \A t \in Tasks : ~Pending(t)' /\ ~Sees(t)' /\ ~Holds(t)'
      BY <2>1 DEF Pending, Sees, Reads, Holds, Merges, Rest
    <2>3. \A i \in Inodes : Refs(i)' = Refs(i)
      BY <2>1 DEF Refs
    <2>4. \A i \in Inodes : TableOK(i)'
      BY <2>1, <2>3 DEF RefsInv, TableOK
    <2> QED
      BY <1>0, <2>1, <2>2, <2>4 DEF RefsInv, FreshOK, SeenOK, Apart
  <1>2. CASE UNCHANGED allVars
    <2>1. UNCHANGED <<chunks, written, deleted, vfs, task>>
      BY <1>2 DEF allVars, vfsVars, metaVars, vars, histVars
    <2>2. \A i \in Inodes : Refs(i)' = Refs(i)
      BY <2>1 DEF Refs
    <2>3. \A t \in Tasks : /\ Arg(t)' = Arg(t) /\ Ino(t)' = Ino(t) /\ Seen(t)' = Seen(t)
                           /\ Pending(t)' <=> Pending(t)
                           /\ Sees(t)' <=> Sees(t)
                           /\ Merges(t)' <=> Merges(t)
                           /\ Deletes(t)' <=> Deletes(t)
                           /\ Holds(t)' <=> Holds(t)
      BY <2>1 DEF Arg, Ino, Seen, Pending, Sees, Reads, Merges, Deletes, Holds
    <2>4. \A i \in Inodes : TableOK(i)'
      BY <2>1, <2>2 DEF RefsInv, TableOK
    <2>5. \A t \in Tasks : FreshOK(t)' /\ SeenOK(t)'
      BY <2>1, <2>2, <2>3 DEF RefsInv, FreshOK, SeenOK
    <2>6. \A t, u \in Tasks : Apart(t, u)'
      BY <2>3 DEF RefsInv, Apart
    <2> QED
      BY <1>0, <2>1, <2>4, <2>5, <2>6 DEF RefsInv
  <1> QED
    BY <1>0, <1>1, <1>2, RefsRequest, RefsCacheStep, RefsOp, RefsBackground DEF VfsNext

LEMMA RefsInit == VfsInit => RefsInv
  <1> SUFFICES ASSUME VfsInit PROVE RefsInv
    OBVIOUS
  <1>1. CallInv
    BY CallInit
  <1>2. \A t \in Tasks : ~Pending(t) /\ ~Sees(t) /\ ~Holds(t)
    BY DEF VfsInit, Pending, Sees, Reads, Holds, Merges, Rest
  <1>3. \A i \in Inodes : Refs(i) = {}
    BY DEF VfsInit, Refs
  <1> QED
    BY <1>1, <1>2, <1>3 DEF VfsInit, Init, RefsInv, TableOK, FreshOK, SeenOK, Apart

\* No file loses a slice to a compaction, its own or another's: whatever the
\* tasks, the inodes and the failures, what the chunk table refers to has been
\* written and is not deleted (vfs.rs:254-310).
THEOREM TableKeepsSlices == VfsSpec => []RefsNotDeleted
  <1>1. VfsInit => RefsInv
    BY RefsInit
  <1>2. RefsInv /\ [VfsNext]_allVars => RefsInv'
    BY RefsNext
  <1>3. RefsInv => RefsNotDeleted
    <2> SUFFICES ASSUME RefsInv, NEW i \in Inodes, NEW k \in DOMAIN chunks[i]
                 PROVE  chunks[i][k] \in written \ deleted
      BY DEF RefsNotDeleted
    <2>1. chunks[i] \in Seq(Slices)
      BY DEF RefsInv, CallInv, VfsTypeOK
    <2>2. chunks[i][k] \in Refs(i)
      BY <2>1 DEF Refs
    <2> QED
      BY <2>2 DEF RefsInv, TableOK
  <1> QED
    BY <1>1, <1>2, <1>3, PTL DEF VfsSpec

-----------------------------------------------------------------------------
(* fsync stores the file.  The flush that ends a compaction waits for its  *)
(* own batch only; with one inode, or with no task beside the FUSE thread, *)
(* the lock keeps any other batch from being under way.                    *)

Exclusive == (\A i, j \in Inodes : i = j) \/ Tasks = {Fuse}

\* The flush of t has drained the buffer and no PUT of it has failed so far.
Succeeds(t) == ~At(t, "drain") /\ (At(t, "clear") \/ task[t].result # "err")

StoredOK ==
    vfs[Fuse].pc = "cflush" /\ Succeeds(Fuse) =>
        Refs(Ino(Fuse)) \subseteq Batch(Fuse) \cup inner \cup lost

FsyncInv == RefsInv /\ StoredOK

LEMMA OnlyFlushing ==
  ASSUME CallInv, serving, NEW t \in Tasks, Batch(t) # {}
  PROVE  vfs[t].pc = "cflush"
  <1>1. task[t].pc \in {"flush", "settledisk"}
    BY DEF CallInv, KeptInv, BatchInv
  <1>2. vfs[t].pc \in {"idle", "wid", "wmeta", "wsize", "rnext", "rgot", "sleep", "clock",
                       "cread", "cgot", "creplace", "cdelete", "cflush"}
    BY DEF CallInv, VfsTypeOK, VfsStates
  <1>3. CallOK(t) /\ ~At(t, "idle") /\ task[t].pc \notin WritePcs \cup ReadPcs \cup DeletePcs
    BY <1>1 DEF CallInv, At, WritePcs, ReadPcs, DeletePcs
  <1>4. /\ vfs[t].pc \notin {"wmeta", "creplace", "wsize"}
        /\ vfs[t].pc \notin {"rgot", "cgot", "cdelete"}
        /\ vfs[t].pc \notin {"wid", "rnext", "sleep", "clock", "cread", "idle"}
    BY <1>3 DEF CallOK, WriteCall, LoopCall, RestCall, Pending, At
  <1> QED
    BY <1>2, <1>4

\* While the FUSE thread flushes, no other task has drained anything.
LEMMA AloneFlushing ==
  ASSUME Exclusive, RefsInv, vfs[Fuse].pc = "cflush", NEW u \in Tasks \ {Fuse}
  PROVE  Batch(u) = {}
  <1> SUFFICES ASSUME Batch(u) # {} PROVE FALSE
    OBVIOUS
  <1>1. serving
    BY FuseTask DEF RefsInv, CallInv, CallOK, RestCall
  <1>2. vfs[u].pc = "cflush"
    BY <1>1, OnlyFlushing DEF RefsInv
  <1>3. Ino(u) \in Inodes /\ Ino(Fuse) \in Inodes
    BY <1>2, FuseTask DEF RefsInv, CallInv, CallOK, RestCall
  <1>4. Ino(u) # Ino(Fuse)
    BY <1>2, FuseTask DEF RefsInv, Apart, Holds
  <1> QED
    BY <1>3, <1>4 DEF Exclusive

\* A step that leaves the FUSE thread where it is.
LEMMA FsyncStays ==
  ASSUME FsyncInv, RefsInv', vfs'[Fuse] = vfs[Fuse], task'[Fuse] = task[Fuse],
         vfs[Fuse].pc = "cflush" => /\ Refs(Ino(Fuse))' \subseteq Refs(Ino(Fuse))
                                    /\ (inner \cup lost) \ deleted' \subseteq inner' \cup lost'
  PROVE  FsyncInv'
  <1> SUFFICES ASSUME vfs'[Fuse].pc = "cflush", Succeeds(Fuse)'
               PROVE  Refs(Ino(Fuse))' \subseteq (Batch(Fuse) \cup inner \cup lost)'
    BY DEF FsyncInv, StoredOK
  <1>1. Refs(Ino(Fuse)) \subseteq Batch(Fuse) \cup inner \cup lost /\ Batch(Fuse)' = Batch(Fuse)
    BY DEF FsyncInv, StoredOK, Succeeds, At, Batch
  <1>2. Ino(Fuse)' \in Inodes
    BY FuseTask DEF RefsInv, CallInv, CallOK, RestCall
  <1>3. Refs(Ino(Fuse))' \cap deleted' = {}
    BY <1>2 DEF RefsInv, TableOK, Refs
  <1> QED
    BY <1>1, <1>3

\* What a step of an operation leaves alone.
LEMMA OpLeaves ==
  ASSUME CallInv, NEW t \in Tasks, OpStep(t)
  PROVE  /\ \A u \in Tasks \ {t} : vfs'[u] = vfs[u] /\ task'[u] = task[u]
         /\ UNCHANGED <<inner, lost, deleted>>
         /\ chunks' = chunks \/ (t = Fuse /\ WriteMeta) \/ ReplaceSlices(t)
  <1>0. TypeOK /\ VfsTypeOK
    BY DEF CallInv, VfsTypeOK
  <1>1. \A u \in Tasks \ {t} : vfs'[u] = vfs[u]
    <2>1. \E new : VfsGoto(t, new)
      BY DEF OpStep, WriteSlice, WriteMeta, WriteSize, ReadReturns, ReadSlice, CopySlice,
         LockAndList, ListFails, WriteMerged, ReplaceSlices, DeleteOld, FlushAll, CompactReturns,
         MetaError, Finish
    <2> QED
      BY <1>0, <2>1, VfsMoves
  <1>2. ASSUME NEW s, StartWrite(t, s) \/ StartRead(t, s) \/ StartDelete(t, s) \/ StartFlush(t)
        PROVE  /\ \A u \in Tasks \ {t} : task'[u] = task[u]
               /\ UNCHANGED <<inner, lost, deleted>>
    BY <1>0, <1>2, CallStarts DEF Starts
  <1>3. ASSUME UNCHANGED cacheVars
        PROVE  /\ \A u \in Tasks \ {t} : task'[u] = task[u]
               /\ UNCHANGED <<inner, lost, deleted>>
    BY <1>3 DEF cacheVars, vars, tierVars, histVars
  <1>4. /\ \A u \in Tasks \ {t} : task'[u] = task[u]
        /\ UNCHANGED <<inner, lost, deleted>>
    <2>1. CASE t = Fuse /\ (WriteSlice \/ WriteMeta \/ WriteSize \/ ReadReturns)
      BY <1>2, <1>3, <2>1 DEF WriteSlice, WriteMeta, WriteSize, ReadReturns, MetaError
    <2>2. CASE \/ ReadSlice(t, "rnext", "rgot") \/ ReadSlice(t, "cread", "cgot")
               \/ CopySlice(t, "rgot", "rnext") \/ CopySlice(t, "cgot", "cread")
      BY <1>2, <1>3, <2>2 DEF ReadSlice, CopySlice
    <2>3. CASE \/ LockAndList(t) \/ ListFails(t) \/ WriteMerged(t) \/ ReplaceSlices(t)
               \/ DeleteOld(t) \/ FlushAll(t) \/ CompactReturns(t)
      BY <1>2, <1>3, <2>3 DEF LockAndList, ListFails, WriteMerged, ReplaceSlices, DeleteOld,
         FlushAll, CompactReturns, MetaError
    <2> QED
      BY <2>1, <2>2, <2>3 DEF OpStep
  <1>5. chunks' = chunks \/ (t = Fuse /\ WriteMeta) \/ ReplaceSlices(t)
    BY DEF OpStep, WriteSlice, WriteSize, ReadReturns, ReadSlice, CopySlice, LockAndList,
       ListFails, WriteMerged, DeleteOld, FlushAll, CompactReturns, MetaError, metaVars
  <1> QED
    BY <1>1, <1>4, <1>5

LEMMA FsyncOp ==
  ASSUME FsyncInv, RefsInv', NEW t \in Tasks, OpStep(t)
  PROVE  FsyncInv'
  <1>0. CallInv /\ VfsTypeOK /\ TypeOK /\ vfs[t] \in VfsStates
    BY DEF FsyncInv, RefsInv, CallInv, VfsTypeOK
  <1>1. CASE t # Fuse
    <2>1. /\ vfs'[Fuse] = vfs[Fuse] /\ task'[Fuse] = task[Fuse] /\ UNCHANGED <<inner, lost>>
          /\ chunks' = chunks \/ ReplaceSlices(t)
      BY <1>0, <1>1, FuseTask, OpLeaves
    <2>2. ASSUME vfs[Fuse].pc = "cflush" PROVE Refs(Ino(Fuse))' = Refs(Ino(Fuse))
      <3>1. Ino(Fuse)' = Ino(Fuse)
        BY <2>1 DEF Ino
      <3>2. CASE chunks' = chunks
        BY <3>1, <3>2 DEF Refs
      <3>3. CASE ReplaceSlices(t)
        <4>1. vfs[t].pc = "creplace"
          BY <3>3 DEF ReplaceSlices, VfsAt
        <4>2. Ino(t) # Ino(Fuse)
          BY <1>1, <2>2, <4>1, FuseTask DEF FsyncInv, RefsInv, Apart, Holds, Merges
        <4>3. chunks'[Ino(Fuse)] = chunks[Ino(Fuse)]
          <5>1. Ino(Fuse) \in Inodes
            BY <1>0, <2>2, FuseTask DEF CallInv, CallOK, RestCall
          <5> QED
            BY <1>0, <3>3, <4>2, <5>1 DEF ReplaceSlices, MetaError, metaVars, VfsTypeOK
        <4> QED
          BY <3>1, <4>3 DEF Refs
      <3> QED
        BY <2>1, <3>2, <3>3
    <2> QED
      BY <2>1, <2>2, FsyncStays
  <1>2. CASE t = Fuse /\ FlushAll(t)
    BY <1>0, <1>2, CallStarts DEF FlushAll, Starts, FsyncInv, StoredOK, Succeeds, At
  <1>3. CASE t = Fuse /\ ~FlushAll(t)
    <2>1. PICK new : /\ VfsGoto(t, new)
                     /\ new.pc \in {"idle", "wmeta", "wsize", "rnext", "rgot", "cread", "cgot",
                                    "creplace", "cdelete"}
      <3>1. Rest.pc = "idle"
        BY DEF Rest
      <3>2. \A l : WentTo(vfs[t], l).pc = l /\ Advanced(vfs[t], l).pc = l
        BY <1>0 DEF WentTo, Advanced, VfsStates
      <3>3. \A l, c : Filled(vfs[t], l, c).pc = l
        BY <1>0 DEF Filled, VfsStates
      <3>4. \A q : Relisted(vfs[t], q).pc = "cread" /\ Rewound(vfs[t]).pc = "cdelete"
        BY <1>0 DEF Relisted, Rewound, VfsStates
      <3>5. CASE t = Fuse /\ (WriteSlice \/ WriteMeta \/ WriteSize \/ ReadReturns)
        <4>1. \/ VfsGoto(t, Rest) \/ VfsGoto(t, WentTo(vfs[t], "wmeta"))
              \/ VfsGoto(t, WentTo(vfs[t], "wsize"))
          BY <3>5 DEF WriteSlice, WriteMeta, WriteSize, ReadReturns, MetaError, Finish, WentTo
        <4> QED
          BY <3>1, <3>2, <4>1
      <3>6. CASE \/ ReadSlice(t, "rnext", "rgot") \/ ReadSlice(t, "cread", "cgot")
        <4>1. \/ VfsGoto(t, Advanced(vfs[t], "rgot")) \/ VfsGoto(t, Advanced(vfs[t], "cgot"))
          BY <3>6 DEF ReadSlice, Advanced
        <4> QED
          BY <3>2, <4>1
      <3>7. CASE CopySlice(t, "rgot", "rnext") \/ CopySlice(t, "cgot", "cread")
        <4>1. \/ VfsGoto(t, Rest)
              \/ \E c : VfsGoto(t, Filled(vfs[t], "rnext", c))
              \/ \E c : VfsGoto(t, Filled(vfs[t], "cread", c))
          BY <3>7 DEF CopySlice, Finish, Filled
        <4> QED
          BY <3>1, <3>3, <4>1
      <3>8. CASE LockAndList(t)
        <4>1. \/ VfsGoto(t, Relisted(vfs[t], chunks[Ino(t)]))
              \/ VfsGoto(t, WentTo(vfs[t], "cdelete"))
          BY <3>8 DEF LockAndList, Relisted, WentTo
        <4> QED
          BY <3>2, <3>4, <4>1
      <3>9. CASE ListFails(t) \/ CompactReturns(t) \/ WriteMerged(t)
        <4>1. VfsGoto(t, Rest) \/ VfsGoto(t, WentTo(vfs[t], "creplace"))
          BY <3>9 DEF ListFails, CompactReturns, WriteMerged, MetaError, Finish, WentTo
        <4> QED
          BY <3>1, <3>2, <4>1
      <3>10. CASE ReplaceSlices(t)
        <4>1. VfsGoto(t, Rest) \/ VfsGoto(t, Rewound(vfs[t]))
          BY <3>10 DEF ReplaceSlices, MetaError, Finish, Rewound
        <4> QED
          BY <3>1, <3>4, <4>1
      <3>11. CASE DeleteOld(t)
        <4>1. [vfs[t] EXCEPT !.k = @ + 1].pc = "cdelete"
          BY <1>0, <3>11 DEF DeleteOld, VfsAt, VfsStates
        <4> QED
          BY <3>11, <4>1 DEF DeleteOld
      <3> QED
        BY <1>3, <3>5, <3>6, <3>7, <3>8, <3>9, <3>10, <3>11 DEF OpStep
    <2>2. vfs'[Fuse].pc # "cflush"
      BY <1>0, <1>3, <2>1, VfsMoves
    <2> QED
      BY <2>2 DEF FsyncInv, StoredOK
  <1> QED
    BY <1>1, <1>2, <1>3

\* A step of the flush the FUSE thread is in.
LEMMA FsyncFlush ==
  ASSUME FsyncInv, RefsInv', Exclusive, vfs' = vfs, chunks' = chunks,
         vfs[Fuse].pc = "cflush", CallStep(Fuse)
  PROVE  FsyncInv'
  <1>0. /\ KeptInv /\ TypeOK /\ task[Fuse] \in TaskStates /\ Fuse \in Tasks
        /\ task[Fuse].pc \in FlushPcs
    <2>1. KeptInv /\ TypeOK /\ task[Fuse] \in TaskStates /\ CallOK(Fuse) /\ GoesOn(Fuse)
      BY FuseTask, CallGoesOn DEF FsyncInv, RefsInv, CallInv, KeptInv, TypeOK
    <2>2. task[Fuse].pc # "idle"
      BY <2>1 DEF GoesOn, ReadPcs, DeletePcs, FlushPcs
    <2> QED
      BY <2>1, <2>2, FuseTask DEF CallOK, LoopCall
  <1>1. PICK i \in Inodes : i = Ino(Fuse)
    BY FuseTask DEF FsyncInv, RefsInv, CallInv, CallOK, RestCall
  <1>2. Refs(i)' = Refs(i) /\ Ino(Fuse)' = i
    BY <1>1 DEF Refs, Ino
  <1>3. Refs(i) \subseteq written \ deleted
    BY DEF FsyncInv, RefsInv, TableOK
  <1>4. /\ Batch(Fuse) # {} => task[Fuse].pc \in {"flush", "settledisk"}
        /\ In(Fuse, "stored") \subseteq inner \cup deleted
    BY <1>0 DEF KeptInv, BatchInv
  <1> SUFFICES ASSUME Succeeds(Fuse)'
               PROVE  Refs(i) \subseteq (Batch(Fuse) \cup inner \cup lost)'
    BY <1>2 DEF FsyncInv, StoredOK
  <1>5. UNCHANGED lost
    BY <1>0 DEF CallStep, WalAppend, WriteDirty, ReadLookup, FillL1, FillBoth, FillDisk,
       DeleteDirty, DeleteCopies, Drain, SettleDisk, EndSettle, ClearWal, Put, SettleStored,
       SettleFailed, At, FlushPcs, histVars
  <1>6. ASSUME At(Fuse, "drain"), inner' = inner, dirty_data \subseteq Batch(Fuse)'
        PROVE  Refs(i) \subseteq (Batch(Fuse) \cup inner \cup lost)'
    <2>1. ~Restarted /\ Batch(Fuse) = {}
      BY <1>0, <1>4, <1>6 DEF Restarted, At
    <2>2. \A u \in Tasks : Batch(u) = {}
      BY <2>1, AloneFlushing DEF FsyncInv
    <2>3. \A s \in Retained : s \in dirty_data \cup inner
      BY <1>0, <2>1, <2>2 DEF KeptInv, NoSliceLost, Held
    <2> QED
      BY <1>3, <1>5, <1>6, <2>3 DEF Retained
  <1>7. ASSUME ~At(Fuse, "drain"), Succeeds(Fuse), inner \subseteq inner',
               Batch(Fuse) \subseteq Batch(Fuse)' \cup inner \cup deleted
        PROVE  Refs(i) \subseteq (Batch(Fuse) \cup inner \cup lost)'
    BY <1>1, <1>3, <1>5, <1>7 DEF FsyncInv, StoredOK
  <1>8. ASSUME EndFlushInner(Fuse), task[Fuse].pc # "clear"
        PROVE  task[Fuse].result # "err" /\ Batch(Fuse)' = Batch(Fuse)
    <2>1. CASE task[Fuse].result = "err"
      <3>1. task'[Fuse] = [task[Fuse] EXCEPT !.pc = "idle", !.result = "err"]
        BY <1>0, <1>8, <2>1, OthersStay DEF EndFlushInner, Return
      <3>2. task'[Fuse].pc = "idle" /\ task'[Fuse].result = "err"
        BY <1>0, <3>1 DEF TaskStates
      <3> QED
        BY <3>2 DEF Succeeds, At
    <2>2. CASE task[Fuse].result # "err"
      BY <1>0, <1>8, <2>2, EndFlushInnerMoves DEF Moved, Batch
    <2> QED
      BY <2>1, <2>2
  <1>9. CASE Drain(Fuse)
    <2>1. At(Fuse, "drain") /\ inner' = inner
      BY <1>9 DEF Drain
    <2>2. CASE dirty_data = {}
      BY <1>6, <2>1, <2>2
    <2>3. CASE dirty_data # {}
      <3> DEFINE b == [s \in Slices |-> IF s \in dirty_data THEN "putting" ELSE "none"]
      <3>1. task'[Fuse] = [task[Fuse] EXCEPT !.pc = "flush", !.batch = b]
        BY <1>0, <1>9, <2>3, OthersStay DEF Drain
      <3>2. task'[Fuse].batch = b
        BY <1>0, <3>1 DEF TaskStates
      <3>3. dirty_data \subseteq Batch(Fuse)'
        BY <1>0, <3>2 DEF Batch, TypeOK
      <3> QED
        BY <1>6, <2>1, <3>3
    <2> QED
      BY <2>2, <2>3
  <1>10. CASE SettleDisk(Fuse)
    <2>1. /\ task'[Fuse] = [task[Fuse] EXCEPT !.pc = "flush"] /\ inner' = inner
          /\ task[Fuse].pc = "settledisk"
      BY <1>0, <1>10, OthersStay DEF SettleDisk, Goto, At
    <2>2. /\ task'[Fuse].pc = "flush" /\ task'[Fuse].result = task[Fuse].result
          /\ Batch(Fuse)' = Batch(Fuse)
      BY <1>0, <2>1 DEF TaskStates, Batch
    <2> QED
      BY <1>7, <2>1, <2>2 DEF Succeeds, At
  <1>11. CASE EndSettle(Fuse)
    <2>1. EndFlushInner(Fuse) /\ task[Fuse].pc = "flush" /\ inner' = inner
      BY <1>11 DEF EndSettle, At
    <2> QED
      BY <1>7, <1>8, <2>1 DEF Succeeds, At
  <1>12. CASE ClearWal(Fuse)
    <2>1. At(Fuse, "clear") /\ inner' = inner
      BY <1>12 DEF ClearWal
    <2>2. Batch(Fuse) = {}
      BY <1>4, <2>1 DEF At
    <2> QED
      BY <1>7, <2>1, <2>2 DEF Succeeds, At
  <1>13. ASSUME NEW s \in Slices, Put(Fuse, s)
         PROVE  Refs(i) \subseteq (Batch(Fuse) \cup inner \cup lost)'
    <2>1. PICK b \in {"stored", "failed"} : Become(Fuse, [task[Fuse] EXCEPT !.batch[s] = b])
      BY <1>13 DEF Put
    <2>2. task'[Fuse] = [task[Fuse] EXCEPT !.batch[s] = b]
      BY <1>0, <2>1, OthersStay
    <2>3. /\ task'[Fuse].pc = task[Fuse].pc /\ task'[Fuse].result = task[Fuse].result
          /\ task'[Fuse].batch = [task[Fuse].batch EXCEPT ![s] = b]
      BY <1>0, <2>2 DEF TaskStates
    <2>4. Batch(Fuse) \subseteq Batch(Fuse)'
      BY <1>0, <2>3 DEF Batch, TaskStates
    <2>5. task[Fuse].pc = "flush" /\ inner \subseteq inner'
      BY <1>13 DEF Put, At
    <2> QED
      BY <1>7, <2>3, <2>4, <2>5 DEF Succeeds, At
  <1>14. ASSUME NEW s \in Slices, SettleStored(Fuse, s)
         PROVE  Refs(i) \subseteq (Batch(Fuse) \cup inner \cup lost)'
    <2> DEFINE settled == [task[Fuse] EXCEPT !.batch[s] = "none", !.slice = s]
    <2>1. PICK new \in {settled, [settled EXCEPT !.pc = "settledisk"]} : Become(Fuse, new)
      BY <1>14 DEF SettleStored, DiskCheck
    <2>2. task'[Fuse] = new
      BY <1>0, <2>1, OthersStay
    <2>3. /\ new.batch = [task[Fuse].batch EXCEPT ![s] = "none"]
          /\ new.pc \in {task[Fuse].pc, "settledisk"} /\ new.result = task[Fuse].result
      BY <1>0, <2>1 DEF TaskStates
    <2>4. Batch(Fuse) \subseteq Batch(Fuse)' \cup {s} /\ s \in In(Fuse, "stored")
      BY <1>0, <1>14, <2>2, <2>3 DEF Batch, TaskStates, SettleStored
    <2>5. task[Fuse].pc = "flush" /\ inner' = inner
      BY <1>14 DEF SettleStored, Settling, At
    <2> HIDE DEF settled
    <2> QED
      BY <1>4, <1>7, <2>2, <2>3, <2>4, <2>5 DEF Succeeds, At
  <1>15. ASSUME NEW s \in Slices, SettleFailed(Fuse, s)
         PROVE  FALSE
    <2>1. task'[Fuse] = [task[Fuse] EXCEPT !.batch[s] = "none", !.result = "err"]
      BY <1>0, <1>15, OthersStay DEF SettleFailed
    <2>2. task'[Fuse].pc = "flush" /\ task'[Fuse].result = "err"
      BY <1>0, <1>15, <2>1 DEF TaskStates, SettleFailed, Settling, At
    <2> QED
      BY <2>2 DEF Succeeds, At
  <1>16. \/ Drain(Fuse) \/ SettleDisk(Fuse) \/ EndSettle(Fuse) \/ ClearWal(Fuse)
         \/ \E s \in Slices : Put(Fuse, s) \/ SettleStored(Fuse, s) \/ SettleFailed(Fuse, s)
    BY <1>0 DEF CallStep, WalAppend, WriteDirty, ReadLookup, FillL1, FillBoth, FillDisk,
       DeleteDirty, DeleteCopies, At, FlushPcs
  <1> QED
    BY <1>9, <1>10, <1>11, <1>12, <1>13, <1>14, <1>15, <1>16

LEMMA FsyncCacheStep ==
  ASSUME FsyncInv, RefsInv', Exclusive, CacheStep
  PROVE  FsyncInv'
  <1>0. vfs' = vfs /\ chunks' = chunks /\ Refs(Ino(Fuse))' = Refs(Ino(Fuse)) /\ KeptInv
    BY DEF CacheStep, vfsVars, metaVars, Refs, Ino, FsyncInv, RefsInv, CallInv
  <1>1. CASE vfs[Fuse].pc # "cflush"
    BY <1>0, <1>1 DEF FsyncInv, StoredOK
  <1>2. CASE vfs[Fuse].pc = "cflush"
    <2>1. serving
      BY <1>2, FuseTask DEF FsyncInv, RefsInv, CallInv, CallOK, RestCall
    <2>2. ASSUME NEW s \in Slices, Evict(s) PROVE FsyncInv'
      BY <1>0, <2>2, FsyncStays DEF Evict, histVars
    <2>3. ASSUME NEW t \in Tasks \ {Fuse}, CallStep(t) PROVE FsyncInv'
      <3>1. task'[Fuse] = task[Fuse]
        BY <1>0, <2>3, FuseTask, CallGoesOn DEF GoesOn
      <3>2. (inner \cup lost) \ deleted' \subseteq inner' \cup lost'
        <4>1. CASE DeleteCopies(t)
          <5>1. task[t].pc \in {"dl1", "ddisk", "dinner"}
            BY <4>1 DEF DeleteCopies, At
          <5>2. Arg(t) \in deleted
            BY <1>0, <5>1 DEF KeptInv, DeleteInv
          <5> QED
            BY <4>1, <5>2 DEF DeleteCopies, Tried, histVars
        <4>2. CASE ~DeleteCopies(t)
          BY <2>3, <4>2 DEF CallStep, WalAppend, WriteDirty, ReadLookup, FillL1, FillBoth,
             FillDisk, DeleteDirty, Drain, SettleDisk, EndSettle, ClearWal, Put, SettleStored,
             SettleFailed, tierVars, histVars
        <4> QED
          BY <4>1, <4>2
      <3> QED
        BY <1>0, <3>1, <3>2, FsyncStays
    <2>4. CASE CallStep(Fuse)
      BY <1>0, <1>2, <2>4, FsyncFlush
    <2> QED
      BY <2>1, <2>2, <2>3, <2>4 DEF CacheStep, ReplayWal
  <1> QED
    BY <1>1, <1>2

LEMMA FsyncNext ==
  ASSUME FsyncInv, Exclusive, [VfsNext]_allVars
  PROVE  FsyncInv'
  <1>0. RefsInv' /\ VfsTypeOK /\ Fuse \in Tasks
    BY RefsNext, FuseTask DEF FsyncInv, RefsInv, CallInv
  <1>1. CASE Request
    <2>1. PICK i \in Inodes : \/ Write(i) \/ Read(i) \/ Fsync(i) \/ Release(i)
                              \/ \E n \in 0..ChunkBlocks : Truncate(i, n)
      BY <1>1 DEF Request
    <2>2. \/ vfs' = vfs /\ vfs[Fuse].pc = "idle"
          \/ vfs'[Fuse].pc \in {"wid", "rnext", "clock"}
      <3>1. CASE Write(i) \/ Fsync(i)
        <4>1. PICK l \in {"wid", "clock"} : VfsGoto(Fuse, Begun(l, i))
          BY <3>1 DEF Write, Fsync, Compact, Begun
        <4> QED
          BY <1>0, <4>1, VfsMoves, BegunFields
      <3>2. CASE Read(i)
        <4>1. VfsGoto(Fuse, Listed("rnext", i, chunks[i])) /\ chunks[i] \in Seq(Slices)
          BY <1>0, <3>2 DEF Read, Listed, VfsTypeOK
        <4> QED
          BY <1>0, <4>1, VfsMoves, ListedFields
      <3>3. CASE Release(i) \/ \E n \in 0..ChunkBlocks : Truncate(i, n)
        BY <3>3 DEF Release, Truncate, VfsAt
      <3> QED
        BY <2>1, <3>1, <3>2, <3>3
    <2> QED
      BY <1>0, <2>2 DEF FsyncInv, StoredOK
  <1>2. ASSUME NEW t \in Tasks, Background(t) PROVE FsyncInv'
    <2>1. UNCHANGED <<chunks, task, inner, lost>>
      BY <1>2 DEF Background, FlusherWakes, FlusherDrains, RunRelease, FlusherCompacts, Notified,
         metaVars, cacheVars, vars, tierVars, histVars
    <2>2. PICK new : VfsGoto(t, new) /\ new.pc \in {"sleep", "idle", "clock"}
      <3>1. CASE FlusherWakes(t)
        <4>1. [Rest EXCEPT !.pc = "sleep"].pc = "sleep"
          BY DEF Rest
        <4> QED
          BY <3>1, <4>1 DEF FlusherWakes
      <3>2. CASE FlusherDrains(t)
        BY <3>2 DEF FlusherDrains, Rest
      <3>3. ASSUME NEW i \in Inodes, RunRelease(t, i) \/ FlusherCompacts(t, i)
            PROVE  VfsGoto(t, Begun("clock", i)) /\ Begun("clock", i).pc = "clock"
        BY <3>3, BegunFields DEF RunRelease, FlusherCompacts, Compact, Begun
      <3> QED
        BY <1>2, <3>1, <3>2, <3>3 DEF Background
    <2>3. vfs'[t] = new /\ \A u \in Tasks \ {t} : vfs'[u] = vfs[u]
      BY <1>0, <2>2, VfsMoves
    <2>4. CASE t = Fuse
      BY <1>0, <2>2, <2>3, <2>4 DEF FsyncInv, StoredOK
    <2>5. CASE t # Fuse
      <3>1. vfs'[Fuse] = vfs[Fuse] /\ Refs(Ino(Fuse))' = Refs(Ino(Fuse))
        BY <1>0, <2>1, <2>3, <2>5 DEF Refs, Ino
      <3> QED
        BY <1>0, <2>1, <3>1, FsyncStays
    <2> QED
      BY <2>4, <2>5
  <1>3. CASE VfsCrash
    BY <1>0, <1>3 DEF VfsCrash, Rest, FsyncInv, StoredOK
  <1>4. CASE UNCHANGED allVars
    BY <1>0, <1>4, FsyncStays
    DEF allVars, vfsVars, metaVars, vars, tierVars, histVars, Refs, Ino
  <1> QED
    BY <1>0, <1>1, <1>2, <1>3, <1>4, FsyncCacheStep, FsyncOp DEF VfsNext

\* With one inode, or with the FUSE thread alone, an fsync that answers Ok has
\* left every slice of the file in the object store, but what a crash had lost
\* before: no slice is on its way in another task's batch (vfs.rs:307-308,
\* cache.rs:126-169).  Without the hypothesis it fails.
THEOREM FsyncAlone == Exclusive => (VfsSpec => []FsyncStores)
  <1> SUFFICES ASSUME Exclusive PROVE VfsSpec => []FsyncStores
    OBVIOUS
  <1>1. VfsInit => FsyncInv
    BY RefsInit, FuseTask DEF VfsInit, Rest, FsyncInv, StoredOK
  <1>2. FsyncInv /\ [VfsNext]_allVars => FsyncInv'
    BY FsyncNext
  <1>3. FsyncInv => FsyncStores
    <2> SUFFICES ASSUME FsyncInv, VfsAt(Fuse, "cflush"), task[Fuse].result = "ok",
                        NEW k \in DOMAIN chunks[Ino(Fuse)]
                 PROVE  chunks[Ino(Fuse)][k] \in inner \cup lost
      BY DEF FsyncStores
    <2>1. Batch(Fuse) = {} /\ Ino(Fuse) \in Inodes
      BY FuseTask DEF FsyncInv, RefsInv, CallInv, KeptInv, BatchInv, CallOK, RestCall, VfsAt, At
    <2>2. chunks[Ino(Fuse)] \in Seq(Slices)
      BY <2>1 DEF FsyncInv, RefsInv, CallInv, VfsTypeOK
    <2>3. chunks[Ino(Fuse)][k] \in Refs(Ino(Fuse))
      BY <2>2 DEF Refs
    <2>4. Refs(Ino(Fuse)) \subseteq Batch(Fuse) \cup inner \cup lost
      BY DEF FsyncInv, StoredOK, Succeeds, VfsAt, At
    <2> QED
      BY <2>1, <2>3, <2>4
  <1> QED
    BY <1>1, <1>2, <1>3, PTL DEF VfsSpec

=============================================================================
