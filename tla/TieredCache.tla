---------------------------- MODULE TieredCache ----------------------------
(***************************************************************************)
(* The write-back slice cache of the posix mode (TieredCache in            *)
(* oxfs-posix/src/cache.rs): a dirty buffer, an L1 memory cache, an L2     *)
(* disk cache and a write-ahead log in front of an object store.           *)
(*                                                                         *)
(* A slice is written once, under an id handed out once by the metadata    *)
(* engine, so its content never changes: a tier is the set of slices it    *)
(* holds, or for L1 and L2 files, which may be cut short, a function.      *)
(* Every await and every unlock ends an action.                            *)
(***************************************************************************)
EXTENDS Integers, FiniteSets

CONSTANTS
    Slices,     \* slice ids the metadata engine may hand out
    NoSlice,    \* the absence of one
    Tasks,      \* concurrent callers: the FUSE thread, the flusher, ...
    UseWal,     \* is a WAL configured (--wal-path)?
    UseDisk,    \* is an L2 directory configured (--cache-disk-path)?
    L1Evicts,   \* is the L1 small enough to evict?
    IoFails,    \* may the log, the disk and the object store fail?
    CanCrash    \* may the process crash and restart?

ASSUME NoSliceAssumption == NoSlice \notin Slices
ASSUME FlagsAssumption == /\ UseWal \in BOOLEAN /\ UseDisk \in BOOLEAN
                          /\ L1Evicts \in BOOLEAN /\ CanCrash \in BOOLEAN
                          /\ IoFails \in BOOLEAN

VARIABLES
    task,          \* the call each task is in
    dirty_data,    \* slices in the dirty buffer
    flush_notify,  \* the stored permit of the Notify
    l1, disk,      \* what the L1 and the L2 file hold of each slice
    wal,           \* slices with a record read_all can reach
    torn,          \* does the log hold a partial record, hiding what follows?
    inner,         \* slices in the object store
    serving        \* has replay_wal returned since the process started?

\* History: ids handed out, writes that returned, deletes that began, slices
\* with no readable WAL record, slices whose L2 file was left incomplete,
\* slices no tier could give back after a crash.
VARIABLES issued, written, deleted, unlogged, damaged, lost

ramVars == <<dirty_data, flush_notify, l1>>
logVars == <<wal, torn>>
tierVars == <<ramVars, disk, logVars, inner, serving>>
histVars == <<issued, written, deleted, unlogged, damaged, lost>>
vars == <<task, tierVars, histVars>>

-----------------------------------------------------------------------------
Copies == {"absent", "short", "whole"}
Locations == {"idle",
    "wal", "dirty",                                           \* write_slice
    "rdirty", "rl1", "rdisk", "rinner", "fill", "fillcheck", "filldisk",
    "ddirty", "dl1", "ddisk", "dinner",                       \* delete_slice
    "drain", "flush", "settledisk", "clear"}                  \* flush_dirty

Results == {"none", "ok", "short", "missing", "err"}
\* slice: the argument, or the item a flush is at; batch: what a flush drained.
TaskStates ==
    {k \in [pc : Locations, slice : Slices \cup {NoSlice},
            batch : [Slices -> {"none", "putting", "stored", "failed"}],
            result : Results] :
        k.slice = NoSlice => k.pc \in {"idle", "drain", "flush", "clear"}}
NoBatch == [s \in Slices |-> "none"]
Idle == [pc |-> "idle", slice |-> NoSlice, batch |-> NoBatch, result |-> "none"]
Nothing == [s \in Slices |-> "absent"]

TypeOK ==
    /\ task \in [Tasks -> TaskStates]
    /\ l1 \in [Slices -> Copies] /\ disk \in [Slices -> Copies]
    /\ flush_notify \in BOOLEAN /\ torn \in BOOLEAN /\ serving \in BOOLEAN
    /\ {dirty_data, wal, inner} \subseteq SUBSET Slices
    /\ {issued, written, deleted, unlogged, damaged, lost} \subseteq SUBSET Slices

Init ==
    /\ task = [t \in Tasks |-> Idle]
    /\ dirty_data = {} /\ wal = {} /\ inner = {}
    /\ l1 = Nothing /\ disk = Nothing
    /\ flush_notify = FALSE /\ torn = FALSE /\ serving = FALSE
    /\ issued = {} /\ written = {} /\ deleted = {}
    /\ unlogged = {} /\ damaged = {} /\ lost = {}

At(t, l) == task[t].pc = l
Become(t, new) == task' = [task EXCEPT ![t] = new]
Goto(t, l) == Become(t, [task[t] EXCEPT !.pc = l])
Return(t, r) == Become(t, [task[t] EXCEPT !.pc = "idle", !.result = r])
Call(t, l, s) == /\ serving /\ At(t, "idle")
                 /\ Become(t, [Idle EXCEPT !.pc = l, !.slice = s])
Arg(t) == task[t].slice
In(t, state) == {s \in Slices : task[t].batch[s] = state}
Batch(t) == {s \in Slices : task[t].batch[s] # "none"}

\* An operation whose error the code ignores.
Tried(old, new) == IF IoFails THEN {old, new} ELSE {new}

-----------------------------------------------------------------------------
(* write_slice: log, then L1, dirty buffer and notify, which no await that *)
(* suspends separates for a slice nobody can read yet.                     *)

StartWrite(t, s) ==
    /\ s \notin issued /\ Call(t, "wal", s)
    /\ issued' = issued \cup {s}
    /\ UNCHANGED <<tierVars, written, deleted, unlogged, damaged, lost>>

\* The append's error is ignored; a failed one may leave a partial record.
WalAppend(t) ==
    /\ At(t, "wal") /\ Goto(t, "dirty")
    /\ \/ /\ UseWal /\ ~torn
          /\ wal' = wal \cup {Arg(t)}
          /\ UNCHANGED <<torn, unlogged>>
       \/ /\ ~UseWal \/ torn \/ IoFails
          /\ torn' \in IF IoFails THEN {torn, UseWal} ELSE {torn}
          /\ unlogged' = unlogged \cup {Arg(t)}
          /\ UNCHANGED wal
    /\ UNCHANGED <<ramVars, disk, inner, serving,
                   issued, written, deleted, damaged, lost>>

\* Mutant: the slice goes to the dirty buffer alone.
WriteDirtyOnly(t) ==
    /\ At(t, "dirty") /\ Return(t, "ok")
    /\ dirty_data' = dirty_data \cup {Arg(t)} /\ flush_notify' = TRUE
    /\ written' = written \cup {Arg(t)}
    /\ UNCHANGED <<l1, disk, logVars, inner, serving,
                   issued, deleted, unlogged, damaged, lost>>

WriteDirty(t) ==
    /\ At(t, "dirty") /\ Return(t, "ok")
    /\ l1' = [l1 EXCEPT ![Arg(t)] = "whole"]
    /\ dirty_data' = dirty_data \cup {Arg(t)}
    /\ flush_notify' = TRUE
    /\ written' = written \cup {Arg(t)}
    /\ UNCHANGED <<disk, logVars, inner, serving,
                   issued, deleted, unlogged, damaged, lost>>

-----------------------------------------------------------------------------
(* disk_write: a budget check, a truncating create and a write; the file   *)
(* is short in between, and stays short if the write fails.  The byte      *)
(* count of the budget is abstracted: the check may go either way.         *)

\* `skip` and `create` say where the task goes after the check.
DiskCheck(i, skip, create) ==
    \/ skip /\ UNCHANGED disk
    \/ UseDisk /\ create /\ disk' = [disk EXCEPT ![i] = "short"]

\* Two writers of one file truncate each other; an unlinked file stays gone.
DiskWritten(t) ==
    LET alone == \A u \in Tasks \ {t} : /\ task[u].pc \in {"filldisk", "settledisk"}
                                         => Arg(u) # Arg(t)
    IN \/ /\ \E c \in IF alone THEN {"whole"} ELSE {"short", "whole"} :
               disk' = [disk EXCEPT ![Arg(t)] = IF @ = "absent" THEN @ ELSE c]
          /\ UNCHANGED damaged
       \/ IoFails /\ damaged' = damaged \cup {Arg(t)} /\ UNCHANGED disk

-----------------------------------------------------------------------------
(* read_slice: dirty buffer, L1, L2, object store, filling on the way.     *)

StartRead(t, s) ==
    /\ s \in written /\ Call(t, "rdirty", s)
    /\ UNCHANGED <<tierVars, histVars>>

\* Mutant: the copy found is handed on as it is.
AsResultRaw(copy) == copy

AsResult(copy) == IF copy = "whole" THEN "ok" ELSE "short"

\* An L2 hit keeps in `result` what the file held, for FillL1.
ReadLookup(t) ==
    /\ \/ At(t, "rdirty") /\ IF Arg(t) \in dirty_data
                             THEN Return(t, "ok") ELSE Goto(t, "rl1")
       \/ At(t, "rl1") /\ IF l1[Arg(t)] # "absent"
                          THEN Return(t, AsResult(l1[Arg(t)])) ELSE Goto(t, "rdisk")
       \/ At(t, "rdisk") /\ IF disk[Arg(t)] # "absent"
                            THEN Become(t, [task[t] EXCEPT !.pc = "fill",
                                            !.result = AsResult(disk[Arg(t)])])
                            ELSE Goto(t, "rinner")
       \/ At(t, "rinner") /\ \/ Arg(t) \in inner /\ Goto(t, "fillcheck")
                             \/ Arg(t) \notin inner /\ Return(t, "missing")
                             \/ IoFails /\ Return(t, "err")
    /\ UNCHANGED <<tierVars, histVars>>

FillL1(t) ==
    /\ At(t, "fill") /\ Return(t, task[t].result)
    /\ l1' = [l1 EXCEPT ![Arg(t)] = IF task[t].result = "ok" THEN "whole" ELSE "short"]
    /\ UNCHANGED <<dirty_data, flush_notify, disk, logVars, inner, serving, histVars>>

\* After a store hit: insert into the L1, then disk_write.
FillBoth(t) ==
    /\ At(t, "fillcheck")
    /\ l1' = [l1 EXCEPT ![Arg(t)] = "whole"]
    /\ DiskCheck(Arg(t), Return(t, "ok"), Goto(t, "filldisk"))
    /\ UNCHANGED <<dirty_data, flush_notify, logVars, inner, serving, histVars>>

FillDisk(t) ==
    /\ At(t, "filldisk") /\ Return(t, "ok") /\ DiskWritten(t)
    /\ UNCHANGED <<ramVars, logVars, inner, serving,
                   issued, written, deleted, unlogged, lost>>

-----------------------------------------------------------------------------
(* delete_slice: dirty buffer, L1, L2, object store.  Removing the file,   *)
(* and deleting the object, may fail silently; the call returns Ok.        *)

StartDelete(t, s) ==
    /\ s \in written /\ Call(t, "ddirty", s)
    /\ UNCHANGED <<tierVars, histVars>>

DeleteDirty(t) ==
    /\ At(t, "ddirty") /\ Goto(t, "dl1")
    /\ dirty_data' = dirty_data \ {Arg(t)}
    /\ deleted' = deleted \cup {Arg(t)}
    /\ UNCHANGED <<flush_notify, l1, disk, logVars, inner, serving,
                   issued, written, unlogged, damaged, lost>>

DeleteCopies(t) ==
    /\ \/ /\ At(t, "dl1") /\ Goto(t, "ddisk")
          /\ l1' = [l1 EXCEPT ![Arg(t)] = "absent"]
          /\ UNCHANGED <<disk, inner>>
       \/ /\ At(t, "ddisk") /\ Goto(t, "dinner")
          /\ disk' \in Tried(disk, [disk EXCEPT ![Arg(t)] = "absent"])
          /\ UNCHANGED <<l1, inner>>
       \/ /\ At(t, "dinner") /\ Return(t, "ok")
          /\ inner' \in Tried(inner, inner \ {Arg(t)})
          /\ UNCHANGED <<l1, disk>>
    /\ UNCHANGED <<dirty_data, flush_notify, logVars, serving, histVars>>

-----------------------------------------------------------------------------
(* flush_dirty: drain, PUT all in parallel, settle each result in turn,    *)
(* clear the WAL if none failed.                                           *)

StartFlush(t) == Call(t, "drain", NoSlice) /\ UNCHANGED <<tierVars, histVars>>

\* Mutants: the WAL is cleared although a PUT failed; a failed PUT is not reported.
ClearAlways(t) ==
    /\ IF ~serving \/ ~UseWal THEN Return(t, task[t].result) ELSE Goto(t, "clear")
    /\ serving' = TRUE
ErrorSwallowed(t) ==
    /\ IF ~serving \/ ~UseWal THEN Return(t, "ok") ELSE Goto(t, "clear")
    /\ serving' = TRUE

\* flush_dirty_inner returns; its caller is replay_wal until the mount serves.
EndFlushInner(t) ==
    /\ IF task[t].result = "err" \/ ~serving \/ ~UseWal
       THEN Return(t, IF task[t].result = "err" THEN "err" ELSE "ok")
       ELSE Goto(t, "clear")
    /\ serving' = TRUE

Drain(t) ==
    /\ At(t, "drain")
    /\ IF dirty_data = {} THEN EndFlushInner(t)
       ELSE /\ Become(t, [task[t] EXCEPT !.pc = "flush", !.batch =
                          [s \in Slices |-> IF s \in dirty_data THEN "putting" ELSE "none"]])
            /\ UNCHANGED serving
    /\ dirty_data' = {}
    /\ UNCHANGED <<flush_notify, l1, disk, logVars, inner, histVars>>

\* A PUT that answers with an error may have stored the object all the same.
Put(t, i) ==
    /\ At(t, "flush") /\ i \in In(t, "putting")
    /\ \/ /\ inner' = inner \cup {i}
          /\ Become(t, [task[t] EXCEPT !.batch[i] = "stored"])
       \/ /\ IoFails /\ inner' \in {inner, inner \cup {i}}
          /\ Become(t, [task[t] EXCEPT !.batch[i] = "failed"])
    /\ UNCHANGED <<ramVars, disk, logVars, serving, histVars>>

Settling(t) == At(t, "flush") /\ In(t, "putting") = {}

SettleStored(t, i) ==
    /\ Settling(t) /\ i \in In(t, "stored")
    /\ LET settled == [task[t] EXCEPT !.batch[i] = "none", !.slice = i]
       IN DiskCheck(i, Become(t, settled),
                       Become(t, [settled EXCEPT !.pc = "settledisk"]))
    /\ UNCHANGED <<ramVars, logVars, inner, serving, histVars>>

SettleDisk(t) ==
    /\ At(t, "settledisk") /\ Goto(t, "flush") /\ DiskWritten(t)
    /\ UNCHANGED <<ramVars, logVars, inner, serving,
                   issued, written, deleted, unlogged, lost>>

\* Mutant: a slice whose PUT failed is dropped.
SettleDropped(t, i) ==
    /\ Settling(t) /\ i \in In(t, "failed")
    /\ Become(t, [task[t] EXCEPT !.batch[i] = "none", !.result = "err"])
    /\ UNCHANGED <<tierVars, histVars>>

\* A failed slice goes back to the dirty buffer.
SettleFailed(t, i) ==
    /\ Settling(t) /\ i \in In(t, "failed")
    /\ dirty_data' = dirty_data \cup {i}
    /\ Become(t, [task[t] EXCEPT !.batch[i] = "none", !.result = "err"])
    /\ UNCHANGED <<flush_notify, l1, disk, logVars, inner, serving, histVars>>

EndSettle(t) ==
    /\ At(t, "flush") /\ Batch(t) = {} /\ EndFlushInner(t)
    /\ UNCHANGED <<ramVars, disk, logVars, inner, histVars>>

\* The error of Wal::clear is ignored.
ClearWal(t) ==
    /\ At(t, "clear") /\ Return(t, "ok")
    /\ (wal' = {} /\ torn' = FALSE) \/ (IoFails /\ UNCHANGED logVars)
    /\ UNCHANGED <<ramVars, disk, inner, serving, histVars>>

-----------------------------------------------------------------------------
(* The environment: eviction, the waiter of the Notify, crash and restart. *)

Evict(s) ==
    /\ L1Evicts /\ l1[s] # "absent"
    /\ l1' = [l1 EXCEPT ![s] = "absent"]
    /\ UNCHANGED <<task, dirty_data, flush_notify, disk, logVars, inner, serving, histVars>>

Notified ==
    /\ flush_notify /\ flush_notify' = FALSE
    /\ UNCHANGED <<task, dirty_data, l1, disk, logVars, inner, serving, histVars>>

\* Memory is gone, PUTs in flight may land, an append in progress may leave a
\* partial record, L2 files being written stay short.
Crash ==
    /\ CanCrash
    /\ task' = [t \in Tasks |-> Idle]
    /\ dirty_data' = {} /\ l1' = Nothing
    /\ flush_notify' = FALSE /\ serving' = FALSE
    /\ \E landed \in SUBSET UNION {In(t, "putting") : t \in Tasks} :
         inner' = inner \cup landed
    /\ torn' \in IF \E t \in Tasks : At(t, "wal") THEN {torn, UseWal} ELSE {torn}
    /\ lost' = lost \cup (written \ (deleted \cup inner' \cup wal))
    /\ damaged' = damaged \cup {i \in Slices : disk[i] = "short"}
    /\ UNCHANGED <<disk, wal, issued, written, deleted, unlogged>>

\* replay_wal, run once before the first request; it never clears the log.
ReplayWal(t) ==
    /\ ~serving /\ \A u \in Tasks : At(u, "idle")
    /\ \/ /\ wal = {} /\ serving' = TRUE
          /\ UNCHANGED <<task, dirty_data, l1, unlogged, lost>>
       \/ /\ wal # {} /\ serving' = TRUE /\ IoFails   \* read_all fails
          /\ unlogged' = unlogged \cup wal
          /\ lost' = lost \cup ((written \cap wal) \ (deleted \cup inner))
          /\ UNCHANGED <<task, dirty_data, l1>>
       \/ /\ wal # {} /\ Goto(t, "drain")
          /\ l1' = [s \in Slices |-> IF s \in wal THEN "whole" ELSE l1[s]]
          /\ dirty_data' = dirty_data \cup wal
          /\ UNCHANGED <<serving, unlogged, lost>>
    /\ UNCHANGED <<flush_notify, disk, logVars, inner, issued, written, deleted, damaged>>

-----------------------------------------------------------------------------
StartCall(t) == \/ \E s \in Slices : StartWrite(t, s) \/ StartRead(t, s) \/ StartDelete(t, s)
                \/ StartFlush(t)
CallStep(t) == \/ WalAppend(t) \/ WriteDirty(t)
               \/ ReadLookup(t) \/ FillL1(t) \/ FillBoth(t) \/ FillDisk(t)
               \/ DeleteDirty(t) \/ DeleteCopies(t)
               \/ Drain(t) \/ SettleDisk(t) \/ EndSettle(t) \/ ClearWal(t)
               \/ \E i \in Slices : Put(t, i) \/ SettleStored(t, i) \/ SettleFailed(t, i)
Environment == \/ \E s \in Slices : Evict(s)
               \/ Notified \/ Crash \/ \E t \in Tasks : ReplayWal(t)

Next == (\E t \in Tasks : StartCall(t) \/ CallStep(t)) \/ Environment

Spec == Init /\ [][Next]_vars

-----------------------------------------------------------------------------
(* What the cache promises its callers.                                    *)

\* Some copy of s is in the dirty buffer, the store, or a batch being flushed.
Held(s) == s \in dirty_data \cup inner \/ \E t \in Tasks : s \in Batch(t)

\* Slices the callers may still ask for.
Retained == written \ (deleted \cup lost)

\* A process that has not replayed its log yet.
Restarted == ~serving /\ \A t \in Tasks : At(t, "idle")

\* While the mount runs, every slice whose write returned and that was neither
\* deleted nor lost at a crash is held: a drained batch is never dropped,
\* whatever PUTs fail, and a failed PUT puts its slice back (cache.rs:154-160).
NoSliceLost == Restarted \/ \A s \in Retained : Held(s)

\* A read of a slice that is neither deleted nor lost finds it, and finds it
\* whole unless its L2 file was left incomplete: no window between draining a
\* slice, storing it and filling the caches hides it (cache.rs:219-242).
\* It needs L1 entries to stay while their PUT is in flight: with several tasks
\* and L1Evicts it fails.
ReadsSucceed ==
    \A t \in Tasks :
        /\ task[t].result = "missing" => Arg(t) \in deleted \cup lost
        /\ task[t].result = "short" => Arg(t) \in deleted \cup damaged

\* The WAL loses nothing: a crash costs no slice but those whose record could
\* not be appended or read back (README.md:99, "crash recovery").
Recoverable == lost \subseteq unlogged

=============================================================================
