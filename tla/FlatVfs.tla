------------------------------ MODULE FlatVfs ------------------------------
(***************************************************************************)
(* Open files of the flat mode (oxfs-flat/src/vfs.rs, fuse.rs, inode.rs)   *)
(* over CachedOperator: each handle has a buffer of the whole file, filled *)
(* at the first write and stored by a flush.                               *)
(*                                                                         *)
(* One FUSE thread blocks on one handler at a time, so nothing bumps a     *)
(* flush_generation while its flush awaits, and it is left out.  The inode *)
(* table only grows, and gives each path one inode for ever: an inode is   *)
(* the path it was allocated for, and resolve is the identity.             *)
(***************************************************************************)
EXTENDS CachedOperator

CONSTANT Handles

OpenFile == [path : Files, buffer : Contents, dirty : BOOLEAN, closed : BOOLEAN]

ASSUME HandlesAssumption == IsFiniteSet(Handles) /\ None \notin Handles \cup OpenFile

VARIABLES
    open_files,   \* path, buffer and dirty per handle, and has it been closed?
    call,         \* the handler that awaits a request
    names         \* external: the inodes the kernel has for names of files

\* History: the content the calls gave each file (None: there is none);
\* handles on a file that was moved or removed; files whose content
\* is none of the mount's making, by one of the ways listed at Spoiled.
VARIABLES file, orphans, spoiled

history == <<file, orphans, spoiled>>
flatVars == <<opVars, open_files, call, names, history>>

-----------------------------------------------------------------------------
Pcs == {"idle", "lookup", "read", "fill", "resize", "restat", "rename"}
Handlers == [pc : Pcs, fh : Handles \cup {None}, key : Keys \cup {None},
             to : Files \cup {None}, at : 0..MaxLen]
NoCall == [pc |-> "idle", fh |-> None, key |-> None, to |-> None, at |-> 0]

\* The types of the state: in particular no buffer outgrows what was written to
\* it (the resizes of vfs.rs:191 and vfs.rs:215).
FlatTypeOK ==
    /\ OpTypeOK
    /\ open_files \in [Handles -> OpenFile \cup {None}]
    /\ call \in Handlers
    /\ names \in [Files -> Files \cup {None}]
    /\ file \in [Files -> Stored]
    /\ orphans \subseteq Handles /\ spoiled \subseteq Files

FlatInit ==
    /\ OpInit
    /\ open_files = [h \in Handles |-> None] /\ call = NoCall
    /\ names = [f \in Files |-> None]
    /\ file = [f \in Files |-> None]
    /\ orphans = {} /\ spoiled = {}

\* Mutant: one byte too many.
ResizePast(s, n) == [i \in 1..n + 1 |-> IF i <= Len(s) THEN s[i] ELSE 0]
Resize(s, n) == [i \in 1..n |-> IF i <= Len(s) THEN s[i] ELSE 0]

IsOpen(h) == open_files[h] # None
On(f) == {h \in Handles : IsOpen(h) /\ open_files[h].path = f}
DirtyOn(f) == {h \in On(f) : open_files[h].dirty}
InUse(h) == IsOpen(h) /\ ~open_files[h].closed
Fields(h, buffer, dirty, closed) ==
    [path |-> open_files[h].path, buffer |-> buffer, dirty |-> dirty, closed |-> closed]

\* Inodes the kernel has, and those whose file has been moved or removed.
Known(f) == On(f) # {} \/ \E n \in Files : names[n] = f
Stale(f) == On(f) \cap orphans # {} \/ \E n \in Files \ {f} : names[n] = f

\* What a handler awaits: a later request, or the read it has begun.
Idle == call = NoCall
Await(pc, h, k, to, n) == call' = [pc |-> pc, fh |-> h, key |-> k, to |-> to, at |-> n]
Resumed(pc) == call.pc = pc /\ call' = NoCall
ReadDone(pc) == call.pc = pc /\ ReadAnswered /\ reading' = NoRead
GotRead == reading.pc = "ok"
NoReading == UNCHANGED reading
SameCache == UNCHANGED <<object, caches, foreign>>

\* The calls give file f the content c; unless it no longer tells us anything.
Record(f, c, spoil) ==
    /\ spoiled' = (IF spoil THEN spoiled \cup {f} ELSE spoiled) \ foreign'
    /\ file' = [file EXCEPT ![f] = IF f \in spoiled' \cup foreign' THEN None ELSE c]

\* Others, and requests that report an error, leave files nothing is known of.
Forget == file' = [f \in Files |-> IF f \in foreign' THEN None ELSE file[f]]
Unrecorded == Forget /\ UNCHANGED <<orphans, spoiled>>

-----------------------------------------------------------------------------
(* lookup, getattr, readdir, mkdir, rmdir.                                 *)

\* A directory is its marker or, failing that, what is listed below it.
Lookup(k) ==
    /\ Idle /\ (k \in Files => names[k] = None)
    /\ \E answer \in {"ok", "notfound", "err"} :
        /\ stat(k, answer)
        /\ IF answer = "notfound" /\ k \in Dirs THEN Await("lookup", None, k, None, 0) ELSE UNCHANGED call
        /\ names' = IF answer = "ok" /\ k \in Files THEN [names EXCEPT ![k] = k] ELSE names
    /\ NoReading /\ UNCHANGED open_files /\ Unrecorded

LookupList ==
    /\ Resumed("lookup") /\ list(call.key)
    /\ NoReading /\ UNCHANGED <<open_files, names>> /\ Unrecorded

\* With a dirty buffer on the path, getattr answers from it.
Getattr(f) ==
    /\ Idle /\ Known(f) /\ DirtyOn(f) = {}
    /\ \E answer \in {"ok", "notfound", "err"} : stat(f, answer)
    /\ NoReading /\ UNCHANGED <<open_files, call, names>> /\ Unrecorded

Readdir(d) ==
    /\ Idle /\ list(d)
    /\ NoReading /\ UNCHANGED <<open_files, call, names>> /\ Unrecorded

Mkdir(d) ==
    /\ Idle /\ (\E ok \in BOOLEAN : create_dir(d, ok))
    /\ NoReading /\ UNCHANGED <<open_files, call, names>> /\ Unrecorded

\* Whether the directory is empty nobody asks.
Rmdir(d) ==
    /\ Idle /\ (\E ok \in BOOLEAN : delete(d, ok))
    /\ NoReading /\ UNCHANGED <<open_files, call, names>> /\ Unrecorded

-----------------------------------------------------------------------------
(* create, open, read, write.                                              *)

Opened(h, f) ==
    open_files' = [open_files EXCEPT ![h] =
                     [path |-> f, buffer |-> <<>>, dirty |-> FALSE, closed |-> FALSE]]

\* The kernel has just been told that the name is free.
Create(f, h) ==
    /\ Idle /\ ~IsOpen(h) /\ names[f] = None /\ stat_cache[f] = None /\ ~Present(f)
    /\ \E ok \in BOOLEAN :
        /\ write(f, <<>>, ok)
        /\ IF ok
           THEN Opened(h, f) /\ names' = [names EXCEPT ![f] = f] /\ Record(f, <<>>, FALSE)
           ELSE UNCHANGED <<open_files, names, spoiled>> /\ Forget
    /\ NoReading /\ UNCHANGED <<call, orphans>>

Open(f, h) ==
    /\ Idle /\ ~IsOpen(h) /\ names[f] # None
    /\ Opened(h, names[f])
    /\ orphans' = IF names[f] = f THEN orphans ELSE orphans \cup {h}
    /\ UNCHANGED <<opVars, call, names, file, spoiled>>

\* A dirty handle reads its own buffer, a clean one the file.
Read(h) ==
    /\ Idle /\ InUse(h) /\ ~open_files[h].dirty
    /\ StartRead(open_files[h].path) /\ Await("read", h, open_files[h].path, None, 0)
    /\ SameCache /\ UNCHANGED <<open_files, names, history>>

ReadAnswer ==
    /\ ReadDone("read") /\ Resumed("read")
    /\ SameCache /\ UNCHANGED <<open_files, names, history>>

\* Some byte at offset o of a buffer that held base; lost: not the file's content.
Apply(h, o, base, lost) == \E byte \in Bytes \ {0} :
    LET f == open_files[h].path
        Over(s) == [Resize(s, IF o >= Len(s) THEN o + 1 ELSE Len(s)) EXCEPT ![o + 1] = byte]
        spoil == lost \/ h \in orphans \/ DirtyOn(f) \ {h} # {} \/ file[f] = None
    IN /\ open_files' = [open_files EXCEPT ![h] = Fields(h, Over(base), TRUE, FALSE)]
       /\ UNCHANGED <<names, orphans>> /\ SameCache
       /\ Record(f, IF spoil THEN None ELSE Over(file[f]), spoil)

NeedsRead(h) == open_files[h].buffer = <<>> /\ ~open_files[h].dirty

Write(h, o) ==
    /\ Idle /\ InUse(h)
    /\ \/ /\ ~NeedsRead(h) /\ NoReading /\ UNCHANGED call
          /\ Apply(h, o, open_files[h].buffer, ~open_files[h].dirty /\ open_files[h].buffer # file[open_files[h].path])
       \/ /\ NeedsRead(h)
          /\ StartRead(open_files[h].path) /\ Await("fill", h, open_files[h].path, None, o)
          /\ SameCache /\ UNCHANGED <<open_files, names, history>>

\* Mutant: the buffer is not filled.
FilledEmpty == ReadDone("fill") /\ Resumed("fill") /\ Apply(call.fh, call.at, <<>>, ~GotRead)

\* A read that failed, for whatever reason, gives an empty file.
Filled ==
    /\ ReadDone("fill") /\ Resumed("fill")
    /\ Apply(call.fh, call.at, IF GotRead THEN reading.data ELSE <<>>, ~GotRead)

-----------------------------------------------------------------------------
(* setattr with a size: store the file at its new size, then cut the dirty *)
(* buffers of the path, then stat it.                                      *)

\* Mutant: the buffers keep their size.
StoreUncut(f, n, data) ==
    /\ \E ok \in BOOLEAN :
        /\ write(f, data, ok)
        /\ IF ok
           THEN /\ Record(f, IF file[f] = None THEN None ELSE Resize(file[f], n), Stale(f))
                /\ Await("restat", None, f, None, 0)
           ELSE Forget /\ call' = NoCall /\ UNCHANGED spoiled
    /\ UNCHANGED <<open_files, names, orphans>>

StoreResized(f, n, data) ==
    /\ \E ok \in BOOLEAN :
        /\ write(f, data, ok)
        /\ IF ok
           THEN /\ open_files' = [h \in Handles |->
                     IF h \in DirtyOn(f) THEN [open_files[h] EXCEPT !.buffer = Resize(@, n)]
                     ELSE open_files[h]]
                /\ Record(f, IF file[f] = None THEN None ELSE Resize(file[f], n), Stale(f))
                /\ Await("restat", None, f, None, 0)
           ELSE Forget /\ call' = NoCall /\ UNCHANGED <<open_files, spoiled>>
    /\ UNCHANGED <<names, orphans>>

Truncate(f, n) ==
    /\ Idle /\ Known(f)
    /\ \/ n = 0 /\ StoreResized(f, 0, <<>>) /\ NoReading
       \/ /\ n > 0 /\ StartRead(f) /\ Await("resize", None, f, None, n)
          /\ SameCache /\ UNCHANGED <<open_files, names, history>>

Resized ==
    /\ ReadDone("resize")
    /\ IF GotRead
       THEN StoreResized(call.key, call.at, Resize(reading.data, call.at))
       ELSE Resumed("resize") /\ SameCache /\ UNCHANGED <<open_files, names, history>>

Restat ==
    /\ Resumed("restat") /\ (\E answer \in {"ok", "notfound", "err"} : stat(call.key, answer))
    /\ NoReading /\ UNCHANGED <<open_files, names>> /\ Unrecorded

-----------------------------------------------------------------------------
(* flush, which fsync, close and release share: store a dirty buffer.      *)

flush(h, ok) == open_files[h].dirty /\ write(open_files[h].path, open_files[h].buffer, ok)

Fsync(h) ==
    /\ Idle /\ InUse(h)
    /\ \E ok \in BOOLEAN :
        /\ flush(h, ok)
        /\ open_files' = [open_files EXCEPT ![h] = Fields(h, @.buffer, ~ok, FALSE)]
    /\ NoReading /\ UNCHANGED <<call, names>> /\ Unrecorded

\* close: the kernel's flush request, which stores nothing with --writeback.
Close(h) ==
    /\ Idle /\ InUse(h)
    /\ IF open_files[h].dirty /\ ~Writeback
       THEN \E ok \in BOOLEAN :
                /\ flush(h, ok)
                /\ open_files' = [open_files EXCEPT ![h] = Fields(h, @.buffer, ~ok, TRUE)]
       ELSE /\ open_files' = [open_files EXCEPT ![h] = Fields(h, @.buffer, @.dirty, TRUE)]
            /\ SameCache
    /\ NoReading /\ UNCHANGED <<call, names>> /\ Unrecorded

\* Mutant: the handle goes unflushed.
ReleaseUnflushed(h) ==
    /\ Idle /\ IsOpen(h) /\ open_files[h].closed
    /\ open_files' = [open_files EXCEPT ![h] = None] /\ orphans' = orphans \ {h}
    /\ UNCHANGED <<opVars, call, names, file, spoiled>>

\* release, some time after close, drops the handle with what it holds.
Release(h) ==
    /\ Idle /\ IsOpen(h) /\ open_files[h].closed
    /\ open_files' = [open_files EXCEPT ![h] = None] /\ orphans' = orphans \ {h}
    /\ IF open_files[h].dirty
       THEN \E ok \in BOOLEAN :
                /\ flush(h, ok)
                /\ Record(open_files[h].path, file[open_files[h].path], ~ok)
       ELSE SameCache /\ UNCHANGED <<file, spoiled>>
    /\ NoReading /\ UNCHANGED <<call, names>>

-----------------------------------------------------------------------------
(* unlink and rename, of a name the kernel has looked up.                  *)

\* File f is gone from its name: its handles, dirty ones above all, are not.
Gone(f) == orphans' = orphans \cup On(f) /\ Record(f, None, DirtyOn(f) # {})

Unlink(f) ==
    /\ Idle /\ names[f] # None
    /\ \E ok \in BOOLEAN :
        /\ delete(f, ok)
        /\ IF ok THEN Gone(f) /\ names' = [names EXCEPT ![f] = None]
                 ELSE Forget /\ UNCHANGED <<names, orphans, spoiled>>
    /\ NoReading /\ UNCHANGED <<open_files, call>>

\* A rename of a name onto another of the same inode the kernel drops.
Rename(f, g) ==
    /\ Idle /\ names[f] # None /\ names[f] # names[g] /\ f # g
    /\ \E ok \in BOOLEAN :
        /\ copy(f, g, ok)
        /\ IF ok
           THEN /\ Await("rename", None, f, g, 0)
                /\ Record(g, file[f], f \in spoiled \cup foreign \/ DirtyOn(f) \cup DirtyOn(g) # {})
                /\ orphans' = orphans \cup On(g)
           ELSE Forget /\ UNCHANGED <<call, spoiled, orphans>>
    /\ NoReading /\ UNCHANGED <<open_files, names>>

\* The copy is made: the source goes, or stays beside it when the delete fails.
\* The kernel's name moves, with the inode it has; the inode table does not.
RenameDelete ==
    /\ Resumed("rename")
    /\ \E ok \in BOOLEAN :
        /\ delete(call.key, ok)
        /\ IF ok
           THEN Gone(call.key) /\ names' = [names EXCEPT ![call.to] = names[call.key], ![call.key] = None]
           ELSE Forget /\ UNCHANGED <<names, orphans, spoiled>>
    /\ NoReading /\ UNCHANGED <<open_files>>

\* External: the kernel's entry for a name expires.
KernelDrops(f) ==
    /\ Idle /\ names[f] # None
    /\ names' = [names EXCEPT ![f] = None]
    /\ UNCHANGED <<opVars, open_files, call, history>>

-----------------------------------------------------------------------------
OfFile(f) ==
    \/ Getattr(f) \/ Unlink(f) \/ KernelDrops(f)
    \/ \E n \in 0..MaxLen : Truncate(f, n)
    \/ \E g \in Files : Rename(f, g)
    \/ \E h \in Handles : Create(f, h) \/ Open(f, h)
OfHandle(h) ==
    \/ Read(h) \/ Fsync(h) \/ Close(h) \/ Release(h)
    \/ \E o \in 0..MaxLen - 1 : Write(h, o)
OfDir(d) == Readdir(d) \/ (d \in Dirs /\ (Mkdir(d) \/ Rmdir(d)))
Continue == LookupList \/ ReadAnswer \/ Filled \/ Resized \/ Restat \/ RenameDelete

FlatNext ==
    \/ \E k \in Keys : Lookup(k)
    \/ \E f \in Files : OfFile(f)
    \/ \E h \in Handles : OfHandle(h)
    \/ \E d \in Dirs \cup {Root} : OfDir(d)
    \/ Continue
    \/ OpStep /\ UNCHANGED <<open_files, call, names>> /\ Unrecorded

FlatSpec == FlatInit /\ [][FlatNext]_flatVars

-----------------------------------------------------------------------------
\* Files whose content is not the mount's alone, by what others did or a request
\* that reported an error, or no longer one story, because of
\*   - a write over a buffer that is not the file's content: left from an earlier
\*     flush (vfs.rs:159), or empty because the read failed (vfs.rs:172);
\*   - two handles dirty at once, each with a whole file to store (vfs.rs:255);
\*   - a write, or a truncate, through a handle or an inode whose file was renamed
\*     or removed (the path of vfs.rs:11 and of inode.rs never moves);
\*   - a rename or unlink under a dirty handle (vfs.rs:287, vfs.rs:275);
\*   - a release whose flush failed (vfs.rs:269).
Spoiled == spoiled \cup foreign

Shown(f) == IF DirtyOn(f) = {} THEN object[f]
            ELSE open_files[CHOOSE h \in DirtyOn(f) : TRUE].buffer

\* Between handlers the last content the calls gave a file is in the bucket or
\* in the one dirty buffer: through fills, partial writes, truncates, flushes that
\* fail, releases, renames cut after the copy (vfs.rs:155-273, vfs.rs:287-290).
ContentKept == Idle => \A f \in Files \ Spoiled : Shown(f) = file[f]

\* A read through a handle on a file nobody has dirty answers with that content,
\* unless a request to the store failed (fuse.rs:207-241, cache.rs:63-111).
ReadsContent ==
    call.pc = "read" /\ ReadAnswered /\ call.key \notin Spoiled /\ DirtyOn(call.key) = {} =>
        (GotRead /\ reading.data = file[call.key]) \/ call.fh \in orphans \/ reading.failed

\* "Every mutation automatically invalidates the affected stat/content/dir caches"
\* (cache.rs:14-16): what others did not touch is in the caches as it is in the
\* bucket.  A directory without a marker is not covered: it comes and goes with
\* what is below it, and the listing it is in stays (cache.rs:187-189).
CachesFresh ==
    /\ \A k \in Keys \ foreign : stat_cache[k] \in {None, object[k]}
    /\ \A d \in Dirs \cup {Root} : dir_cache[d] # None =>
         \A k \in Keys : \/ k \in dir_cache[d] <=> k \in Listing(d)
                         \/ k \in foreign \/ (k \in Dirs /\ ~Present(k))

R == INSTANCE ObjectReads WITH
       Keys <- Files, Values <- Contents,
       object <- [f \in Files |-> object[f]],
       kept <- [f \in Files |->
                  IF reading.pc = "validate" /\ reading.key = f THEN reading.data
                  ELSE IF content_cache[f] = None THEN None ELSE content_cache[f].data],
       read <- [key |-> reading.key, failed |-> reading.failed, done |-> ReadAnswered,
                got |-> IF ReadAnswered THEN reading.data ELSE None]

\* Reads through the content cache (cache.rs:63-111) do what ObjectReads says,
\* whoever writes between their requests: the refinement mapping hides the steps
\* of the read, and takes for kept what is cached or about to be validated.
ReadsRefined == R!ReadSpec
=============================================================================
