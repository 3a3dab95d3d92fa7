# oxfs in TLA+

Specifications of [oxfs](../src/README.md), a FUSE file system over object
stores: TLA+ modules translated from the Rust sources, TLC configurations that
check them on small instances, and proofs checked by TLAPS. All paths below are
relative to `src/crates/`.

## The system

oxfs mounts an OpenDAL operator in one of two modes.

**Posix mode** keeps names and attributes in a local database and file contents
as immutable *slices* in the object store.

| Component | State | Operations | Interacts with |
|---|---|---|---|
| FUSE front end, `oxfs-posix/src/fuse.rs` | none | a handler per request, each a `block_on` on the single FUSE thread | calls the Vfs; `release` spawns a task |
| Vfs, `vfs.rs` | `dirty_inodes`, a mutex per inode | `read`, `write`, `compact_and_flush`, the background flusher | metadata engine, cache, prefetcher |
| Tiered cache, `cache.rs` | dirty buffer, L1 (moka), L2 files, permit of a `Notify` | `write_slice`, `read_slice`, `delete_slice`, `flush_dirty`, `replay_wal` | WAL, object store |
| WAL, `wal.rs` | the log file | `append`, `read_all`, `clear` | called by the cache |
| Object store adapter, `data.rs` | none of its own | PUT, GET, DELETE of a slice | OpenDAL |
| Metadata engines, `redb_engine.rs`, `sqlite.rs` | nodes, edges, chunks, symlinks, counters | `create`, `link`, `unlink`, `rename`, `forget`, `write_slice`, `replace_slices`, ... | called by the Vfs under one mutex |
| Prefetcher, `prefetch.rs` | last chunk per inode | `record_and_should_prefetch` | spawns reads of the cache |

**Flat mode** takes the keys of the bucket for paths, and the bucket may have
other writers.

| Component | State | Operations | Interacts with |
|---|---|---|---|
| FUSE front end, `oxfs-flat/src/fuse.rs` | none | a handler per request, on the single FUSE thread | inode table, Vfs |
| Vfs, `vfs.rs` | open handles, each with a buffer of the whole file | `open`, `read`, `write`, `truncate`, `flush`, `release`, `unlink`, `rename` | cached operator |
| Cached operator, `cache.rs` | stat, listing and content caches | `stat`, `list`, `read`, `write`, `delete`, `copy`, `create_dir` | object store |
| Inode table, `inode.rs` | path of an inode, inode of a path | `allocate`, `resolve` | called by the front end |

`oxfs-backend` builds the operator and `oxfs/src/main.rs` mounts one of the two.

What is hard here, and what makes each part correct:

- In the posix mode four kinds of task run at once over one cache: the FUSE
  thread, the flusher, compactions spawned by `release`, prefetches. Flushing
  drains the *whole* dirty buffer, whichever inode it was asked for. A slice
  must always be in the dirty buffer, in a batch being flushed, or stored; a
  read must find it in every window between those.
- A crash takes the dirty buffer; the WAL is there to bring it back, and is
  cleared by whoever flushes.
- Compaction reads a chunk's slices, writes their merge, replaces the list and
  deletes the old slices, while writes append to the list and reads walk it.
  Contents must not change by it; `fsync` must mean stored.
- Link counts decide what `forget` removes. They are maintained by each
  operation in place: redb does it in transactions, SQLite statement by
  statement.
- A size and the slices under it are two rows, changed in two steps by a write,
  and truncate changes only the first.
- The flat mode serves one request at a time; what is hard there is sequences
  of calls through several handles, failures of the store between the requests
  of one call, and other writers between any two requests: what a read answers
  must be the content of *some* moment, and a cache must not outlive what it
  caches.

`PROJECT.json` lists each hazard with its line and the properties that cover it.

## Modules

| Module | Models |
|---|---|
| `TieredCache` | `TieredCache` of `oxfs-posix/src/cache.rs`, with the WAL and the store |
| `PosixVfs` | the data path of `vfs.rs` and `fuse.rs`; EXTENDS `TieredCache`, whose calls are sub-steps of its operations |
| `MetaTables` | the tables, the kernel in front of them, what they promise |
| `RedbMeta`, `SqliteMeta` | the two engines over `MetaTables` |
| `Namespace` | abstract: names of inodes changed by one call at a time; `RedbMeta` refines it |
| `CachedOperator` | `oxfs-flat/src/cache.rs` over a bucket that others write |
| `FlatVfs` | `vfs.rs`, `fuse.rs`, `inode.rs` of the flat mode; EXTENDS `CachedOperator` |
| `ObjectReads` | abstract: what a read through that cache may answer; `FlatVfs` refines it |
| `TieredCacheProofs`, `PosixVfsProofs`, `PosixContentProofs` | theorems about the posix data path |
| `TableProofs` | lemmas about the edits of the tables, shared by the next two |
| `RedbMetaProofs`, `SqliteMetaProofs` | theorems about the two engines |
| `FlatVfsProofs`, `FlatContentProofs` | theorems about the flat mode |
| `MCTieredCache`, `MCPosixVfs`, `MCRedbMeta`, `MCSqliteMeta`, `MCFlatVfs` | symmetry, shapes of the bucket and constraints for TLC |

### TieredCache

`task[t]` holds the call a task is in: `pc` is the await it is at, `slice` the
argument, `batch` what a flush has drained, `result` what the call returned.
Every await and every unlock ends an action; `write_slice`, `read_slice`,
`delete_slice`, `flush_dirty` each become the actions of one section of the
module. Slice ids are handed out once, so a slice's content never changes and a
tier is a set of ids. L1 and L2 copies may be `short`: an L2 file that is being
written, or whose write failed, is read as it is. Bytes are not counted:
the check of the L2 budget may go either way. A PUT or DELETE that fails may
have taken effect. A log append that fails may leave a partial record, after
which `read_all` reaches no later one. `Crash` empties memory, lets PUTs in
flight land or not, and the next process runs `replay_wal` before it serves.

History variables say what properties need and no action's guard in the code
reads: `written`, `deleted`, `lost` (what no tier could give back at a crash),
`unlogged` (what the log could not give back), `damaged` (L2 files left
incomplete). `issued` stands for the counter that makes ids unique.

### PosixVfs

An inode has a size and one chunk, a sequence of slices; a chunk is a row of
blocks. `data` says for each slice and block which write the bytes come from, so
that overlays can be compared without bytes. `vfs[t]` is the operation of a task;
while its cache call runs, the steps are those of `TieredCache`. A `write` that
grows the file is the append of its slice (`WriteMeta`) and, after another await,
the new size (`WriteSize`); `Truncate` is `setattr` with a size, which leaves the
slices. `compact_and_flush` is one sequence of actions for the three callers:
`Fsync` (FUSE thread), `RunRelease` (a worker), `FlusherCompacts`. The lock of an
inode is a predicate on the tasks inside. Reads take the slice list in the action
that starts them, and walk it.

`file` is the content the calls gave a file. The exceptions are part of the
properties, and all are behaviours of the code. `Told` excepts `raced`, the writes
whose append fell between a compaction's read of the chunk and its
`replace_slices` (`vfs.rs:266-299`), which the replacement drops; and `uncut`, the
blocks beyond the size that still have bytes in some slice, left by a truncate
(`redb_engine.rs:300`) or by a write that failed before the size grew
(`vfs.rs:189-194`): a later extension shows them, where POSIX has zeros.
`FsyncStores` excepts slices an earlier crash has lost.

### CachedOperator, FlatVfs

An action is one request to the store with all the handler does until its next
await. `call` is what the FUSE thread awaits, `reading` the read of the cached
operator under way (HEAD with the cached ETag, HEAD, conditional GET, plain GET:
`cache.rs:63-111`); others write the bucket between any two of them. Because one
thread blocks on one handler at a time, nothing bumps a handle's
`flush_generation` while its flush awaits, and the model leaves that field out.
The inode table only grows and gives a path one inode for ever, so an inode is
the path it was made for; what the kernel takes a *name* for after a rename
(`names`, external) is the inode of the old path, as in the code.

A request to the store may fail, or fail although it was carried out
(`AnswersLost`); the keys on which that happened, and those others wrote, are in
`foreign`. `spoiled` are files whose content has stopped being one story; the
comment at `Spoiled` lists the five ways with their lines, which are the flat mode's
hazards in `PROJECT.json`. The safety properties speak of all other files. In
`flat_data` a state with a spoiled file is checked and not continued
(`NoneSpoiled`): the file would be excepted from there on, and the other file's
behaviours are those of a run in which it is not touched.

`ObjectReads` says a read answers with what the object was at *one moment* of the
read, or, only if a request failed meanwhile, with an answer given before. It
knows no cache, no ETag, no order of requests. `ReadsRefined` maps to it by hiding
the steps of the read, and by taking for `kept` what is cached or about to be
validated. `CachesFresh` has one exception, a directory without a marker, which
comes and goes in the listing above with what is below it (`cache.rs:187-189`).

### MetaTables, RedbMeta, SqliteMeta

`db` is the database. The kernel's checks (types, loops in renames, live
directories, no request on an inode it does not hold) are external and are
guards; the engines' own checks are guards where they return early. `held` is
what the kernel has looked up. `merging` are inodes with a compaction between
`get_chunks_for_inode` and `replace_slices`, the one data-path race the tables
see.

`Namespace` is what an engine is for: names of inodes, changed by one call at a
time, and an inode that stays while it has a name or is held. It has no link
counts and no rows: `Forget` asks whether the inode *has a name*, where the engine
asks for its count, so that `NamesRefined` fails if a count is ever wrong at the
moment it matters.

In `RedbMeta` an operation is one action. In `SqliteMeta` an operation computes
its statements from what it has read, and `Execute` runs them one by one, for
each commits on its own (there is no transaction in `sqlite.rs`); `Crash` and
`Fail` cut an operation anywhere. `torn` collects the inodes of operations that
were cut; the properties say that the damage does not spread beyond them.
`RedbMeta` excepts directories that a rename replaced while they had entries
(`replaced`: `redb_engine.rs:395-421` does not ask, SQLite does) and chunk rows
a compaction wrote back after `forget` (`revived`).

Crashes are of the process; the loss of the last committed transactions that
`synchronous=NORMAL` allows at a power failure is not modelled.

## Runs

| Run | Question | Bounds | Distinct states |
|---|---|---|---|
| `cache_conc` | Do concurrent calls drop a slice or hide it from a read? | 2 slices, 2 tasks, L2, failures | 432k |
| `cache_serial` | Does the log bring everything back when calls do not overlap? | 2 slices, 1 task, WAL, L2, evictions, failures | 1.4M |
| `cache_wal_race` | ... and when they do? **No** | 2 slices, 2 tasks, WAL | violation |
| `vfs_data` | Is compaction invisible to reads and to content, does fsync store? | 1 inode, 2 blocks, 5 slices, 3 writes or truncates, 1 worker | 2.46M |
| `vfs_faults` | The same when store and database fail, with crashes and evictions | 1 inode, 1 block, 3 slices, 2 writes or truncates, the flusher | 1.56M |
| `vfs_live` | Is what a released, or a marked, file holds stored in the end? | 1 inode, 3 slices, 2 writes or truncates, flusher and worker, fairness, no reads | 44k |
| `vfs_fsync` | Does fsync store with a second inode? **No** | 2 inodes, the flusher | violation |
| `redb_ns` | Do counts, entries and rows agree after any calls; is it a name space? | root and 3 inodes, 2 names | 43k |
| `sqlite_ns` | The same counts and entries, cut at any statement | root and 2 inodes, 2 names, 2 cuts | 271k |
| `sqlite_held` | Does an unlinked node stay while held? **No** | 1 cut | violation |
| `flat_data` | Is the content always in the bucket or in one buffer? | 2 files of up to 2 bytes, 2 handles, write-back, failures | 3.1M |
| `flat_cache` | Do caches and reads agree with the bucket, whoever writes it? | 1 file of up to 1 byte in a directory, 1 handle, all caches, failures, lost answers, other writers | 1.9M |

Why the bounds are enough: the races need two tasks on one slice, or one slice
in a batch while another is being written, hence two tasks and two slices. A
compaction that merges needs two slices and makes a third; three changes over two
blocks and five slices give two rounds of merging with overlapping, disjoint and
raced writes, with a truncate and an extension among them. Two inodes are needed only for the shared dirty buffer
(`vfs_fsync`). Renames of a directory into another, over a third and over hard
links need three inodes beside the root and two names; with two the SQLite run
still has a directory in a directory, and a file with two links moved over.
Two cuts let an operation be torn and the damage be hit by a second torn one.
`MaxChanges` bounds writes and truncates, `ChunkBlocks` the blocks, `Slices` the
slice counter, `Inos` the inode counter, `MaxCuts` crashes and failed statements.

The flat runs have no counter of any kind: writes, failures, other writers and
renames go on for ever, and `MaxLen` and `Bytes` bound what a file may hold. Files
of two bytes tell a prefix that was kept from one that was lost, cut or padded;
three contents of one byte or none tell versions of an object apart, which is all
the caches compare. Two files are needed for rename, two handles for stale and doubly dirty
buffers; caches are per key, so one file, its directory and the root have every
kind of listing.

The SQLite configurations do not check deadlock, for the system may really stop:
`init` cut between the root node and the counters leaves a file system in which
no inode can be created (`sqlite.rs:187-206`).

`ReadsSucceed` in `cache_conc` needs an L1 that does not evict: with several
tasks and evictions, a drained slice whose PUT is in flight can be in no tier a
read looks at, and the read fails. `cache_serial` has evictions with one task,
which never reads while it flushes.

### Findings

- **A flush clears another task's log records** (`cache.rs:264-266`): `clear`
  truncates the file although a slice logged by another task is on its way to
  the dirty buffer, or in another flush's batch. A crash then loses it, though
  its write returned.
- **fsync returns before its data is stored** (`vfs.rs:307-308`): the flusher has
  drained the dirty slices of all inodes while it handles another; `fsync` finds
  the buffer empty and answers Ok.
- **SQLite's rename removes a node the kernel holds** (`sqlite.rs:465-469`),
  against the comment at `sqlite.rs:412-413`; its chunk rows are never removed.

A fourth disagreement is modelled and has no run of its own. With `--writeback`,
close stores nothing (`oxfs-flat/src/fuse.rs:278-281`), against "flush on close
(faster, requires readers use the mount)" (`oxfs/src/main.rs:64`, `README.md:89`):
the kernel's release does, some time after close has returned, and until then a
reader of the mount that uses another handle gets the old content. `ContentKept`
and `ReadsContent` therefore except dirty handles, closed or not; without the
exception for the closed ones `ReadsContent` is violated with two handles.

### Fairness

`FairVfsSpec` assumes that a task that can take a step takes one (tokio and the
FUSE thread schedule what is ready; no call blocks for ever) and that the queue
for an inode's mutex is fair (tokio's mutex is FIFO, hence strong fairness of
`LockAndList`). It assumes nothing of applications: no request ever has to come,
`release` included. Nothing fails in `vfs_live`: a store that fails for ever stores
nothing.

A write marks its inode, then puts its slice into the dirty buffer and wakes the
flusher. In between, a flusher woken for an earlier slice, or the compaction of
an earlier release, can take the mark and flush nothing of the new slice; the
flusher, woken again, finds no mark. Two writes and three slices (the third for a
merge) have both. Such a slice stays dirty until its file is written, synced or
released again, so that "every dirty slice is stored" is false; the two properties
are what holds. `ReleasedStored`: what is in a file when it is released is stored,
or merged and deleted. `MarkedStored`: while an inode is marked, what is in the
file is going to be stored, because the mark comes before the permit; with the
mark set after it (mutant `MarkLate`) a mark can wait for ever. `NoReads` leaves
out behaviours with reads: no fairness asks for one, and a read over an L1 that
evicts nothing leaves what the other tasks look at as it is.

## Proofs

`tlapm` proves the following for all values of the constants that the named
ASSUMEs admit. Every invariant and refinement that a passing run checks has a
theorem; the two liveness properties have none.

### The tiered cache (`TieredCacheProofs`)

- `TypeCorrect`: `Spec => []TypeOK`.
- `NothingLost`: `Spec => []NoSliceLost`. `NoSliceLost` is not inductive. `KeptInv`
  adds where a batch may be (only in a flush that settles) and that its stored
  items are in the store or deleted (`BatchInv`, without which settling a stored
  item could drop it), that a deletion under way is on record (`DeleteInv`), that
  before the mount serves nothing but a replay runs (`ReplayInv`), and that a
  restarted process finds every slice still wanted in the store or the log
  (`LogInv`, without which a replay would not re-establish `NoSliceLost`).
- `RecoverableAlone`: if there is one task, `Spec => []Recoverable`. `AloneInv` adds
  that every slice still wanted and not `unlogged` is stored or logged
  (`CoveredInv`), and that a flush about to clear the log has left nothing in the
  dirty buffer (`FlusherInv`). `cache_wal_race` shows that the assumption is needed:
  with a second task the dirty buffer fills while the first clears.
- `ReadsFindSlices`: `Alone \/ Lasting => (Spec => []ReadsSucceed)`, the two
  situations the runs check. `Alone` is one task, with evictions, crashes and
  failures of every kind; there a read that has not found its slice so far finds
  things as it left them, so that `NoSliceLost` leaves only the store
  (`SerialInv`). `Lasting` is any number of tasks over an L1 that does not evict, in
  a process that does not crash; there a slice that is not deleted is in
  the L1 from its write on (`LastingInv`), and no read of it goes further. Without
  either, a drained slice whose PUT is in flight can be in no tier a read looks
  at, and an L2 file another task is writing is read short.

### The posix data path (`PosixVfsProofs`, `PosixContentProofs`)

- `CacheUnderVfs`: `VfsSpec => Spec`: each step of the data path is a step of the
  cache or leaves it alone; a refinement with the identity mapping, for
  `PosixVfs` calls the cache only as its callers may. `NothingLostUnderVfs` follows.
- `VfsTypeCorrect`: `VfsSpec => []VfsTypeOK`. A loop stays in its list only because
  of the call it awaits, so `CallInv` says which calls of the cache a task can be
  in at each place of its operation, and on which slice (`CallOK`).
- `TableKeepsSlices`: `VfsSpec => []RefsNotDeleted`. `RefsInv` adds that a slice is in
  one place: on its way into a chunk (`FreshOK`), once in one chunk (`TableOK`), or
  in the list of the one compaction that may delete it (`SeenOK`); and that two
  tasks never have the same (`Apart`), which for compactions is the inode's lock.
- `FsyncAlone`: `Exclusive => (VfsSpec => []FsyncStores)`, with `Exclusive` one inode,
  or no task but the FUSE thread. A flush waits for its own batch only, so its
  promise depends on no other batch being under way: with one inode the lock sees
  to that. `vfs_fsync` shows the promise broken with two.
- `FilesKeepContent`: `VfsSpec /\ []NoShort => [](ContentKept /\ ReadsContent)`. What a
  chunk shows in a block is a relation here (`Shows`: the last slice that covers it
  does) rather than a recursion. `ContentInv` says that the table shows what `file`
  has where it tells (`ChunkOK`), that the buffers of reads and compactions show
  what the slices copied so far do (`BufOK`), and that the list a compaction has
  read is still a prefix of the chunk with nothing after it but slices that the
  replacement is going to drop, which are `raced` (`PrefixOK`).
- `TableKeepsContent` and `ReadsReturnContent`: the two properties, for
  configurations without a disk tier, where no read is cut short
  (`NoDiskNoShort`). The hypothesis is needed: with a disk tier
  (`vfs_faults` with `UseDisk`, `L1Evicts` and failures) TLC finds a read of an L2
  file that a failed write left incomplete (`cache.rs:201`), which a compaction
  merges into the new slice before it deletes the old one.

### redb (`RedbMetaProofs`, over `TableProofs`)

- `RedbTypeCorrect`, `HeldNodesStay`, `RowsHaveOwners`: `RedbSpec => []TypeOK`,
  `[]HeldExist` and `[]RowsOwned`, from their conjunction with `Root \in held`
  (`RedbInv`), which is inductive. Every operation but `forget` only makes edits
  that keep the nodes and rows there are (`Keeps`, a lemma for each edit);
  `forget` takes a node out with its rows when the kernel no longer holds it.
- `LinksStayCounted`, `EntriesStayResolved`, `OnlyRenameHides`: `[]LinksCounted`,
  `[]EntriesResolve`, `[]NoEntryBelowRemoved`, from `NamesInv`. To count links one
  must know that a directory has one entry at most (`OneParent`), that ids are
  fresh (`Counter`), and that the count of a directory *out of* the tree is never
  zero (in `Tally`), or `forget` would take it for a file without names. The cases
  of rename (over nothing, a file, a directory, another link of the same file)
  are lemmas about the cardinalities of the sets of entries before and after.
- `RedbImplementsNamespace`: `RedbSpec => NamesRefined`: each operation is a step of
  `Namespace` under the mapping, from the counts: `forget` goes by `nlink` where the
  name space asks for a name.

### SQLite (`SqliteMetaProofs`, over `TableProofs`)

- `SqliteTypeCorrect`, `CountsBreakLocally`, `EntriesBreakLocally`, `RenameKeepsName`,
  `FullStayInTree`: `SqliteSpec => []SqliteTypeOK`, `[]LinksCounted`,
  `[]EntriesResolve`, `[]RenameKeepsSource`, `[]NoEntryBelowRemoved`, for any number
  of inodes, names and cuts. The properties speak of the tables between operations
  or at every statement, and a cut can come at any, so the invariant (`SqliteInv`)
  is about the statements that an operation has still to run:
  - `Shape` holds after every statement, whatever was cut: entries fit the nodes
    at both ends, a directory has one entry at most, no number is used before the
    counter gave it out, the root is there first, and a directory with entries
    has an entry itself. `Sound` holds of the inodes that are not torn: the count
    is right, and without a node nothing leads there.
  - `Running`: the pending statements lead, through tables with `Shape`, with every
    inode `Sound` but the torn ones and those the operation is about, and with the
    renamed file named, to tables where only the torn ones are not. There is one
    lemma per operation (`CreateLeads`, `LinkLeads`, `UnlinkLeads`, `RenameLeads`
    from `DropLeads` and `MoveLeads`, `MountLeads`, `ForgetLeads`); a statement that
    runs takes the head off (`LeadsHead`), and one that does not adds to `torn`
    what `Running` already excepts.
  - `Started`: before its first statement an operation has broken nothing, which is
    why a cut there tears nothing.
  - `Forgetting`: `forget` ignores errors (`sqlite.rs:691-694`), so any of its
    statements may be missing; what is left is good each time (`Forgettable`).
  - `Idle`: nothing is pending before the mount.

  `forget` takes a node out by its link count (`sqlite.rs:688`), which a cut may have
  left wrong; of an inode that is not torn, a count of zero means that nothing leads
  to it (`LinklessGone`).

### The flat mode (`FlatVfsProofs`, `FlatContentProofs`)

- `FlatTypeCorrect`: `FlatSpec => []FlatTypeOK`. `FlatInv` adds what a read has in hand
  at each of its requests (`ReadOK`), that it is under way exactly while a handler
  awaits one (`ReadingInv`), and what each handler goes on with (`CallInv`).
- `CachesStayFresh`: `FlatSpec => []CachesFresh`. `CacheInv` adds the content cache, what
  a read under way is about to put there (`ReadingFresh`), and that a listing has
  only what belongs in it (`OwnListings`), without which invalidating a parent's
  listing would not be enough.
- `ReadsImplement`: `FlatSpec => ReadsRefined`, with one strengthening (`Validates`):
  while a cached content is validated, nothing else takes its place.
- `ContentStays`, `ReadsAnswerContent`: `[]ContentKept`, `[]ReadsContent`. `StoryInv` says of each
  file that is not spoiled that one handle at most is dirty, with the content
  of the file, that the bucket has it if none is, and that who holds the file or
  its name has a file (`Story`, `Held`): a rename cut after the copy and a release
  after an unlink both go by that.

### What is only model-checked

`ReleasedStored` and `MarkedStored`, for liveness is outside what the prover does. The runs that
expect a violation are counterexamples. What the theorems assume beyond the
constants' ASSUMEs is in their statements: `Alone`, `Lasting`, `Exclusive`,
`~UseDisk`.

## Not modelled

- The prefetcher: when to prefetch is a heuristic no property depends on, and a
  prefetch is more calls of `read_slice`, which `TieredCache` has from any task.
- The bytes of the WAL: a record cut short hides what follows it; that its
  successor's bytes may be taken for its data (`wal.rs:33`) needs contents of
  slices in the cache, and is listed as a hazard without a property.
- The byte budget of the L2 (`cache.rs:198`): the check goes either way.
- Chunk arithmetic: an inode has one chunk. A read or write over several is a
  loop of the steps here.
- Times, modes, owners, `statfs`, `access`, reply formats; the flags of rename,
  which the handlers ignore.
- In the flat mode, renames of directories: on the store they fail, or move a
  marker and nothing below it.
- `PassthroughCache`, option parsing and the backend builder: no state.

## Plan

Done: the tiered cache, the posix data path with sizes, both engines, the flat
mode, the abstract name space and the abstract reads, and the proofs of all of
them. Next, in this order:

1. An abstract file with durability, to state what an fsync promises over a
   crash with and without a log (`vfs.rs:297`).
2. `Wal` with records as bytes; the budget of the L2.
