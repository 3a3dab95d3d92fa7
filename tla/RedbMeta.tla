------------------------------ MODULE RedbMeta ------------------------------
(***************************************************************************)
(* The redb metadata engine (oxfs-posix/src/redb_engine.rs).  Each         *)
(* operation is one write transaction under the mutex of the database: it  *)
(* commits all of its rows or, on an error, none.                          *)
(***************************************************************************)
EXTENDS MetaTables

Saturating(t, i) == IF t.nodes[i].nlink > 0 THEN AddLinks(t, i, -1) ELSE t

RedbInit ==
    /\ db = [InsertNode(Empty, Root, "dir") EXCEPT !.next = 2]
    /\ held = {Root} /\ merging = {} /\ replaced = {} /\ revived = {}

\* Mutants: unlink removes directories that have entries; an entry names the
\* counter read after it advanced; an entry that goes takes its inode along,
\* held or not; a directory that moves leaves its parents' counts; forget takes
\* the last link for none; forget removes the node and not its rows.
NeverFull(d) == FALSE
NextEntry(t, d, n, k) == InsertEdge(t, d, n, db.next + 1, k)
DroppedReaped(d, n, c) ==
    LET t == Saturating(DeleteEdge(db, d, n), c)
    IN IF t.nodes[c].nlink = 0 THEN DeleteNode(t, c) ELSE t
NotRecounted(t, c, sd, dd) == t
LastLink(i) == Exists(db, i) /\ db.nodes[i].nlink <= 1
NodeRemoved(i) == DeleteNode(db, i)

NotEmpty(d) == IsDir(d) /\ \E n \in Names : Taken(d, n)

\* The entry of a new inode, of an inode that goes, and the rows that go with it.
NewEntry(t, d, n, k) == InsertEdge(t, d, n, db.next, k)

Dropped(d, n, c) ==
    LET t == Saturating(DeleteEdge(db, d, n), c)
    IN IF IsDir(c) THEN Saturating(t, d) ELSE t

Recounted(t, c, sd, dd) ==
    IF IsDir(c) /\ sd # dd THEN AddLinks(Saturating(t, sd), dd, 1) ELSE t

Linkless(i) == Exists(db, i) /\ db.nodes[i].nlink = 0
Removed(i) == [DeleteNode(db, i) EXCEPT !.chunks = @ \ {i}, !.symlinks = @ \ {i}]

-----------------------------------------------------------------------------
\* create, mkdir and mknod, and symlink with its row of targets.
Create(d, n, k) ==
    LET i == db.next
        t == NewEntry(InsertNode(db, i, k), d, n, k)
        p == IF k = "dir" THEN AddLinks(t, d, 1) ELSE t
    IN /\ InDir(d) /\ ~Taken(d, n) /\ i \in Inos
       /\ db' = [p EXCEPT !.next = i + 1,
                          !.symlinks = IF k = "symlink" THEN @ \cup {i} ELSE @]
       /\ held' = held \cup {i}
       /\ UNCHANGED <<merging, replaced, revived>>

Link(i, d, n) ==
    /\ MayLink(i, d) /\ ~Taken(d, n)
    /\ db' = InsertEdge(AddLinks(db, i, 1), d, n, i, db.nodes[i].kind)
    /\ UNCHANGED <<held, merging, replaced, revived>>

\* unlink and rmdir.
Unlink(d, n) ==
    LET c == Child(d, n)
    IN /\ InDir(d) /\ Taken(d, n) /\ Exists(db, c) /\ ~NotEmpty(c)
       /\ db' = Dropped(d, n, c)
       /\ UNCHANGED <<held, merging, replaced, revived>>

\* The entry rename replaces goes first, whatever is below it.
Rename(sd, sn, dd, dn) ==
    LET c == Child(sd, sn)
        over == Child(dd, dn)
        t == IF Taken(dd, dn) THEN Dropped(dd, dn, over) ELSE db
    IN /\ MayRename(sd, sn, dd, dn)
       /\ db' = Recounted(MoveEdge(t, sd, sn, dd, dn), c, sd, dd)
       /\ replaced' = IF Taken(dd, dn) /\ \E m \in Names : Taken(over, m)
                      THEN replaced \cup {over} ELSE replaced
       /\ UNCHANGED <<held, merging, revived>>

\* The kernel drops an inode; one without links goes with its rows.
Forget(i) ==
    /\ i \in held \ {Root} /\ held' = held \ {i}
    /\ db' = IF Linkless(i) THEN Removed(i) ELSE db
    /\ UNCHANGED <<merging, replaced, revived>>

\* The process stops and is mounted again; init finds its tables.
Remount ==
    /\ held' = {Root} /\ merging' = {}
    /\ UNCHANGED <<db, replaced, revived>>

RedbNext ==
    \/ \E d \in Inos, n \in Names :
         \/ Lookup(d, n) \/ Unlink(d, n)
         \/ \E k \in Kinds : Create(d, n, k)
         \/ \E i \in Inos : Link(i, d, n)
         \/ \E dd \in Inos, dn \in Names : Rename(d, n, dd, dn)
    \/ \E i \in Inos : Forget(i) \/ WriteSlice(i) \/ GetChunks(i) \/ ReplaceSlices(i)
    \/ Remount

RedbSpec == RedbInit /\ [][RedbNext]_tableVars

-----------------------------------------------------------------------------
\* Link counts are the entries, through any sequence of creates, links,
\* unlinks and renames over each other (redb_engine.rs:203-469, 591-641).
LinksCounted == \A i \in Inos : Counted(i)

\* No entry dangles: forget, which trusts the link count, never removes a node
\* an entry still names (redb_engine.rs:659-693).
EntriesResolve == \A e \in Inos \X Names : Resolves(e)

\* The kernel's inodes stay: a node it has looked up is there until it forgets
\* it, unlinked or replaced as it may be (sqlite.rs:412-413).
HeldExist == \A i \in held : Exists(db, i)

\* What forget leaves behind is owned by a node, but for the chunk row of a
\* file that a compaction writes back after its forget (vfs.rs:266-299).
RowsOwned == \A i \in db.chunks \cup db.symlinks : Exists(db, i) \/ i \in revived

\* A directory that has entries is in the tree, or a rename has replaced it.
NoEntryBelowRemoved == \A d \in Inos : (\E n \in Names : Taken(d, n)) => Live(d) \/ d \in replaced

N == INSTANCE Namespace WITH
       kind <- [i \in Inos |-> db.nodes[i].kind],
       entry <- [e \in Inos \X Names |-> db.edges[e].child],
       held <- held

\* The engine implements Namespace: rows and link counts seen away, each call is
\* one step on the names, and forget, which goes by the link count
\* (redb_engine.rs:659-693), removes just what has no name any more.
NamesRefined == N!SpaceSpec

=============================================================================
