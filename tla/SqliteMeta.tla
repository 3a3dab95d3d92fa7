----------------------------- MODULE SqliteMeta -----------------------------
(***************************************************************************)
(* The SQLite metadata engine (oxfs-posix/src/sqlite.rs).  An operation    *)
(* holds the connection's mutex and reads what it needs first, then runs   *)
(* its statements one by one, each committed on its own: a crash, or an    *)
(* error, which returns at once, leaves the rest undone.                   *)
(***************************************************************************)
EXTENDS MetaTables

CONSTANTS
    SqlFails,      \* may a statement return an error?
    MaxCuts        \* bound: crashes, and statements that fail, in a behaviour

ASSUME SqlFailsAssumption == SqlFails \in BOOLEAN
ASSUME MaxCutsAssumption == MaxCuts \in Nat

VARIABLES
    mounted,   \* has init returned?
    pending,   \* the statements the operation has still to run
    call,      \* the operation: inodes it is about and replies with, its length
    renamed    \* history: the last rename, <<>> when another call came after it

\* History: crashes and failures so far, and the inodes that operations cut in
\* the middle were about.
VARIABLES cuts, torn

sqliteVars == <<tableVars, mounted, pending, call, renamed, cuts, torn>>

NoCall == [on |-> {}, gives |-> {}, len |-> 0, forget |-> FALSE]

SqliteTypeOK ==
    /\ TypeOK /\ mounted \in BOOLEAN /\ torn \subseteq Inos /\ cuts \in 0..MaxCuts
    /\ call \in [on : SUBSET Inos, gives : SUBSET Inos, len : 0..7, forget : BOOLEAN]
    /\ Len(pending) <= call.len
    /\ renamed = <<>> \/ renamed \in Inos \X Names \X Inos \X Names \X Inos

SqliteInit ==
    /\ db = Empty /\ held = {Root} /\ merging = {} /\ replaced = {} /\ revived = {}
    /\ mounted = FALSE /\ pending = <<>> /\ call = NoCall /\ renamed = <<>>
    /\ cuts = 0 /\ torn = {}

\* Mutants: rename and unlink remove directories that have entries; the last
\* link counts as none; a new entry names the counter before it advanced; the
\* parents of a directory that moves are recounted the wrong way round; rename
\* takes the source out before it enters the destination.
NeverFull(d) == FALSE
LastLink(t, i) == Exists(t, i) /\ t.nodes[i].nlink <= 1
OldEntry(d, n, i, k) == <<"edge", d, n, db.next, k>>
RecountSwapped(c, sd, dd) ==
    IF IsDir(c) /\ sd # dd THEN <<<<"links", dd, -1>>, <<"links", sd, 1>>>> ELSE <<>>
OutThenIn(sd, sn, dd, dn) ==
    <<<<"unedge", sd, sn>>, <<"edge", dd, dn, Child(sd, sn), Entry(sd, sn).kind>>>>

NotEmpty(d) == IsDir(d) /\ \E n \in Names : Taken(d, n)
Linkless(t, i) == Exists(t, i) /\ t.nodes[i].nlink <= 0

\* What a statement makes of the tables.
Apply(t, s) ==
    CASE s[1] = "counter" -> [t EXCEPT !.next = s[2]]
      [] s[1] = "node"    -> InsertNode(t, s[2], s[3])
      [] s[1] = "edge"    -> InsertEdge(t, s[2], s[3], s[4], s[5])
      [] s[1] = "links"   -> AddLinks(t, s[2], s[3])
      [] s[1] = "unedge"  -> DeleteEdge(t, s[2], s[3])
      [] s[1] = "reap"    -> IF Linkless(t, s[2]) THEN DeleteNode(t, s[2]) ELSE t
      [] s[1] = "move"    -> MoveEdge(t, s[2], s[3], s[4], s[5])
      [] s[1] = "symlink" -> [t EXCEPT !.symlinks = @ \cup {s[2]}]
      [] s[1] = "dechunk" -> [t EXCEPT !.chunks = @ \ {s[2]}]
      [] s[1] = "desym"   -> [t EXCEPT !.symlinks = @ \ {s[2]}]
      [] s[1] = "denode"  -> DeleteNode(t, s[2])

NewEntry(d, n, i, k) == <<"edge", d, n, i, k>>
Recount(c, sd, dd) ==
    IF IsDir(c) /\ sd # dd THEN <<<<"links", sd, -1>>, <<"links", dd, 1>>>> ELSE <<>>
Move(sd, sn, dd, dn) == <<<<"move", sd, sn, dd, dn>>>>

When(c, s) == IF c THEN <<s>> ELSE <<>>
Free == mounted /\ pending = <<>>

\* An operation about the inodes in on takes the mutex; the reply makes the
\* kernel hold those in gives.
Run(statements, on, gives) ==
    /\ pending' = statements
    /\ call' = [on |-> on, gives |-> gives, len |-> Len(statements), forget |-> FALSE]

-----------------------------------------------------------------------------
Mount ==
    /\ ~mounted /\ mounted' = TRUE
    /\ Run(IF Exists(db, Root) THEN <<>>
           ELSE <<<<"node", Root, "dir">>, <<"counter", 2>>>>, {Root}, {})
    /\ renamed' = <<>> /\ UNCHANGED <<tableVars, cuts, torn>>

\* create, mkdir and mknod; symlink adds its target before the entry.
Create(d, n, k) ==
    LET i == db.next + 1
    IN /\ Free /\ InDir(d) /\ ~Taken(d, n) /\ db.next > 0 /\ i \in Inos
       /\ Run(<<<<"counter", i>>, <<"node", i, k>>>> \o When(k = "symlink", <<"symlink", i>>)
              \o <<NewEntry(d, n, i, k)>> \o When(k = "dir", <<"links", d, 1>>), {d, i}, {i})
       /\ renamed' = <<>> /\ UNCHANGED <<tableVars, mounted, cuts, torn>>

Link(i, d, n) ==
    /\ Free /\ MayLink(i, d) /\ ~Taken(d, n)
    /\ Run(<<NewEntry(d, n, i, db.nodes[i].kind), <<"links", i, 1>>>>, {d, i}, {})
    /\ renamed' = <<>> /\ UNCHANGED <<tableVars, mounted, cuts, torn>>

\* unlink and rmdir.
Unlink(d, n) ==
    LET c == Child(d, n)
    IN /\ Free /\ InDir(d) /\ Taken(d, n) /\ Exists(db, c) /\ ~NotEmpty(c)
       /\ Run(<<<<"unedge", d, n>>, <<"links", c, -1>>>> \o When(IsDir(c), <<"links", d, -1>>),
              {d, c}, {})
       /\ renamed' = <<>> /\ UNCHANGED <<tableVars, mounted, cuts, torn>>

\* Drop the destination, its node too if that was its last entry, then move.
Rename(sd, sn, dd, dn) ==
    LET c == Child(sd, sn)
        over == Child(dd, dn)
        drop == <<<<"unedge", dd, dn>>, <<"links", over, -1>>, <<"reap", over>>>>
                \o When(IsDir(over), <<"links", dd, -1>>)
    IN /\ Free /\ MayRename(sd, sn, dd, dn) /\ Exists(db, c)
       /\ Taken(dd, dn) => Exists(db, over) /\ ~NotEmpty(over)
       /\ Run((IF Taken(dd, dn) THEN drop ELSE <<>>) \o Move(sd, sn, dd, dn) \o Recount(c, sd, dd),
              {sd, dd, c} \cup ({over} \cap Inos), {})
       /\ renamed' = <<sd, sn, dd, dn, c>>
       /\ UNCHANGED <<tableVars, mounted, cuts, torn>>

Forget(i) ==
    /\ Free /\ i \in held \ {Root} /\ held' = held \ {i}
    /\ pending' = IF Linkless(db, i)
                  THEN <<<<"dechunk", i>>, <<"desym", i>>, <<"denode", i>>>> ELSE <<>>
    /\ call' = [NoCall EXCEPT !.on = {i}, !.len = Len(pending'), !.forget = TRUE]
    /\ renamed' = <<>>
    /\ UNCHANGED <<db, merging, replaced, revived, mounted, cuts, torn>>

\* Single statements, and reads, which the mutex keeps out of the operations.
Single ==
    /\ Free /\ renamed' = <<>>
    /\ \/ \E d \in Inos, n \in Names : Lookup(d, n)
       \/ \E i \in Inos : WriteSlice(i) \/ GetChunks(i) \/ ReplaceSlices(i)
    /\ UNCHANGED <<mounted, pending, call, cuts, torn>>

-----------------------------------------------------------------------------
Execute ==
    /\ pending # <<>> /\ pending' = Tail(pending)
    /\ db' = Apply(db, Head(pending))
    /\ held' = IF Len(pending) = 1 THEN held \cup call.gives ELSE held
    /\ UNCHANGED <<merging, replaced, revived, mounted, call, renamed, cuts, torn>>

Tear ==
    /\ cuts < MaxCuts /\ cuts' = cuts + 1
    /\ torn' = IF pending # <<>> /\ Len(pending) < call.len THEN torn \cup call.on ELSE torn

\* A statement returns an error, which forget ignores and the others pass on;
\* when init fails the mount does.
Fail ==
    /\ SqlFails /\ pending # <<>>
    /\ pending' = IF call.forget THEN Tail(pending) ELSE <<>>
    /\ mounted' = (call.on # {Root})
    /\ Tear /\ UNCHANGED <<tableVars, call, renamed>>

Crash ==
    /\ mounted /\ mounted' = FALSE
    /\ pending' = <<>> /\ Tear
    /\ held' = {Root} /\ merging' = {}
    /\ UNCHANGED <<db, replaced, revived, call, renamed>>

SqliteNext ==
    \/ Mount \/ Single \/ Execute \/ Fail \/ Crash
    \/ \E d \in Inos, n \in Names :
         \/ Unlink(d, n)
         \/ \E k \in Kinds : Create(d, n, k)
         \/ \E i \in Inos : Link(i, d, n)
         \/ \E dd \in Inos, dn \in Names : Rename(d, n, dd, dn)
    \/ \E i \in Inos : Forget(i)

SqliteSpec == SqliteInit /\ [][SqliteNext]_sqliteVars

-----------------------------------------------------------------------------
\* Between operations the link counts are the entries, but for inodes an
\* operation cut in the middle was about: a crash corrupts nothing else, then
\* or by any later sequence of calls (sqlite.rs:248-312, 383-510, 641-694).
LinksCounted == pending = <<>> => \A i \in Inos \ torn : Counted(i)

\* No entry dangles, with the same exception.
EntriesResolve ==
    pending = <<>> => \A e \in Inos \X Names :
        {e[1], db.edges[e].child} \cap torn = {} => Resolves(e)

\* However a rename is cut, the file it moves keeps a name (sqlite.rs:480-484).
RenameKeepsSource ==
    renamed # <<>> =>
        \/ db.edges[renamed[1], renamed[2]].child = renamed[5]
        \/ db.edges[renamed[3], renamed[4]].child = renamed[5]

\* No directory that has entries is out of the tree (sqlite.rs:388-398, 444-451).
NoEntryBelowRemoved == \A d \in Inos : (\E n \in Names : Taken(d, n)) => Live(d)

\* The node of an inode the kernel holds stays until forget (sqlite.rs:412-413).
HeldExist == Free => \A i \in held : Exists(db, i)

=============================================================================
