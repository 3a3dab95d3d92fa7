--------------------------- MODULE CachedOperator ---------------------------
(***************************************************************************)
(* The cache in front of the bucket in the flat mode (CachedOperator in    *)
(* oxfs-flat/src/cache.rs): stat, listing and content caches over an       *)
(* object store that others write too.                                     *)
(*                                                                         *)
(* An action is one request to the store and all the caller does until its *)
(* next one; others write in between.  A file's content is a sequence of   *)
(* bytes, and the ETag of an object is its content.                        *)
(***************************************************************************)
EXTENDS Integers, FiniteSets, Sequences

CONSTANTS
    Files, Dirs,   \* keys without and with a trailing slash
    Root,          \* the listing of the empty path
    ParentOf,      \* the listing a key is in; directories are in the root
    Bytes, MaxLen,
    None,
    Writeback,     \* is --writeback given?
    Ttl,           \* is dir_ttl above zero?
    StoreFails,    \* may a request to the store fail?
    AnswersLost,   \* the keys on which it may have been carried out all the same
    OthersWrite    \* the <<key, content>> others may write; None deletes

Keys == Files \cup Dirs
Contents == UNION {[1..n -> Bytes] : n \in 0..MaxLen}
Cached == [data : Contents, etag : Contents]

ASSUME KeysAssumption == /\ Files \cap Dirs = {} /\ Root \notin Keys /\ IsFiniteSet(Keys)
                         /\ ParentOf \in [Keys -> Dirs \cup {Root}]
                         /\ \A d \in Dirs : ParentOf[d] = Root
ASSUME BytesAssumption == 0 \in Bytes /\ MaxLen \in Nat
ASSUME NoneAssumption == None \notin Keys \cup {Root} \cup Contents \cup Cached
ASSUME FlagsAssumption == {Writeback, Ttl, StoreFails} \subseteq BOOLEAN
ASSUME OthersAssumption == AnswersLost \subseteq Keys /\ OthersWrite \subseteq Keys \X (Contents \cup {None})

VARIABLES
    object,                                 \* the bucket; "d/" is an empty object
    content_cache, stat_cache, dir_cache,
    reading                                 \* the read under way

\* History: keys others wrote, or a request that reported an error did.
VARIABLE foreign

caches == <<content_cache, stat_cache, dir_cache>>
opVars == <<object, caches, reading, foreign>>

-----------------------------------------------------------------------------
Stored == Contents \cup {None}
Listings == SUBSET Keys
Steps == {"idle", "validate", "head", "get", "getany", "ok", "notfound", "err"}

\* etag, data: what was cached; then the ETag a GET asks for; then the answer.
\* failed: has a request failed?
Reads == [pc : Steps, key : Files \cup {None}, etag : Stored, data : Stored, failed : BOOLEAN]
NoRead == [pc |-> "idle", key |-> None, etag |-> None, data |-> None, failed |-> FALSE]

OpTypeOK ==
    /\ object \in [Keys -> Stored]
    /\ content_cache \in [Files -> Cached \cup {None}]
    /\ stat_cache \in [Keys -> Stored]
    /\ dir_cache \in [Dirs \cup {Root} -> Listings \cup {None}]
    /\ reading \in Reads
    /\ foreign \subseteq Keys

OpInit ==
    /\ object = [k \in Keys |-> None]
    /\ content_cache = [f \in Files |-> None]
    /\ stat_cache = [k \in Keys |-> None]
    /\ dir_cache = [d \in Dirs \cup {Root} |-> None]
    /\ reading = NoRead /\ foreign = {}

Present(k) == object[k] # None
HasChild(d) == \E f \in Files : ParentOf[f] = d /\ Present(f)

\* What the store lists under d/: objects, and what has objects below it.
Listing(d) == {k \in Keys : ParentOf[k] = d /\ (Present(k) \/ HasChild(k))}

-----------------------------------------------------------------------------
(* read: a cached content is validated by a HEAD with its ETag; else HEAD, *)
(* then GET on condition that the ETag is still the same.                  *)

At(pc) == reading.pc = pc
Step(pc, etag, data) == [reading EXCEPT !.pc = pc, !.etag = etag, !.data = data]
Goto(pc, etag) == reading' = Step(pc, etag, None)
Answer(pc, data) == reading' = Step(pc, None, data)
Failed(pc, data) == StoreFails /\ reading' = [Step(pc, None, data) EXCEPT !.failed = TRUE]
ReadAnswered == reading.pc \in {"ok", "notfound", "err"}

StartRead(f) ==
    LET cached == content_cache[f]
    IN reading' = IF Writeback THEN [NoRead EXCEPT !.pc = "getany", !.key = f]
                  ELSE IF cached = None THEN [NoRead EXCEPT !.pc = "head", !.key = f]
                  ELSE [pc |-> "validate", key |-> f, etag |-> cached.etag,
                        data |-> cached.data, failed |-> FALSE]

\* A HEAD that fails for want of the object or of permission is no answer; any
\* other failure makes the cached content one.
Validate ==
    /\ At("validate")
    /\ \/ IF object[reading.key] = reading.etag THEN Answer("ok", reading.data) ELSE Goto("head", None)
       \/ Failed("ok", reading.data)
       \/ Failed("head", None)
    /\ UNCHANGED <<object, caches, foreign>>

\* Not every store has ETags.
HeadEtag ==
    /\ At("head")
    /\ \/ Present(reading.key) /\ Goto("get", object[reading.key])
       \/ Goto("getany", None)
       \/ Failed("getany", None)
    /\ UNCHANGED <<object, caches, foreign>>

\* Mutant: the GET has no condition.
GetAnyway ==
    LET current == object[reading.key]
    IN /\ At("get")
       /\ \/ /\ current # None /\ Answer("ok", current)
             /\ content_cache' = [content_cache EXCEPT ![reading.key] =
                                    [data |-> current, etag |-> reading.etag]]
          \/ current = None /\ Answer("notfound", None) /\ UNCHANGED content_cache
          \/ Failed("err", None) /\ UNCHANGED content_cache
       /\ UNCHANGED <<object, stat_cache, dir_cache, foreign>>

GetIfMatch ==
    LET current == object[reading.key]
    IN /\ At("get")
       /\ \/ /\ current = reading.etag /\ Answer("ok", current)
             /\ content_cache' = [content_cache EXCEPT ![reading.key] =
                                    [data |-> current, etag |-> reading.etag]]
          \/ /\ current \notin {reading.etag, None} /\ Goto("getany", None)
             /\ UNCHANGED content_cache
          \/ current = None /\ Answer("notfound", None) /\ UNCHANGED content_cache
          \/ Failed("err", None) /\ UNCHANGED content_cache
       /\ UNCHANGED <<object, stat_cache, dir_cache, foreign>>

GetAny ==
    /\ At("getany")
    /\ \/ Answer(IF Present(reading.key) THEN "ok" ELSE "notfound", object[reading.key])
       \/ Failed("err", None)
    /\ UNCHANGED <<object, caches, foreign>>

-----------------------------------------------------------------------------
(* stat and list: from the cache, else from the store.                     *)

Kept(cache, k, answer) == IF Ttl THEN [cache EXCEPT ![k] = answer] ELSE cache

stat(k, answer) ==
    /\ IF stat_cache[k] # None
       THEN answer = "ok" /\ UNCHANGED stat_cache
       ELSE \/ /\ Present(k) /\ answer = "ok"
               /\ stat_cache' = Kept(stat_cache, k, object[k])
            \/ ~Present(k) /\ answer = "notfound" /\ UNCHANGED stat_cache
            \/ answer = "err" /\ StoreFails /\ UNCHANGED stat_cache
    /\ UNCHANGED <<object, content_cache, dir_cache, foreign>>

list(d) ==
    /\ IF dir_cache[d] # None
       THEN UNCHANGED dir_cache
       ELSE \/ dir_cache' = Kept(dir_cache, d, Listing(d))
            \/ StoreFails /\ UNCHANGED dir_cache
    /\ UNCHANGED <<object, content_cache, stat_cache, foreign>>

-----------------------------------------------------------------------------
(* Mutations: one request each, then the caches of the path and the        *)
(* listing it is in; a request that fails leaves the caches, and may have  *)
(* changed the object.                                                     *)

\* Mutant: the listing stays.
InvalidateEntry(k) ==
    /\ stat_cache' = [stat_cache EXCEPT ![k] = None]
    /\ content_cache' = [f \in Files |-> IF f = k THEN None ELSE content_cache[f]]
    /\ UNCHANGED dir_cache

invalidate_path(k) ==
    /\ stat_cache' = [stat_cache EXCEPT ![k] = None]
    /\ content_cache' = [f \in Files |-> IF f = k THEN None ELSE content_cache[f]]
    /\ dir_cache' = [dir_cache EXCEPT ![ParentOf[k]] = None]

Mutate(k, c, ok) ==
    \/ /\ ok /\ object' = [object EXCEPT ![k] = c]
       /\ invalidate_path(k) /\ UNCHANGED foreign
    \/ ~ok /\ StoreFails /\ UNCHANGED <<object, caches, foreign>>
    \/ /\ ~ok /\ k \in AnswersLost /\ object' = [object EXCEPT ![k] = c]
       /\ foreign' = foreign \cup {k} /\ UNCHANGED caches

write(k, c, ok) == Mutate(k, c, ok)
create_dir(d, ok) == Mutate(d, <<>>, ok)

\* To delete an object that is not there is no error.
delete(k, ok) == Mutate(k, None, ok)

copy(from, to, ok) ==
    \/ Present(from) /\ Mutate(to, object[from], ok)
    \/ ~Present(from) /\ ~ok /\ UNCHANGED <<object, caches, foreign>>

-----------------------------------------------------------------------------
\* Entries expire (stat_cache, dir_cache) or are evicted.
Expire(k) ==
    /\ \/ /\ k \in Keys /\ stat_cache[k] # None
          /\ stat_cache' = [stat_cache EXCEPT ![k] = None] /\ UNCHANGED <<content_cache, dir_cache>>
       \/ /\ k \in Files /\ content_cache[k] # None
          /\ content_cache' = [content_cache EXCEPT ![k] = None] /\ UNCHANGED <<stat_cache, dir_cache>>
       \/ /\ k \in Dirs \cup {Root} /\ dir_cache[k] # None
          /\ dir_cache' = [dir_cache EXCEPT ![k] = None] /\ UNCHANGED <<stat_cache, content_cache>>
    /\ UNCHANGED <<object, reading, foreign>>

\* External: somebody else writes or deletes an object of the bucket.
OtherWriter(k) ==
    /\ \E w \in OthersWrite : /\ w[1] = k /\ w[2] # object[k]
                              /\ object' = [object EXCEPT ![k] = w[2]]
    /\ foreign' = foreign \cup {k}
    /\ UNCHANGED <<caches, reading>>

\* What happens on its own.
OpStep ==
    \/ Validate \/ HeadEtag \/ GetIfMatch \/ GetAny
    \/ \E k \in Keys \cup {Root} : Expire(k)
    \/ \E k \in Keys : OtherWriter(k)

=============================================================================
