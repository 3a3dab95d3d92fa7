------------------------- MODULE FlatContentProofs -------------------------
(***************************************************************************)
(* The flat mode: what the calls wrote is in one place.  A file's last     *)
(* content is in the bucket or in its one dirty buffer, and a read answers *)
(* with it.                                                                *)
(***************************************************************************)
EXTENDS FlatVfsProofs

-----------------------------------------------------------------------------
(* The inductive invariant, on top of the caches'.                         *)

\* A handle, a name or a rename under way on the file that has the name now.
Held(f) == \/ On(f) \ orphans # {}
           \/ names[f] = f
           \/ call.pc = "rename" /\ call.to = f

\* The content of a file that tells us anything is in one place; the file is
\* there for as long as the calls say so, and for those who hold it.
Story(f) ==
    /\ DirtyOn(f) = {} => object[f] = file[f]
    /\ \A h \in DirtyOn(f) : open_files[h].buffer = file[f]
    /\ \A h, k \in DirtyOn(f) : h = k
    /\ Present(f) <=> file[f] # None
    /\ Held(f) => file[f] # None

Stories == \A f \in Files \ Spoiled : Story(f)
StoryInv == CacheInv /\ Stories

-----------------------------------------------------------------------------
(* Stories, handler by handler.                                            *)

LEMMA StoryShown ==
  ASSUME NEW f \in Files, Story(f)
  PROVE  Shown(f) = file[f]
  BY DEF Story, Shown

\* What a step makes of the file it is about, and of the others.
LEMMA RecordFacts ==
  ASSUME FlatInv, OpMoves, NEW f \in Files, NEW c, NEW spoil, Record(f, c, spoil)
  PROVE  /\ Spoiled \subseteq Spoiled'
         /\ f \notin Spoiled' => file'[f] = c /\ ~spoil
         /\ \A g \in Files \ {f} : file'[g] = file[g]
  <1>1. foreign \subseteq foreign'
    BY ForeignGrows
  <1> QED
    BY <1>1 DEF Record, Spoiled, FlatInv, HandlesOK

LEMMA ForgetFacts ==
  ASSUME FlatInv, OpMoves, Forget, UNCHANGED spoiled
  PROVE  Spoiled \subseteq Spoiled' /\ \A f \in Files \ Spoiled' : file'[f] = file[f]
  <1>1. foreign \subseteq foreign'
    BY ForeignGrows
  <1> QED
    BY <1>1 DEF Forget, Spoiled

\* A file nothing changes about.
LEMMA StoryStays ==
  ASSUME Stories, NEW f \in Files \ Spoiled, object'[f] = object[f], file'[f] = file[f],
         DirtyOn(f)' = DirtyOn(f),
         \A h \in DirtyOn(f) : open_files'[h].buffer = open_files[h].buffer,
         Held(f)' => Held(f) \/ file[f] # None
  PROVE  Story(f)'
  <1>1. Story(f)
    BY DEF Stories
  <1>2. /\ DirtyOn(f)' = {} => object'[f] = file'[f]
        /\ \A h \in DirtyOn(f)' : open_files'[h].buffer = file'[f]
        /\ \A h, k \in DirtyOn(f)' : h = k
    BY <1>1 DEF Story
  <1>3. /\ Present(f)' <=> file'[f] # None
        /\ Held(f)' => file'[f] # None
    BY <1>1 DEF Story, Present
  <1> QED
    BY <1>2, <1>3 DEF Story

\* A step that leaves the handles alone, and files of which it tells something.
LEMMA QuietStory ==
  ASSUME Stories, NEW f \in Files \ Spoiled, object'[f] = object[f], file'[f] = file[f],
         UNCHANGED <<open_files, orphans>>,
         names'[f] = f => names[f] = f \/ file[f] # None,
         call'.pc = "rename" => call' = call \/ call'.to # f
  PROVE  Story(f)'
  <1>1. On(f)' = On(f) /\ DirtyOn(f)' = DirtyOn(f)
    BY DEF On, DirtyOn, IsOpen
  <1>2. Held(f)' => Held(f) \/ file[f] # None
    BY <1>1 DEF Held
  <1> QED
    BY <1>1, <1>2, StoryStays

\* A request leaves the objects it is not about, and those it fails on, but for
\* what it then may have done.
LEMMA MutateFacts ==
  ASSUME CacheOK, NEW k \in Keys, NEW c \in Stored, NEW ok \in BOOLEAN, Mutate(k, c, ok)
  PROVE  /\ \A f \in Files \ {k} : object'[f] = object[f]
         /\ ok => object'[k] = c
         /\ ~ok => k \in foreign' \/ object'[k] = object[k]
  BY DEF CacheOK, Mutate, Keys

\* A request that fails: nothing but what it may have done.
LEMMA FailedStory ==
  ASSUME FlatInv, Stories, OpMoves, NEW k \in Keys, NEW c \in Stored, Mutate(k, c, FALSE),
         Forget, UNCHANGED <<open_files, names, orphans, spoiled>>,
         call'.pc # "rename"
  PROVE  Stories'
  <1> SUFFICES ASSUME NEW f \in Files, f \notin Spoiled'
               PROVE  Story(f)'
    BY DEF Stories
  <1>1. f \notin Spoiled /\ file'[f] = file[f] /\ f \notin foreign'
    BY ForgetFacts DEF Spoiled
  <1>2. object'[f] = object[f]
    BY <1>1, MutateFacts DEF FlatInv
  <1> QED
    BY <1>1, <1>2, QuietStory

LEMMA LookupStory ==
  ASSUME CacheInv, Stories, OpMoves, NEW k \in Keys, Lookup(k)
  PROVE  Stories'
  <1> SUFFICES ASSUME NEW f \in Files, f \notin Spoiled'
               PROVE  Story(f)'
    BY DEF Stories
  <1>1. f \notin Spoiled /\ file'[f] = file[f] /\ f \notin foreign
    BY ForgetFacts, ForeignGrows DEF Lookup, Unrecorded, CacheInv, Spoiled
  <1>2. PICK answer \in {"ok", "notfound", "err"} :
          /\ stat(k, answer)
          /\ names' = IF answer = "ok" /\ k \in Files THEN [names EXCEPT ![k] = k] ELSE names
    BY DEF Lookup
  <1>3. UNCHANGED object
    BY <1>2 DEF stat
  <1>4. ASSUME answer = "ok", k = f PROVE file[f] # None
    <2>1. object[f] # None
      BY <1>1, <1>2, <1>4, FreshParts DEF stat, Present, CacheInv, StatFresh, Keys
    <2> QED
      BY <1>1, <2>1 DEF Stories, Story, Present
  <1>5. names'[f] = f => names[f] = f \/ file[f] # None
    BY <1>2, <1>4 DEF CacheInv, FlatInv, HandlesOK
  <1>6. call'.pc # "rename"
    BY DEF Lookup, Await, Idle, NoCall
  <1> QED
    BY <1>1, <1>3, <1>5, <1>6, QuietStory DEF Lookup, Unrecorded

\* Handlers that answer, and those that touch directories.
LEMMA AnswerStory ==
  ASSUME FlatInv, Stories, OpMoves, Unrecorded, UNCHANGED <<open_files, names>>,
         call'.pc # "rename" \/ UNCHANGED call,
         \A f \in Files \ foreign' : object'[f] = object[f]
  PROVE  Stories'
  <1> SUFFICES ASSUME NEW f \in Files, f \notin Spoiled'
               PROVE  Story(f)'
    BY DEF Stories
  <1>1. f \notin Spoiled /\ file'[f] = file[f] /\ f \notin foreign'
    BY ForgetFacts DEF Unrecorded, Spoiled
  <1> QED
    BY <1>1, QuietStory DEF Unrecorded

LEMMA SmallStory ==
  ASSUME FlatInv, Stories, OpMoves,
         \/ \E f \in Files : Getattr(f)
         \/ \E d \in Dirs \cup {Root} : Readdir(d) \/ (d \in Dirs /\ (Mkdir(d) \/ Rmdir(d)))
         \/ Restat \/ LookupList
         \/ OpStep /\ UNCHANGED <<open_files, call, names>> /\ Unrecorded
  PROVE  Stories'
  <1>1. ASSUME NEW f \in Files, Getattr(f) PROVE Stories'
    BY <1>1, AnswerStory DEF Getattr, stat
  <1>2. ASSUME NEW d \in Dirs \cup {Root}, Readdir(d) PROVE Stories'
    BY <1>2, AnswerStory DEF Readdir, list
  <1>3. ASSUME NEW d \in Dirs, Mkdir(d) \/ Rmdir(d) PROVE Stories'
    <2>1. d \in Keys /\ d \notin Files /\ None \in Stored /\ <<>> \in Stored
      BY KeysAssumption, EmptyContent DEF Keys, Stored
    <2>2. \A f \in Files : object'[f] = object[f]
      BY <1>3, <2>1, MutateFacts DEF Mkdir, Rmdir, create_dir, delete, FlatInv
    <2> QED
      BY <1>3, <2>2, AnswerStory DEF Mkdir, Rmdir
  <1>4. CASE Restat \/ LookupList
    <2>1. call'.pc # "rename"
      BY <1>4 DEF Restat, LookupList, Resumed, NoCall
    <2> QED
      BY <1>4, <2>1, AnswerStory DEF Restat, LookupList, stat, list
  <1>5. CASE OpStep /\ UNCHANGED <<open_files, call, names>> /\ Unrecorded
    <2>1. ASSUME NEW f \in Files \ foreign' PROVE object'[f] = object[f]
      <3>1. CASE UNCHANGED object
        BY <3>1
      <3>2. ASSUME NEW k \in Keys, OtherWriter(k) PROVE object'[f] = object[f]
        <4>1. f \in Keys /\ f # k
          BY <3>2 DEF OtherWriter, Keys
        <4> QED
          BY <3>2, <4>1 DEF OtherWriter, FlatInv, CacheOK
      <3> QED
        BY <1>5, <3>1, <3>2 DEF OpStep, Validate, HeadEtag, GetIfMatch, GetAny, Expire
    <2> QED
      BY <1>5, <2>1, AnswerStory
  <1> QED
    BY <1>1, <1>2, <1>3, <1>4, <1>5

\* Handlers that start or end a read, and what the kernel drops.
LEMMA StillStory ==
  ASSUME FlatInv, Stories, UNCHANGED <<object, foreign, open_files, history>>,
         call'.pc # "rename" \/ UNCHANGED call,
         \A f \in Files : names'[f] \in {names[f], None}
  PROVE  Stories'
  <1> SUFFICES ASSUME NEW f \in Files, f \notin Spoiled'
               PROVE  Story(f)'
    BY DEF Stories
  <1>1. f \notin Spoiled /\ file'[f] = file[f] /\ UNCHANGED orphans
    BY DEF history, Spoiled
  <1>2. f # None
    BY NoneIsNoContent DEF Keys
  <1> QED
    BY <1>1, <1>2, QuietStory

LEMMA ReadStory ==
  ASSUME FlatInv, Stories,
         \/ \E h \in Handles : Read(h)
         \/ \E h \in Handles, o \in 0..MaxLen - 1 : Write(h, o) /\ NeedsRead(h)
         \/ \E f \in Files, n \in 1..MaxLen : Truncate(f, n)
         \/ \E f \in Files : KernelDrops(f)
         \/ ReadAnswer \/ (Resized /\ ~GotRead)
         \/ UNCHANGED flatVars
  PROVE  Stories'
  <1>1. call'.pc # "rename" \/ UNCHANGED call
    BY DEF Read, Write, NeedsRead, Truncate, KernelDrops, ReadAnswer, Resized, Resumed, Await, NoCall, flatVars
  <1>2. UNCHANGED <<object, foreign, open_files, history>>
    BY DEF Read, Write, NeedsRead, Truncate, KernelDrops, ReadAnswer, Resized, SameCache, flatVars, opVars
  <1>3. \A f \in Files : names'[f] \in {names[f], None}
    BY DEF Read, Write, NeedsRead, Truncate, KernelDrops, ReadAnswer, Resized, flatVars, FlatInv, HandlesOK
  <1> QED
    BY <1>1, <1>2, <1>3, StillStory

-----------------------------------------------------------------------------
LEMMA CreateStory ==
  ASSUME CacheInv, Stories, OpMoves, NEW f \in Files, NEW h \in Handles, Create(f, h)
  PROVE  Stories'
  <1>1. PICK ok \in BOOLEAN :
          /\ write(f, <<>>, ok)
          /\ IF ok
             THEN Opened(h, f) /\ names' = [names EXCEPT ![f] = f] /\ Record(f, <<>>, FALSE)
             ELSE UNCHANGED <<open_files, names, spoiled>> /\ Forget
    BY DEF Create
  <1>2. f \in Keys /\ <<>> \in Stored /\ <<>> # None /\ FlatInv /\ CacheOK /\ HandlesOK
    BY EmptyContent, NoneIsNoContent DEF Keys, Stored, CacheInv, FlatInv
  <1>3. UNCHANGED <<call, orphans>> /\ call.pc = "idle"
    BY IdleAt DEF Create
  <1>4. CASE ~ok
    <2>1. Mutate(f, <<>>, FALSE)
      BY <1>1, <1>4 DEF write
    <2> QED
      BY <1>1, <1>2, <1>3, <1>4, <2>1, FailedStory
  <1>5. CASE ok
    <2> SUFFICES ASSUME NEW g \in Files, g \notin Spoiled'
                 PROVE  Story(g)'
      BY DEF Stories
    <2>1. /\ g \notin Spoiled
          /\ IF g = f THEN file'[g] = <<>> ELSE file'[g] = file[g]
      BY <1>1, <1>2, <1>5, RecordFacts
    <2>2. IF g = f THEN object'[g] = <<>> ELSE object'[g] = object[g]
      BY <1>1, <1>2, <1>5, MutateFacts DEF write
    <2>3. /\ ~IsOpen(h) /\ \A k \in Handles \ {h} : open_files'[k] = open_files[k]
          /\ open_files'[h].path = f /\ open_files'[h].dirty = FALSE
      BY <1>1, <1>2, <1>5 DEF Create, Opened, HandlesOK
    <2>4. DirtyOn(g)' = DirtyOn(g) /\ \A k \in DirtyOn(g) : open_files'[k] = open_files[k]
      BY <2>3 DEF DirtyOn, On, IsOpen
    <2>5. CASE g # f
      <3>1. On(g)' = On(g)
        BY <2>3, <2>5 DEF On, IsOpen
      <3>2. names'[g] = names[g]
        BY <1>1, <1>2, <1>5, <2>5 DEF HandlesOK
      <3>3. Held(g)' => Held(g)
        BY <1>3, <3>1, <3>2 DEF Held
      <3> QED
        BY <2>1, <2>2, <2>4, <2>5, <3>3, StoryStays
    <2>6. CASE g = f
      <3>1. DirtyOn(f) = {}
        <4>1. Story(f) /\ object[f] = None
          BY <2>1, <2>6 DEF Stories, Create, Present
        <4>2. \A k \in DirtyOn(f) : open_files[k].buffer \in Contents
          BY <1>2, OpenType DEF DirtyOn, On
        <4> QED
          BY <4>1, <4>2, NoneIsNoContent DEF Story, Present
      <3> QED
        BY <1>2, <2>1, <2>2, <2>4, <2>6, <3>1 DEF Story, Present
    <2> QED
      BY <2>5, <2>6
  <1> QED
    BY <1>4, <1>5

LEMMA OpenStory ==
  ASSUME FlatInv, Stories, NEW f \in Files, NEW h \in Handles, Open(f, h)
  PROVE  Stories'
  <1> SUFFICES ASSUME NEW g \in Files, g \notin Spoiled'
               PROVE  Story(g)'
    BY DEF Stories
  <1>1. /\ g \notin Spoiled /\ file'[g] = file[g] /\ object'[g] = object[g]
        /\ UNCHANGED <<names, call>> /\ call.pc = "idle"
    BY IdleAt DEF Open, Spoiled, opVars
  <1>2. /\ ~IsOpen(h) /\ \A k \in Handles \ {h} : open_files'[k] = open_files[k]
        /\ open_files'[h].path = names[f] /\ open_files'[h].dirty = FALSE
    BY DEF Open, Opened, FlatInv, HandlesOK
  <1>3. DirtyOn(g)' = DirtyOn(g) /\ \A k \in DirtyOn(g) : open_files'[k] = open_files[k]
    BY <1>2 DEF DirtyOn, On, IsOpen
  <1>4. Held(g)' => Held(g) \/ file[g] # None
    <2>1. On(g)' \subseteq On(g) \cup {h} /\ (names[f] # g => h \notin On(g)') /\ orphans \subseteq orphans'
      BY <1>2 DEF On, IsOpen, Open
    <2>2. names[f] # f => h \in orphans'
      BY DEF Open
    <2>3. On(g)' \ orphans' \subseteq On(g) \ orphans \/ names[g] = g
      BY <2>1, <2>2
    <2> QED
      BY <1>1, <2>3 DEF Held
  <1> QED
    BY <1>1, <1>3, <1>4, StoryStays

-----------------------------------------------------------------------------
\* A byte written to a buffer that had the file's content, and nobody else's is
\* dirty: or else it is spoiled.
LEMMA ApplyStory ==
  ASSUME FlatInv, Stories, OpMoves, NEW h \in Handles, IsOpen(h), NEW o \in 0..MaxLen - 1,
         NEW base \in Contents, NEW lost, Apply(h, o, base, lost),
         call'.pc # "rename",
         open_files[h].path \notin Spoiled /\ ~lost /\ DirtyOn(open_files[h].path) \subseteq {h}
           /\ file[open_files[h].path] # None => base = file[open_files[h].path]
  PROVE  Stories'
  <1>0. PICK f \in Files : f = open_files[h].path
    BY OpenType DEF FlatInv
  <1>1. PICK byte \in Bytes :
           /\ open_files' = [open_files EXCEPT ![h] = Fields(h, Poke(base, o, byte), TRUE, FALSE)]
           /\ Poke(base, o, byte) \in Contents
           /\ Record(f, Told(h, o, byte, lost), Spoils(h, lost))
           /\ Told(h, o, byte, lost) \in Stored
           /\ UNCHANGED <<names, orphans>> /\ SameCache
    BY <1>0, ApplyFacts DEF FlatInv
  <1>2. f \in Files /\ HandlesOK
    BY DEF FlatInv
  <1>3. /\ open_files'[h].path = f /\ open_files'[h].buffer = Poke(base, o, byte)
        /\ open_files'[h].dirty = TRUE /\ open_files'[h] \in OpenFile
        /\ \A k \in Handles \ {h} : open_files'[k] = open_files[k]
    <2>1. TRUE \in BOOLEAN /\ FALSE \in BOOLEAN
      OBVIOUS
    <2> QED
      BY <1>0, <1>1, <1>2, <2>1, FieldsType
  <1>4. open_files'[h] # None
    BY <1>3, HandlesAssumption
  <1>5. UNCHANGED object
    BY <1>1 DEF SameCache
  <1> SUFFICES ASSUME NEW g \in Files, g \notin Spoiled'
               PROVE  Story(g)'
    BY DEF Stories
  <1>6. CASE g # f
    <2>1. g \notin Spoiled /\ file'[g] = file[g]
      BY <1>1, <1>2, <1>6, RecordFacts
    <2>2. On(g)' = On(g) /\ DirtyOn(g)' = DirtyOn(g) /\ h \notin DirtyOn(g)
      BY <1>0, <1>3, <1>6 DEF On, DirtyOn, IsOpen
    <2>3. Held(g)' => Held(g)
      BY <1>1, <2>2 DEF Held
    <2>4. \A k \in DirtyOn(g) : open_files'[k].buffer = open_files[k].buffer
      BY <1>3, <2>2 DEF DirtyOn, On
    <2> QED
      BY <1>5, <2>1, <2>2, <2>3, <2>4, StoryStays
  <1>7. CASE g = f
    <2>1. f \notin Spoiled /\ file'[f] = Told(h, o, byte, lost) /\ ~Spoils(h, lost)
      BY <1>1, <1>2, <1>7, RecordFacts
    <2>2. ~lost /\ DirtyOn(f) \subseteq {h} /\ file[f] # None
      BY <1>0, <2>1 DEF Spoils
    <2>3. file'[f] = Poke(base, o, byte)
      BY <1>0, <2>1, <2>2 DEF Told
    <2>4. DirtyOn(f)' = {h}
      BY <1>3, <1>4, <2>2 DEF DirtyOn, On, IsOpen
    <2>5. file'[f] # None /\ object'[f] # None
      <3>1. file'[f] # None
        BY <1>1, <2>3, NoneIsNoContent
      <3>2. object[f] # None
        BY <1>2, <2>1, <2>2 DEF Stories, Story, Present
      <3> QED
        BY <1>5, <3>1, <3>2
    <2>6. open_files'[h].buffer = file'[f]
      BY <1>3, <2>3
    <2>7. Story(f)'
      BY <2>4, <2>5, <2>6 DEF Story, Present
    <2> QED
      BY <1>7, <2>7
  <1> QED
    BY <1>6, <1>7

LEMMA WriteStory ==
  ASSUME FlatInv, Stories, OpMoves, NEW h \in Handles, NEW o \in 0..MaxLen - 1, Write(h, o)
  PROVE  Stories'
  <1>1. CASE NeedsRead(h)
    BY <1>1, ReadStory
  <1>2. CASE ~NeedsRead(h)
    <2> DEFINE f == open_files[h].path
               lost == ~open_files[h].dirty /\ open_files[h].buffer # file[f]
    <2>1. /\ IsOpen(h) /\ f \in Files /\ open_files[h].buffer \in Contents
          /\ Apply(h, o, open_files[h].buffer, lost) /\ UNCHANGED call /\ call.pc = "idle"
      BY <1>2, OpenType, IdleAt DEF Write, InUse, FlatInv
    <2>2. ASSUME f \notin Spoiled, ~lost PROVE open_files[h].buffer = file[f]
      <3>1. CASE open_files[h].dirty
        <4>1. Story(f) /\ h \in DirtyOn(f)
          BY <2>1, <2>2, <3>1 DEF Stories, DirtyOn, On
        <4> QED
          BY <4>1 DEF Story
      <3>2. CASE ~open_files[h].dirty
        BY <2>2, <3>2
      <3> QED
        BY <3>1, <3>2
    <2> HIDE DEF lost
    <2> QED
      BY <2>1, <2>2, ApplyStory
  <1> QED
    BY <1>1, <1>2

LEMMA FilledStory ==
  ASSUME CacheInv, Stories, OpMoves, Filled
  PROVE  Stories'
  <1>1. /\ call.fh \in Handles /\ IsOpen(call.fh) /\ call.at \in 0..MaxLen - 1
        /\ open_files[call.fh].path = call.key /\ reading.key = call.key /\ call.key \in Files
        /\ ~open_files[call.fh].dirty
        /\ call' = NoCall /\ FlatInv
    BY DEF Filled, Resumed, ReadDone, ReadAnswered, CacheInv, FlatInv, CallInv, ReadingInv, InUse
  <1> DEFINE base == IF GotRead THEN reading.data ELSE <<>>
             f == call.key
  <1>2. base \in Contents
    BY EmptyContent DEF GotRead, CacheInv, FlatInv, ReadOK
  <1>3. Apply(call.fh, call.at, base, ~GotRead)
    BY DEF Filled
  <1>4. ASSUME f \notin Spoiled, GotRead, DirtyOn(f) \subseteq {call.fh} PROVE base = file[f]
    <2>1. base = object[f]
      BY <1>1, <1>4 DEF GotRead, CacheInv, ReadingFresh, Spoiled
    <2>2. DirtyOn(f) = {}
      BY <1>1, <1>4 DEF DirtyOn
    <2>3. Story(f)
      BY <1>1, <1>4 DEF Stories
    <2> QED
      BY <2>1, <2>2, <2>3 DEF Story
  <1>5. call'.pc # "rename"
    BY <1>1 DEF NoCall
  <1> HIDE DEF base
  <1> QED
    BY <1>1, <1>2, <1>3, <1>4, <1>5, ApplyStory

-----------------------------------------------------------------------------
LEMMA StoreResizedStory ==
  ASSUME FlatInv, Stories, OpMoves, NEW f \in Files, NEW n \in 0..MaxLen, NEW data \in Contents,
         StoreResized(f, n, data),
         f \notin Spoiled /\ ~Stale(f) => file[f] # None,
         f \notin Spoiled /\ file[f] # None /\ DirtyOn(f) = {} => data = Resize(file[f], n)
  PROVE  Stories'
  <1>1. PICK ok \in BOOLEAN :
          /\ write(f, data, ok)
          /\ IF ok
             THEN /\ open_files' = [h \in Handles |->
                       IF h \in DirtyOn(f) THEN [open_files[h] EXCEPT !.buffer = Resize(@, n)]
                       ELSE open_files[h]]
                  /\ Record(f, IF file[f] = None THEN None ELSE Resize(file[f], n), Stale(f))
                  /\ Await("restat", None, f, None, 0)
             ELSE Forget /\ call' = NoCall /\ UNCHANGED <<open_files, spoiled>>
    BY DEF StoreResized
  <1>2. f \in Keys /\ data \in Stored /\ data # None /\ CacheOK /\ HandlesOK /\ UNCHANGED <<names, orphans>>
    BY NoneIsNoContent DEF Keys, Stored, FlatInv, StoreResized
  <1>3. call'.pc # "rename"
    BY <1>1 DEF Await, NoCall
  <1>4. CASE ~ok
    <2>1. Mutate(f, data, FALSE)
      BY <1>1, <1>4 DEF write
    <2> QED
      BY <1>1, <1>2, <1>3, <1>4, <2>1, FailedStory
  <1>5. CASE ok
    <2>1. ASSUME NEW h \in Handles, h \notin DirtyOn(f) PROVE open_files'[h] = open_files[h]
      BY <1>1, <1>5, <2>1
    <2>2. ASSUME NEW h \in DirtyOn(f)
          PROVE  /\ open_files'[h] # None /\ open_files'[h].path = f /\ open_files'[h].dirty
                 /\ open_files'[h].buffer = Resize(open_files[h].buffer, n)
      <3>1. h \in Handles /\ open_files[h] \in OpenFile /\ open_files[h].path = f /\ open_files[h].dirty
        BY <1>2, OpenType DEF DirtyOn, On
      <3>2. open_files'[h] = [open_files[h] EXCEPT !.buffer = Resize(@, n)]
        BY <1>1, <1>5, <2>2, <3>1
      <3>3. Resize(open_files[h].buffer, n) \in Contents
        BY <3>1, ResizeContent DEF OpenFile
      <3>4. /\ open_files'[h] \in OpenFile /\ open_files'[h].path = f /\ open_files'[h].dirty
            /\ open_files'[h].buffer = Resize(open_files[h].buffer, n)
        BY <3>1, <3>2, <3>3 DEF OpenFile
      <3> QED
        BY <3>4, HandlesAssumption
    <2>3. ASSUME NEW g \in Files PROVE On(g)' = On(g) /\ DirtyOn(g)' = DirtyOn(g)
      BY <2>1, <2>2 DEF On, DirtyOn, IsOpen
    <2> SUFFICES ASSUME NEW g \in Files, g \notin Spoiled'
                 PROVE  Story(g)'
      BY DEF Stories
    <2>4. CASE g # f
      <3>1. g \notin Spoiled /\ file'[g] = file[g] /\ object'[g] = object[g]
        BY <1>1, <1>2, <1>5, <2>4, RecordFacts, MutateFacts DEF write
      <3>2. Held(g)' => Held(g)
        BY <1>2, <1>3, <2>3 DEF Held
      <3>3. \A h \in DirtyOn(g) : open_files'[h].buffer = open_files[h].buffer
        BY <2>1, <2>4 DEF DirtyOn, On
      <3> QED
        BY <2>3, <3>1, <3>2, <3>3, StoryStays
    <2>5. CASE g = f
      <3>1. /\ f \notin Spoiled /\ ~Stale(f)
            /\ file'[f] = IF file[f] = None THEN None ELSE Resize(file[f], n)
        BY <1>1, <1>2, <1>5, <2>5, RecordFacts
      <3>2. file[f] # None /\ file[f] \in Contents /\ file'[f] = Resize(file[f], n)
        BY <1>2, <3>1 DEF HandlesOK, Stored
      <3>3. file'[f] # None
        BY <3>2, ResizeContent, NoneIsNoContent
      <3>4. object'[f] = data
        BY <1>1, <1>2, <1>5, MutateFacts DEF write
      <3>5. Story(f)
        BY <3>1 DEF Stories
      <3>6. \A h \in DirtyOn(f)' : open_files'[h].buffer = file'[f]
        BY <2>2, <2>3, <3>2, <3>5 DEF Story
      <3>7. DirtyOn(f)' = {} => object'[f] = file'[f]
        BY <2>3, <3>1, <3>2, <3>4
      <3>8. \A h, k \in DirtyOn(f)' : h = k
        BY <2>3, <3>5 DEF Story
      <3>9. (Present(f)' <=> file'[f] # None) /\ (Held(f)' => file'[f] # None)
        BY <1>2, <3>3, <3>4 DEF Present
      <3>10. Story(f)'
        BY <3>6, <3>7, <3>8, <3>9 DEF Story
      <3> QED
        BY <2>5, <3>10
    <2> QED
      BY <2>4, <2>5
  <1> QED
    BY <1>4, <1>5

LEMMA TruncateStory ==
  ASSUME FlatInv, Stories, OpMoves, NEW f \in Files, NEW n \in 0..MaxLen, Truncate(f, n)
  PROVE  Stories'
  <1>1. CASE n = 0 /\ StoreResized(f, 0, <<>>)
    <2>1. f \notin Spoiled /\ ~Stale(f) => file[f] # None
      <3> SUFFICES ASSUME f \notin Spoiled, ~Stale(f)
                   PROVE  file[f] # None
        OBVIOUS
      <3>1. Story(f) /\ Held(f)
        BY DEF Stories, Truncate, Known, Stale, Held
      <3> QED
        BY <3>1 DEF Story
    <2>2. file[f] # None => <<>> = Resize(file[f], 0)
      BY ResizeToNothing DEF FlatInv, HandlesOK, Stored
    <2> QED
      BY <1>1, <2>1, <2>2, EmptyContent, StoreResizedStory
  <1>2. CASE n > 0
    <2>1. n \in 1..MaxLen
      BY <1>2
    <2> QED
      BY <2>1, ReadStory
  <1> QED
    BY <1>1, <1>2 DEF Truncate

LEMMA ResizedStory ==
  ASSUME CacheInv, Stories, OpMoves, Resized
  PROVE  Stories'
  <1>1. FlatInv
    BY DEF CacheInv
  <1>2. CASE ~GotRead
    BY <1>1, <1>2, ReadStory
  <1>3. CASE GotRead
    <2> DEFINE f == call.key
    <2>1. /\ f \in Files /\ call.at \in 0..MaxLen /\ reading.key = f /\ reading.data \in Contents
      BY <1>1, <1>3 DEF GotRead, Resized, ReadDone, ReadAnswered, FlatInv, ReadOK, ReadingInv, HandlesOK, Handlers
    <2>2. StoreResized(f, call.at, Resize(reading.data, call.at)) /\ Resize(reading.data, call.at) \in Contents
      BY <1>3, <2>1, ResizeContent DEF Resized
    <2>3. f \notin Spoiled => reading.data = object[f] /\ Story(f)
      BY <1>3, <2>1 DEF CacheInv, ReadingFresh, Spoiled, GotRead, Stories
    <2>4. f \notin Spoiled => file[f] # None
      BY <2>1, <2>3, NoneIsNoContent DEF Story, Present
    <2>5. f \notin Spoiled /\ DirtyOn(f) = {} => reading.data = file[f]
      BY <2>3 DEF Story
    <2> QED
      BY <1>1, <2>1, <2>2, <2>4, <2>5, StoreResizedStory
  <1> QED
    BY <1>2, <1>3

-----------------------------------------------------------------------------
\* A flush that leaves the handle in its place, clean if it succeeded.
LEMMA FlushedStory ==
  ASSUME FlatInv, Stories, OpMoves, NEW h \in Handles, IsOpen(h), NEW ok \in BOOLEAN, flush(h, ok),
         NEW closed \in BOOLEAN,
         open_files' = [open_files EXCEPT ![h] = Fields(h, open_files[h].buffer, ~ok, closed)],
         UNCHANGED <<call, names>>, Unrecorded
  PROVE  Stories'
  <1>0. PICK f \in Files : f = open_files[h].path
    BY OpenType DEF FlatInv
  <1>1. /\ HandlesOK /\ CacheOK /\ f \in Keys /\ open_files[h].buffer \in Contents
        /\ open_files[h].buffer \in Stored /\ open_files[h].buffer # None /\ open_files[h].dirty
    BY OpenType, NoneIsNoContent DEF FlatInv, Keys, Stored, flush
  <1>2. /\ open_files'[h].path = f /\ open_files'[h].buffer = open_files[h].buffer
        /\ (open_files'[h].dirty <=> ~ok) /\ open_files'[h] \in OpenFile
        /\ \A k \in Handles \ {h} : open_files'[k] = open_files[k]
    <2>1. CASE ok
      BY <1>0, <1>1, <2>1, FieldsType
    <2>2. CASE ~ok
      BY <1>0, <1>1, <2>2, FieldsType
    <2> QED
      BY <2>1, <2>2
  <1>3. open_files'[h] # None
    BY <1>2, HandlesAssumption
  <1>4. \A g \in Files : On(g)' = On(g)
    BY <1>0, <1>2, <1>3 DEF On, IsOpen
  <1>5. \A g \in Files : Held(g)' => Held(g)
    BY <1>4 DEF Held, Unrecorded
  <1> SUFFICES ASSUME NEW g \in Files, g \notin Spoiled'
               PROVE  Story(g)'
    BY DEF Stories
  <1>6. g \notin Spoiled /\ g \notin foreign' /\ file'[g] = file[g]
    BY ForgetFacts DEF Unrecorded, Spoiled
  <1>7. CASE g # f
    <2>1. object'[g] = object[g]
      BY <1>0, <1>1, <1>7, MutateFacts DEF flush, write
    <2>2. DirtyOn(g)' = DirtyOn(g) /\ h \notin DirtyOn(g)
      BY <1>0, <1>2, <1>4, <1>7 DEF DirtyOn, On
    <2>3. \A k \in DirtyOn(g) : open_files'[k].buffer = open_files[k].buffer
      BY <1>2, <2>2 DEF DirtyOn, On
    <2> QED
      BY <1>5, <1>6, <2>1, <2>2, <2>3, StoryStays
  <1>8. CASE g = f /\ ~ok
    <2>1. object'[f] = object[f]
      BY <1>0, <1>1, <1>6, <1>8, MutateFacts DEF flush, write
    <2>2. DirtyOn(f)' = DirtyOn(f)
      BY <1>1, <1>2, <1>4, <1>8 DEF DirtyOn, On
    <2>3. \A k \in DirtyOn(f) : open_files'[k].buffer = open_files[k].buffer
      BY <1>2 DEF DirtyOn, On
    <2> QED
      BY <1>5, <1>6, <1>8, <2>1, <2>2, <2>3, StoryStays
  \* The flush succeeds: the one dirty buffer is the object.
  <1>9. CASE g = f /\ ok
    <2>1. Story(f) /\ h \in DirtyOn(f)
      BY <1>0, <1>1, <1>6, <1>9 DEF Stories, DirtyOn, On
    <2>2. DirtyOn(f) = {h} /\ file[f] = open_files[h].buffer
      BY <2>1 DEF Story
    <2>3. DirtyOn(f)' = {}
      BY <1>2, <1>4, <1>9, <2>2 DEF DirtyOn
    <2>4. object'[f] = file'[f] /\ file'[f] # None
      BY <1>0, <1>1, <1>6, <1>9, <2>2, MutateFacts DEF flush, write
    <2>5. Story(f)'
      BY <2>3, <2>4 DEF Story, Present
    <2> QED
      BY <1>9, <2>5
  <1> QED
    BY <1>7, <1>8, <1>9

LEMMA FsyncStory ==
  ASSUME FlatInv, Stories, OpMoves, NEW h \in Handles, Fsync(h)
  PROVE  Stories'
  <1>1. PICK ok \in BOOLEAN :
          flush(h, ok) /\ open_files' = [open_files EXCEPT ![h] = Fields(h, open_files[h].buffer, ~ok, FALSE)]
    BY DEF Fsync
  <1>2. FALSE \in BOOLEAN /\ IsOpen(h) /\ UNCHANGED <<call, names>> /\ Unrecorded
    BY DEF Fsync, InUse
  <1> QED
    BY <1>1, <1>2, FlushedStory

LEMMA CloseStory ==
  ASSUME FlatInv, Stories, OpMoves, NEW h \in Handles, Close(h)
  PROVE  Stories'
  <1>1. TRUE \in BOOLEAN /\ IsOpen(h) /\ UNCHANGED <<call, names>> /\ Unrecorded
    BY DEF Close, InUse
  <1>2. CASE open_files[h].dirty /\ ~Writeback
    <2>1. PICK ok \in BOOLEAN :
            flush(h, ok) /\ open_files' = [open_files EXCEPT ![h] = Fields(h, open_files[h].buffer, ~ok, TRUE)]
      BY <1>2 DEF Close
    <2> QED
      BY <1>1, <2>1, FlushedStory
  <1>3. CASE ~(open_files[h].dirty /\ ~Writeback)
    <2>1. /\ open_files' = [open_files EXCEPT ![h] = Fields(h, open_files[h].buffer, open_files[h].dirty, TRUE)]
          /\ UNCHANGED object
      BY <1>3 DEF Close, SameCache
    <2>2. open_files[h].buffer \in Contents /\ open_files[h].dirty \in BOOLEAN /\ HandlesOK
      BY <1>1, OpenType DEF FlatInv
    <2>3. /\ open_files'[h].path = open_files[h].path /\ open_files'[h].buffer = open_files[h].buffer
          /\ open_files'[h].dirty = open_files[h].dirty /\ open_files'[h] \in OpenFile
          /\ \A k \in Handles \ {h} : open_files'[k] = open_files[k]
      BY <1>1, <2>1, <2>2, FieldsType
    <2> SUFFICES ASSUME NEW g \in Files, g \notin Spoiled'
                 PROVE  Story(g)'
      BY DEF Stories
    <2>4. g \notin Spoiled /\ file'[g] = file[g]
      BY <1>1, ForgetFacts DEF Unrecorded
    <2>5. On(g)' = On(g)
      BY <1>1, <2>3, HandlesAssumption DEF On, IsOpen
    <2>6. DirtyOn(g)' = DirtyOn(g) /\ \A k \in DirtyOn(g) : open_files'[k].buffer = open_files[k].buffer
      BY <2>3, <2>5 DEF DirtyOn, On
    <2>7. Held(g)' => Held(g)
      BY <1>1, <2>5 DEF Held, Unrecorded
    <2> QED
      BY <2>1, <2>4, <2>6, <2>7, StoryStays
  <1> QED
    BY <1>2, <1>3

\* The handle goes, and with it what it could not store.
LEMMA ReleaseStory ==
  ASSUME FlatInv, Stories, OpMoves, NEW h \in Handles, Release(h)
  PROVE  Stories'
  <1>0. PICK f \in Files : f = open_files[h].path
    BY OpenType DEF FlatInv, Release
  <1>1. /\ HandlesOK /\ CacheOK /\ f \in Keys /\ open_files[h].buffer \in Stored
        /\ open_files[h].buffer # None /\ IsOpen(h) /\ UNCHANGED <<call, names>>
        /\ orphans' = orphans \ {h}
    BY OpenType, NoneIsNoContent DEF FlatInv, Keys, Stored, Release
  <1>2. open_files'[h] = None /\ \A k \in Handles \ {h} : open_files'[k] = open_files[k]
    BY <1>1 DEF Release, HandlesOK
  <1>3. \A g \in Files : On(g)' = On(g) \ {h} /\ DirtyOn(g)' = DirtyOn(g) \ {h}
    BY <1>2 DEF On, DirtyOn, IsOpen
  <1>4. \A g \in Files : Held(g)' => Held(g)
    BY <1>1, <1>3 DEF Held
  <1>5. \A g \in Files : g # f => h \notin On(g) /\ h \notin DirtyOn(g)
    BY <1>0 DEF On, DirtyOn
  <1>6. \A g \in Files : \A k \in DirtyOn(g) \ {h} : open_files'[k].buffer = open_files[k].buffer
    BY <1>2 DEF DirtyOn, On
  <1> SUFFICES ASSUME NEW g \in Files, g \notin Spoiled'
               PROVE  Story(g)'
    BY DEF Stories
  <1>7. CASE ~open_files[h].dirty
    <2>1. g \notin Spoiled /\ file'[g] = file[g] /\ object'[g] = object[g]
      BY <1>7 DEF Release, SameCache, Spoiled
    <2>2. h \notin DirtyOn(g)
      BY <1>7 DEF DirtyOn
    <2>3. DirtyOn(g)' = DirtyOn(g) /\ \A k \in DirtyOn(g) : open_files'[k].buffer = open_files[k].buffer
      BY <1>3, <1>6, <2>2
    <2> QED
      BY <1>4, <2>1, <2>3, StoryStays
  <1>8. CASE open_files[h].dirty
    <2>1. PICK ok \in BOOLEAN :
            Mutate(f, open_files[h].buffer, ok) /\ Record(f, file[f], ~ok)
      BY <1>0, <1>8 DEF Release, flush, write
    <2>2. CASE g # f
      <3>1. g \notin Spoiled /\ file'[g] = file[g]
        BY <2>1, <2>2, RecordFacts
      <3>2. object'[g] = object[g]
        BY <1>1, <2>1, <2>2, MutateFacts
      <3>3. DirtyOn(g)' = DirtyOn(g) /\ \A k \in DirtyOn(g) : open_files'[k].buffer = open_files[k].buffer
        BY <1>3, <1>5, <1>6, <2>2
      <3> QED
        BY <1>4, <3>1, <3>2, <3>3, StoryStays
    <2>3. CASE g = f
      <3>1. f \notin Spoiled /\ file'[f] = file[f] /\ ok
        BY <2>1, <2>3, RecordFacts
      <3>2. Story(f) /\ h \in DirtyOn(f)
        BY <1>0, <1>1, <1>8, <3>1 DEF Stories, DirtyOn, On
      <3>3. DirtyOn(f)' = {} /\ file[f] = open_files[h].buffer
        BY <1>3, <3>2 DEF Story
      <3>4. object'[f] = file'[f] /\ file'[f] # None
        BY <1>1, <2>1, <3>1, <3>3, MutateFacts
      <3>5. Story(f)'
        BY <3>3, <3>4 DEF Story, Present
      <3> QED
        BY <2>3, <3>5
    <2> QED
      BY <2>2, <2>3
  <1> QED
    BY <1>7, <1>8

-----------------------------------------------------------------------------
\* File f goes from the bucket; nobody has written to it what is not there.
LEMMA GoneStory ==
  ASSUME FlatInv, Stories, OpMoves, NEW f \in Files, delete(f, TRUE), Gone(f),
         UNCHANGED open_files, call' = NoCall, names'[f] = None,
         \A g \in Files \ ({f} \cup Spoiled) : names'[g] = g => names[g] = g \/ file[g] # None
  PROVE  Stories'
  <1>1. f \in Keys /\ None \in Stored /\ CacheOK /\ call'.pc = "idle" /\ f # None
    BY NoneIsNoContent DEF Keys, Stored, FlatInv, NoCall
  <1>2. /\ \A g \in Files : On(g)' = On(g) /\ DirtyOn(g)' = DirtyOn(g)
        /\ orphans' = orphans \cup On(f) /\ Record(f, None, DirtyOn(f) # {})
    BY DEF On, DirtyOn, IsOpen, Gone
  <1>3. object'[f] = None /\ \A g \in Files \ {f} : object'[g] = object[g]
    BY <1>1, MutateFacts DEF delete
  <1> SUFFICES ASSUME NEW g \in Files, g \notin Spoiled'
               PROVE  Story(g)'
    BY DEF Stories
  <1>4. CASE g # f
    <2>1. g \notin Spoiled /\ file'[g] = file[g] /\ object'[g] = object[g]
      BY <1>2, <1>3, <1>4, RecordFacts
    <2>2. Held(g)' => Held(g) \/ file[g] # None
      BY <1>1, <1>2, <1>4, <2>1 DEF Held
    <2> QED
      BY <1>2, <2>1, <2>2, StoryStays
  <1>5. CASE g = f
    <2>1. file'[f] = None /\ DirtyOn(f) = {}
      BY <1>2, <1>5, RecordFacts
    <2>2. ~Held(f)'
      BY <1>1, <1>2 DEF Held
    <2>3. Story(f)'
      BY <1>2, <1>3, <2>1, <2>2 DEF Story, Present
    <2> QED
      BY <1>5, <2>3
  <1> QED
    BY <1>4, <1>5

LEMMA UnlinkStory ==
  ASSUME FlatInv, Stories, OpMoves, NEW f \in Files, Unlink(f)
  PROVE  Stories'
  <1>1. PICK ok \in BOOLEAN :
          /\ delete(f, ok)
          /\ IF ok THEN Gone(f) /\ names' = [names EXCEPT ![f] = None]
                   ELSE Forget /\ UNCHANGED <<names, orphans, spoiled>>
    BY DEF Unlink
  <1>2. UNCHANGED <<open_files, call>> /\ call = NoCall /\ f \in Keys /\ None \in Stored
    BY DEF Unlink, Idle, Keys, Stored
  <1>3. CASE ok
    <2>1. delete(f, TRUE)
      BY <1>1, <1>3 DEF delete, Mutate
    <2>2. names'[f] = None /\ \A g \in Files \ {f} : names'[g] = names[g]
      BY <1>1, <1>3 DEF FlatInv, HandlesOK
    <2> QED
      BY <1>1, <1>2, <1>3, <2>1, <2>2, GoneStory
  <1>4. CASE ~ok
    <2>1. Mutate(f, None, FALSE)
      BY <1>1, <1>4 DEF delete
    <2> QED
      BY <1>1, <1>2, <1>4, <2>1, FailedStory DEF NoCall
  <1> QED
    BY <1>3, <1>4

LEMMA RenameDeleteStory ==
  ASSUME FlatInv, Stories, OpMoves, RenameDelete
  PROVE  Stories'
  <1>0. PICK f \in Files, t \in Files : f = call.key /\ t = call.to /\ f # t /\ call.pc = "rename"
    BY DEF FlatInv, CallInv, RenameDelete, Resumed
  <1>1. PICK ok \in BOOLEAN :
          /\ delete(f, ok)
          /\ IF ok THEN Gone(f) /\ names' = [names EXCEPT ![t] = names[f], ![f] = None]
                   ELSE Forget /\ UNCHANGED <<names, orphans, spoiled>>
    BY <1>0 DEF RenameDelete
  <1>2. UNCHANGED open_files /\ call' = NoCall /\ f \in Keys /\ None \in Stored
    BY DEF RenameDelete, Resumed, Keys, Stored
  <1>3. CASE ok
    <2>1. delete(f, TRUE)
      BY <1>1, <1>3 DEF delete, Mutate
    <2>2. names'[f] = None /\ \A g \in Files \ {f, t} : names'[g] = names[g]
      BY <1>0, <1>1, <1>3 DEF FlatInv, HandlesOK
    <2>3. t \notin Spoiled => file[t] # None
      BY <1>0 DEF Stories, Story, Held
    <2> QED
      BY <1>1, <1>2, <1>3, <2>1, <2>2, <2>3, GoneStory
  <1>4. CASE ~ok
    <2>1. Mutate(f, None, FALSE)
      BY <1>1, <1>4 DEF delete
    <2> QED
      BY <1>1, <1>2, <1>4, <2>1, FailedStory DEF NoCall
  <1> QED
    BY <1>3, <1>4

LEMMA RenameStory ==
  ASSUME FlatInv, Stories, OpMoves, NEW f \in Files, NEW g \in Files, Rename(f, g)
  PROVE  Stories'
  <1> DEFINE lost == f \in spoiled \cup foreign \/ DirtyOn(f) \cup DirtyOn(g) # {}
  <1>1. PICK ok \in BOOLEAN :
          /\ copy(f, g, ok)
          /\ IF ok
             THEN /\ Await("rename", None, f, g, 0)
                  /\ Record(g, file[f], lost)
                  /\ orphans' = orphans \cup On(g)
             ELSE Forget /\ UNCHANGED <<call, spoiled, orphans>>
    BY DEF Rename
  <1>2. /\ UNCHANGED <<open_files, names>> /\ f # g /\ call.pc = "idle" /\ g \in Keys /\ CacheOK
        /\ object[f] \in Stored
    BY IdleAt DEF Rename, Keys, FlatInv, CacheOK
  <1> SUFFICES ASSUME NEW e \in Files, e \notin Spoiled'
               PROVE  Story(e)'
    BY DEF Stories
  <1>3. CASE ~ok
    <2>1. e \notin Spoiled /\ e \notin foreign' /\ file'[e] = file[e]
      BY <1>1, <1>3, ForgetFacts DEF Spoiled
    <2>2. object'[e] = object[e]
      <3>1. CASE Mutate(g, object[f], ok)
        BY <1>2, <1>3, <2>1, <3>1, MutateFacts
      <3>2. CASE UNCHANGED object
        BY <3>2
      <3> QED
        BY <1>1, <3>1, <3>2 DEF copy
    <2> QED
      BY <1>1, <1>2, <1>3, <2>1, <2>2, QuietStory
  <1>4. CASE ok
    <2>1. Present(f) /\ Mutate(g, object[f], ok)
      BY <1>1, <1>4 DEF copy
    <2>2. object'[g] = object[f] /\ \A k \in Files \ {g} : object'[k] = object[k]
      BY <1>2, <1>4, <2>1, MutateFacts
    <2>3. \A k \in Files : On(k)' = On(k) /\ DirtyOn(k)' = DirtyOn(k)
      BY <1>2 DEF On, DirtyOn, IsOpen
    <2>4. call'.pc = "rename" /\ call'.to = g
      BY <1>1, <1>4 DEF Await
    <2>5. CASE e # g
      <3>1. e \notin Spoiled /\ file'[e] = file[e] /\ object'[e] = object[e]
        BY <1>1, <1>4, <2>2, <2>5, RecordFacts
      <3>2. Held(e)' => Held(e)
        BY <1>1, <1>2, <1>4, <2>3, <2>4, <2>5 DEF Held
      <3>3. \A h \in DirtyOn(e) : open_files'[h].buffer = open_files[h].buffer
        BY <1>2
      <3> QED
        BY <2>3, <3>1, <3>2, <3>3, StoryStays
    <2>6. CASE e = g
      <3>1. file'[g] = file[f] /\ ~lost
        BY <1>1, <1>4, <2>6, RecordFacts
      <3>2. Story(f) /\ DirtyOn(f) = {} /\ DirtyOn(g) = {}
        BY <3>1 DEF Stories, Spoiled
      <3>3. object'[g] = file'[g] /\ file'[g] # None
        BY <2>1, <2>2, <3>1, <3>2 DEF Story, Present
      <3>4. Story(g)'
        BY <2>3, <3>2, <3>3 DEF Story, Present
      <3> QED
        BY <2>6, <3>4
    <2> QED
      BY <2>5, <2>6
  <1> QED
    BY <1>3, <1>4

-----------------------------------------------------------------------------
LEMMA StoryInvInit == FlatInit => StoryInv
  <1> SUFFICES ASSUME FlatInit
               PROVE  StoryInv
    OBVIOUS
  <1>1. ASSUME NEW f \in Files PROVE Story(f)
    <2>1. On(f) = {} /\ DirtyOn(f) = {} /\ f # None /\ f \in Keys
      BY NoneIsNoContent DEF FlatInit, On, DirtyOn, IsOpen, Keys
    <2> QED
      BY <2>1 DEF FlatInit, OpInit, Story, Held, Present, NoCall
  <1> QED
    BY <1>1, CacheInvInit DEF StoryInv, Stories

LEMMA StoryInvNext == StoryInv /\ [FlatNext]_flatVars => StoryInv'
  <1> SUFFICES ASSUME StoryInv, [FlatNext]_flatVars
               PROVE  StoryInv'
    OBVIOUS
  <1>1. CacheInv /\ FlatInv /\ Stories /\ OpMoves /\ CacheInv'
    BY NextMoves, CacheInvNext DEF StoryInv, CacheInv
  <1> SUFFICES Stories'
    BY <1>1 DEF StoryInv
  <1>2. ASSUME NEW k \in Keys, Lookup(k) PROVE Stories'
    BY <1>1, <1>2, LookupStory
  <1>3. ASSUME NEW f \in Files, OfFile(f) PROVE Stories'
    <2>1. CASE Getattr(f)
      BY <1>1, <2>1, SmallStory
    <2>2. CASE KernelDrops(f)
      BY <1>1, <2>2, ReadStory
    <2> QED
      BY <1>1, <1>3, <2>1, <2>2, UnlinkStory, TruncateStory, RenameStory, CreateStory, OpenStory DEF OfFile
  <1>4. ASSUME NEW h \in Handles, OfHandle(h) PROVE Stories'
    <2>1. CASE Read(h)
      BY <1>1, <2>1, ReadStory
    <2> QED
      BY <1>1, <1>4, <2>1, FsyncStory, CloseStory, ReleaseStory, WriteStory DEF OfHandle
  <1>5. ASSUME NEW d \in Dirs \cup {Root}, OfDir(d) PROVE Stories'
    BY <1>1, <1>5, SmallStory DEF OfDir
  <1>6. CASE Continue
    <2>1. CASE LookupList \/ Restat
      BY <1>1, <2>1, SmallStory
    <2>2. CASE ReadAnswer
      BY <1>1, <2>2, ReadStory
    <2> QED
      BY <1>1, <1>6, <2>1, <2>2, FilledStory, ResizedStory, RenameDeleteStory DEF Continue
  <1>7. CASE OpStep /\ UNCHANGED <<open_files, call, names>> /\ Unrecorded
    BY <1>1, <1>7, SmallStory
  <1>8. CASE UNCHANGED flatVars
    BY <1>1, <1>8, ReadStory
  <1> QED
    BY <1>2, <1>3, <1>4, <1>5, <1>6, <1>7, <1>8 DEF FlatNext

LEMMA StoryInvAlways == FlatSpec => []StoryInv
  BY StoryInvInit, StoryInvNext, PTL DEF FlatSpec

\* The last content the calls gave a file is in the bucket or in its one dirty
\* buffer: through fills, partial writes, truncates, flushes that fail, releases
\* and renames cut after the copy (vfs.rs:155-273, vfs.rs:287-290), for every
\* file but those whose loss Spoiled tells of.
THEOREM ContentStays == FlatSpec => []ContentKept
  <1>1. StoryInv => ContentKept
    BY StoryShown DEF StoryInv, Stories, ContentKept
  <1> QED
    BY <1>1, StoryInvAlways, PTL

\* A read through a handle on a file nobody has dirty answers with that content,
\* unless a request to the store failed (fuse.rs:207-241, cache.rs:63-111): what
\* the read took from the cache or got from the bucket is still in the bucket.
THEOREM ReadsAnswerContent == FlatSpec => []ReadsContent
  <1>1. StoryInv => ReadsContent
    <2> SUFFICES ASSUME StoryInv, call.pc = "read", ReadAnswered, call.key \notin Spoiled,
                        DirtyOn(call.key) = {}, call.fh \notin orphans, ~reading.failed
                 PROVE  GotRead /\ reading.data = file[call.key]
      BY DEF ReadsContent
    <2>1. /\ call.key \in Files /\ reading.key = call.key /\ call.fh \in On(call.key)
          /\ reading.pc \in {"ok", "notfound"}
      BY DEF StoryInv, CacheInv, FlatInv, ReadOK, ReadingInv, CallInv, InUse, On, ReadAnswered
    <2>2. Story(call.key) /\ Held(call.key)
      BY <2>1 DEF StoryInv, Stories, Held
    <2>3. object[call.key] = file[call.key] /\ object[call.key] # None
      BY <2>2 DEF Story, Present
    <2>4. reading.pc = "ok" /\ reading.data = object[call.key]
      BY <2>1, <2>3 DEF StoryInv, CacheInv, ReadingFresh, Spoiled
    <2> QED
      BY <2>3, <2>4 DEF GotRead
  <1> QED
    BY <1>1, StoryInvAlways, PTL

=============================================================================
