---------------------------- MODULE FlatVfsProofs ----------------------------
(***************************************************************************)
(* The flat mode: the types of its state, its caches that agree with the   *)
(* bucket where nobody else writes, and its reads, which answer as         *)
(* ObjectReads says.                                                       *)
(***************************************************************************)
EXTENDS FlatVfs, TLAPS

-----------------------------------------------------------------------------
(* Contents: what resizing and writing a byte make of them.                *)

LEMMA NoneIsNoContent == None \notin Contents /\ None \notin Keys \cup {Root}
  BY NoneAssumption

LEMMA EmptyContent == <<>> \in Contents
  <1>1. <<>> \in [1..0 -> Bytes] /\ 0 \in 0..MaxLen
    BY BytesAssumption
  <1> QED
    BY <1>1 DEF Contents

LEMMA ContentLength ==
  ASSUME NEW s \in Contents
  PROVE  Len(s) \in 0..MaxLen /\ s \in [1..Len(s) -> Bytes]
  <1>1. PICK n \in 0..MaxLen : s \in [1..n -> Bytes]
    BY DEF Contents
  <1>2. s \in Seq(Bytes) /\ Len(s) = n
    BY <1>1, BytesAssumption
  <1> QED
    BY <1>1, <1>2

LEMMA ResizeContent ==
  ASSUME NEW s \in Contents, NEW n \in 0..MaxLen
  PROVE  Resize(s, n) \in Contents /\ Resize(s, n) \in [1..n -> Bytes]
  <1>1. Resize(s, n) \in [1..n -> Bytes]
    BY ContentLength, BytesAssumption DEF Resize
  <1> QED
    BY <1>1 DEF Contents

\* A byte at o in a content that is made long enough.
Poke(s, o, byte) == [Resize(s, IF o >= Len(s) THEN o + 1 ELSE Len(s)) EXCEPT ![o + 1] = byte]

LEMMA PokeContent ==
  ASSUME NEW s \in Contents, NEW o \in 0..MaxLen - 1, NEW byte \in Bytes
  PROVE  Poke(s, o, byte) \in Contents
  <1> DEFINE n == IF o >= Len(s) THEN o + 1 ELSE Len(s)
  <1>1. n \in 0..MaxLen
    BY ContentLength, BytesAssumption
  <1>2. Resize(s, n) \in [1..n -> Bytes]
    BY <1>1, ResizeContent
  <1>3. Poke(s, o, byte) \in [1..n -> Bytes]
    BY <1>2 DEF Poke
  <1> QED
    BY <1>1, <1>3 DEF Contents

LEMMA ResizeToNothing == ASSUME NEW s \in Contents PROVE Resize(s, 0) = <<>>
  <1>1. Resize(s, 0) \in [1..0 -> Bytes]
    BY ResizeContent, BytesAssumption
  <1>2. Resize(s, 0) \in Seq(Bytes) /\ Len(Resize(s, 0)) = 0
    BY <1>1
  <1> QED
    BY <1>2

-----------------------------------------------------------------------------
(* The inductive invariant.                                                *)

Awaited == {"read", "fill", "resize"}

CacheOK ==
    /\ object \in [Keys -> Stored]
    /\ content_cache \in [Files -> Cached \cup {None}]
    /\ \A f \in Files : content_cache[f] # None => content_cache[f].etag = content_cache[f].data
    /\ stat_cache \in [Keys -> Stored]
    /\ dir_cache \in [Dirs \cup {Root} -> Listings \cup {None}]
    /\ foreign \subseteq Keys

\* A read has in hand what its step says.
ReadOK ==
    /\ reading \in Reads
    /\ reading.pc \in {"validate", "get"} => reading.etag \in Contents
    /\ reading.pc = "validate" => reading.data = reading.etag
    /\ reading.pc = "ok" => reading.data \in Contents
    /\ reading.pc \in {"head", "get", "getany", "notfound", "err"} => reading.data = None
    /\ reading.pc = "err" => reading.failed

\* It is under way exactly while a handler awaits one.
ReadingInv ==
    /\ reading.pc = "idle" => reading = NoRead /\ call.pc \notin Awaited
    /\ reading.pc # "idle" => /\ call.pc \in Awaited
                              /\ reading.key = call.key /\ call.key \in Files

\* A handler that awaits has the arguments it goes on with.
CallInv ==
    /\ call.pc = "lookup" => call.key \in Dirs
    /\ call.pc \in {"read", "fill"} =>
         /\ call.fh \in Handles /\ InUse(call.fh) /\ open_files[call.fh].path = call.key
         /\ ~open_files[call.fh].dirty
    /\ call.pc = "fill" => call.at \in 0..MaxLen - 1
    /\ call.pc = "resize" => call.at # 0
    /\ call.pc = "restat" => call.key \in Files
    /\ call.pc = "rename" => call.key \in Files /\ call.to \in Files \ {call.key}
    /\ call.pc = "idle" => call = NoCall

HandlesOK ==
    /\ open_files \in [Handles -> OpenFile \cup {None}]
    /\ call \in Handlers
    /\ names \in [Files -> Files \cup {None}]
    /\ file \in [Files -> Stored]
    /\ orphans \subseteq Handles /\ spoiled \subseteq Files

FlatInv == CacheOK /\ ReadOK /\ HandlesOK /\ ReadingInv /\ CallInv

\* What the caches, and a read under way, have of a key that others have not
\* touched is what the bucket has.
ContentFresh == \A f \in Files \ foreign : content_cache[f] # None =>
                    content_cache[f].data = object[f]
ReadingFresh ==
    reading.key \notin foreign =>
        /\ reading.pc \in {"validate", "ok"} => reading.data = object[reading.key]
        /\ reading.pc = "notfound" => object[reading.key] = None

\* A listing has what is in it, and nothing else.
OwnListings == \A d \in Dirs \cup {Root}, k \in Keys :
                  dir_cache[d] # None /\ k \in dir_cache[d] => ParentOf[k] = d

CacheInv == FlatInv /\ ContentFresh /\ ReadingFresh /\ CachesFresh /\ OwnListings

-----------------------------------------------------------------------------
(* Types of what the cached operator changes.                              *)

LEMMA MutateType ==
  ASSUME CacheOK, NEW k \in Keys, NEW c \in Stored, NEW ok, Mutate(k, c, ok)
  PROVE  CacheOK'
  BY KeysAssumption DEF CacheOK, Mutate, invalidate_path, caches, Stored

LEMMA CopyType ==
  ASSUME CacheOK, NEW f \in Files, NEW g \in Files, NEW ok, copy(f, g, ok)
  PROVE  CacheOK'
  <1>1. f \in Keys /\ g \in Keys /\ object[f] \in Stored
    BY DEF CacheOK, Keys
  <1>2. CASE Mutate(g, object[f], ok)
    BY <1>1, <1>2, MutateType
  <1>3. CASE UNCHANGED <<object, caches, foreign>>
    BY <1>3 DEF CacheOK, caches
  <1> QED
    BY <1>2, <1>3 DEF copy

LEMMA StatType ==
  ASSUME CacheOK, NEW k \in Keys, NEW answer, stat(k, answer)
  PROVE  CacheOK'
  BY DEF CacheOK, stat, Kept, Stored

LEMMA ListType ==
  ASSUME CacheOK, NEW d \in Dirs \cup {Root}, list(d)
  PROVE  CacheOK'
  <1>1. Listing(d) \in Listings
    BY DEF Listing, Listings
  <1> QED
    BY <1>1 DEF CacheOK, list, Kept

\* What a step makes of the read.
Is(r, pc, etag, data) ==
    r \in Reads /\ r.pc = pc /\ r.key = reading.key /\ r.etag = etag /\ r.data = data

LEMMA StepType ==
  ASSUME reading \in Reads, NEW pc \in Steps, NEW etag \in Stored, NEW data \in Stored
  PROVE  /\ Is(Step(pc, etag, data), pc, etag, data)
         /\ Is([Step(pc, etag, data) EXCEPT !.failed = TRUE], pc, etag, data)
         /\ [Step(pc, etag, data) EXCEPT !.failed = TRUE].failed
         /\ Step(pc, etag, data).failed = reading.failed
  <1>1. Is(Step(pc, etag, data), pc, etag, data) /\ Step(pc, etag, data).failed = reading.failed
    BY DEF Step, Reads, Is
  <1>2. ASSUME NEW r \in Reads PROVE [r EXCEPT !.failed = TRUE] \in Reads
    BY DEF Reads
  <1>3. ASSUME NEW r \in Reads
        PROVE  /\ [r EXCEPT !.failed = TRUE].pc = r.pc /\ [r EXCEPT !.failed = TRUE].key = r.key
               /\ [r EXCEPT !.failed = TRUE].etag = r.etag /\ [r EXCEPT !.failed = TRUE].data = r.data
               /\ [r EXCEPT !.failed = TRUE].failed
    BY DEF Reads
  <1> QED
    BY <1>1, <1>2, <1>3 DEF Is

LEMMA StepMoves ==
  ASSUME ReadOK, NEW pc \in Steps \ {"idle"}, NEW etag \in Stored, NEW data \in Stored,
         \/ reading' = Step(pc, etag, data) /\ pc # "err"
         \/ reading' = [Step(pc, etag, data) EXCEPT !.failed = TRUE],
         pc \in {"validate", "get"} => etag \in Contents,
         pc = "validate" => data = etag,
         pc = "ok" => data \in Contents,
         pc \in {"head", "get", "getany", "notfound", "err"} => data = None
  PROVE  ReadOK' /\ reading'.pc # "idle" /\ Is(reading', pc, etag, data)
  <1>1. Is(reading', pc, etag, data) /\ (pc = "err" => reading'.failed)
    BY StepType DEF ReadOK
  <1> QED
    BY <1>1 DEF ReadOK, Is

LEMMA StartReadType ==
  ASSUME CacheOK, NEW f \in Files, StartRead(f)
  PROVE  ReadOK' /\ reading'.pc \in Steps \ {"idle"} /\ reading'.key = f
  BY NoneIsNoContent DEF CacheOK, StartRead, ReadOK, Reads, NoRead, Steps, Cached, Stored

LEMMA ReadStepType ==
  ASSUME CacheOK, ReadOK, reading.key \in Files,
         Validate \/ HeadEtag \/ GetIfMatch \/ GetAny
  PROVE  /\ CacheOK' /\ ReadOK'
         /\ reading.pc # "idle" /\ reading'.pc # "idle" /\ reading'.key = reading.key
         /\ UNCHANGED <<object, foreign>>
  <1>1. object[reading.key] \in Stored /\ None \in Stored
    BY DEF CacheOK, Keys, Stored
  <1>2. CASE Validate
    <2>1. reading.pc = "validate" /\ reading.data \in Contents /\ reading.data \in Stored
      BY <1>2 DEF Validate, At, ReadOK, Stored
    <2>2. ReadOK' /\ reading'.pc # "idle" /\ reading'.key = reading.key
      BY <1>1, <1>2, <2>1, StepMoves DEF Validate, Goto, Answer, Failed, Steps, Is
    <2> QED
      BY <1>2, <2>1, <2>2 DEF Validate, caches, CacheOK
  <1>3. CASE HeadEtag
    <2>1. Present(reading.key) => object[reading.key] \in Contents
      BY <1>1 DEF Present, Stored
    <2>2. ReadOK' /\ reading'.pc # "idle" /\ reading'.key = reading.key
      BY <1>1, <1>3, <2>1, StepMoves DEF HeadEtag, Goto, Failed, Steps, Is
    <2> QED
      BY <1>3, <2>2 DEF HeadEtag, At, caches, CacheOK
  <1>4. CASE GetAny
    <2>1. IF Present(reading.key) THEN object[reading.key] \in Contents ELSE object[reading.key] = None
      BY <1>1 DEF Present, Stored
    <2>2. ReadOK' /\ reading'.pc # "idle" /\ reading'.key = reading.key
      BY <1>1, <1>4, <2>1, StepMoves DEF GetAny, Answer, Failed, Steps, Is
    <2> QED
      BY <1>4, <2>2 DEF GetAny, At, caches, CacheOK
  <1>5. CASE GetIfMatch
    <2> DEFINE current == object[reading.key]
               entry == [data |-> current, etag |-> reading.etag]
    <2>1. reading.pc = "get" /\ reading.etag \in Contents
      BY <1>5 DEF GetIfMatch, At, ReadOK
    <2>2. ReadOK' /\ reading'.pc # "idle" /\ reading'.key = reading.key
      BY <1>1, <1>5, <2>1, NoneIsNoContent, StepMoves DEF GetIfMatch, Goto, Answer, Failed, Steps, Is
    <2>3. CASE current = reading.etag /\ content_cache' = [content_cache EXCEPT ![reading.key] = entry]
      <3>1. entry \in Cached /\ entry.etag = entry.data
        BY <2>1, <2>3 DEF Cached
      <3>2. /\ content_cache' \in [Files -> Cached \cup {None}]
             /\ \A f \in Files : content_cache'[f] # None =>
                  content_cache'[f].etag = content_cache'[f].data
        BY <2>3, <3>1 DEF CacheOK
      <3> QED
        BY <1>5, <2>1, <2>2, <3>2 DEF GetIfMatch, CacheOK
    <2>4. CASE content_cache' = content_cache
      BY <1>5, <2>1, <2>2, <2>4 DEF GetIfMatch, CacheOK
    <2> QED
      BY <1>5, <2>3, <2>4 DEF GetIfMatch
  <1> QED
    BY <1>2, <1>3, <1>4, <1>5

-----------------------------------------------------------------------------
(* Types of what the handlers change.                                      *)

LEMMA NoCallType == NoCall \in Handlers
  BY BytesAssumption DEF NoCall, Handlers, Pcs

LEMMA AwaitType ==
  ASSUME NEW pc \in Pcs, NEW h \in Handles \cup {None}, NEW k \in Keys \cup {None},
         NEW to \in Files \cup {None}, NEW n \in 0..MaxLen, Await(pc, h, k, to, n)
  PROVE  /\ call' \in Handlers /\ call'.pc = pc /\ call'.fh = h /\ call'.key = k
         /\ call'.to = to /\ call'.at = n
  BY DEF Await, Handlers

LEMMA RecordType ==
  ASSUME HandlesOK, NEW f \in Files, NEW c \in Stored, NEW spoil, Record(f, c, spoil)
  PROVE  file' \in [Files -> Stored] /\ spoiled' \subseteq Files
  BY DEF HandlesOK, Record, Stored

LEMMA ForgetType ==
  ASSUME HandlesOK, Forget
  PROVE  file' \in [Files -> Stored]
  BY DEF HandlesOK, Forget, Stored

\* A handle whose buffer, dirty mark or end changes.
LEMMA FieldsType ==
  ASSUME HandlesOK, NEW h \in Handles, IsOpen(h), NEW buffer \in Contents, NEW dirty \in BOOLEAN,
         NEW closed \in BOOLEAN, open_files' = [open_files EXCEPT ![h] = Fields(h, buffer, dirty, closed)]
  PROVE  /\ open_files' \in [Handles -> OpenFile \cup {None}]
         /\ open_files'[h].path = open_files[h].path /\ open_files'[h].buffer = buffer
         /\ open_files'[h].dirty = dirty /\ open_files'[h].closed = closed
         /\ open_files[h] \in OpenFile /\ open_files'[h] \in OpenFile
         /\ \A k \in Handles \ {h} : open_files'[k] = open_files[k]
  <1>1. open_files[h] \in OpenFile
    BY DEF HandlesOK, IsOpen
  <1>2. Fields(h, buffer, dirty, closed) \in OpenFile
    BY <1>1 DEF Fields, OpenFile
  <1> QED
    BY <1>1, <1>2 DEF HandlesOK, Fields

LEMMA OpenType ==
  ASSUME HandlesOK, NEW h \in Handles, IsOpen(h)
  PROVE  /\ open_files[h] \in OpenFile
         /\ open_files[h].path \in Files /\ open_files[h].buffer \in Contents
         /\ open_files[h].dirty \in BOOLEAN /\ open_files[h].closed \in BOOLEAN
  BY DEF HandlesOK, IsOpen, OpenFile

-----------------------------------------------------------------------------
(* FlatInv, handler by handler.                                            *)

\* A handler that leaves the handles and the read alone, and awaits nothing that
\* needs them.
LEMMA QuietInv ==
  ASSUME FlatInv, CacheOK', call' \in Handlers, names' \in [Files -> Files \cup {None}],
         Unrecorded, UNCHANGED <<reading, open_files>>, reading.pc = "idle",
         \/ call' = NoCall
         \/ call'.pc = "lookup" /\ call'.key \in Dirs
         \/ call'.pc = "restat" /\ call'.key \in Files
  PROVE  FlatInv'
  <1>1. HandlesOK'
    BY ForgetType DEF FlatInv, HandlesOK, Unrecorded
  <1>2. ReadOK' /\ ReadingInv'
    BY DEF FlatInv, ReadOK, ReadingInv, NoCall, Awaited
  <1>3. CallInv'
    BY NoneIsNoContent DEF CallInv, NoCall
  <1> QED
    BY <1>1, <1>2, <1>3 DEF FlatInv

LEMMA IdleReads == ASSUME FlatInv, call.pc \notin Awaited PROVE reading.pc = "idle"
  BY DEF FlatInv, ReadingInv

LEMMA IdleAt == ASSUME Idle PROVE call.pc = "idle" /\ call.pc \notin Awaited
  BY DEF Idle, NoCall, Awaited

LEMMA LookupInv ==
  ASSUME FlatInv, NEW k \in Keys, Lookup(k)
  PROVE  FlatInv'
  <1>1. CacheOK'
    BY StatType DEF Lookup, FlatInv
  <1>2. call' \in Handlers /\ (call' = NoCall \/ (call'.pc = "lookup" /\ call'.key \in Dirs))
    <2>1. CASE UNCHANGED call
      BY <2>1, NoCallType DEF Lookup, Idle
    <2>2. CASE k \in Dirs /\ Await("lookup", None, k, None, 0)
      <3>1. "lookup" \in Pcs /\ k \in Keys \cup {None} /\ 0 \in 0..MaxLen
        BY BytesAssumption DEF Pcs
      <3> QED
        BY <2>2, <3>1, AwaitType
    <2> QED
      BY <2>1, <2>2 DEF Lookup
  <1>3. names' \in [Files -> Files \cup {None}]
    BY DEF Lookup, FlatInv, HandlesOK
  <1> QED
    BY <1>1, <1>2, <1>3, QuietInv, IdleReads, IdleAt DEF Lookup, NoReading

LEMMA LookupListInv ==
  ASSUME FlatInv, LookupList
  PROVE  FlatInv'
  <1>1. call.pc = "lookup" /\ call.key \in Dirs
    BY DEF LookupList, Resumed, FlatInv, CallInv
  <1>2. CacheOK'
    BY <1>1, ListType DEF LookupList, FlatInv
  <1> QED
    BY <1>1, <1>2, QuietInv, IdleReads, NoCallType
    DEF LookupList, Resumed, NoReading, FlatInv, HandlesOK, Awaited

LEMMA SmallInv ==
  ASSUME FlatInv,
         \/ \E f \in Files : Getattr(f)
         \/ \E d \in Dirs \cup {Root} : Readdir(d) \/ (d \in Dirs /\ (Mkdir(d) \/ Rmdir(d)))
         \/ Restat
  PROVE  FlatInv'
  <1>1. ASSUME NEW f \in Files, Getattr(f) PROVE FlatInv'
    BY <1>1, StatType, QuietInv, IdleReads, IdleAt, NoCallType
    DEF Getattr, FlatInv, HandlesOK, NoReading, Idle, Keys
  <1>2. ASSUME NEW d \in Dirs \cup {Root}, Readdir(d) PROVE FlatInv'
    BY <1>2, ListType, QuietInv, IdleReads, IdleAt, NoCallType
    DEF Readdir, FlatInv, HandlesOK, NoReading, Idle
  <1>3. ASSUME NEW d \in Dirs, Mkdir(d) \/ Rmdir(d) PROVE FlatInv'
    <2>1. d \in Keys /\ None \in Stored /\ <<>> \in Stored
      BY <1>3, EmptyContent DEF Keys, Stored
    <2>2. CacheOK'
      BY <1>3, <2>1, MutateType DEF Mkdir, Rmdir, create_dir, delete, FlatInv
    <2> QED
      BY <1>3, <2>2, QuietInv, IdleReads, IdleAt, NoCallType
      DEF Mkdir, Rmdir, FlatInv, HandlesOK, NoReading, Idle
  <1>4. CASE Restat
    <2>1. call.pc = "restat" /\ call.key \in Keys
      BY <1>4 DEF Restat, Resumed, FlatInv, CallInv, Keys
    <2> QED
      BY <1>4, <2>1, StatType, QuietInv, IdleReads, NoCallType
      DEF Restat, Resumed, FlatInv, HandlesOK, NoReading, Awaited
  <1> QED
    BY <1>1, <1>2, <1>3, <1>4

LEMMA RestIsRead == NoRead \in Reads
  BY DEF NoRead, Reads, Steps, Stored

\* While nothing is awaited, nothing is read.
LEMMA IdleIsRest == ASSUME FlatInv, Idle PROVE reading = NoRead /\ call = NoCall
  BY IdleAt, IdleReads DEF FlatInv, ReadingInv, Idle

\* A handler that ends.
LEMMA EndInv ==
  ASSUME CacheOK', HandlesOK', reading' = NoRead, call' = NoCall
  PROVE  FlatInv'
  <1>1. (ReadOK /\ ReadingInv /\ CallInv)'
    BY RestIsRead, NoneIsNoContent DEF ReadOK, ReadingInv, CallInv, NoRead, NoCall, Awaited
  <1> QED
    BY <1>1 DEF FlatInv

LEMMA OpenedType ==
  ASSUME HandlesOK, NEW h \in Handles, NEW f \in Files, Opened(h, f)
  PROVE  open_files' \in [Handles -> OpenFile \cup {None}]
  BY EmptyContent DEF HandlesOK, Opened, OpenFile

LEMMA CreateInv ==
  ASSUME FlatInv, NEW f \in Files, NEW h \in Handles, Create(f, h)
  PROVE  FlatInv'
  <1>1. f \in Keys /\ <<>> \in Stored
    BY EmptyContent DEF Keys, Stored
  <1>2. CacheOK'
    BY <1>1, MutateType DEF Create, write, FlatInv
  <1>3. HandlesOK'
    <2>1. CASE Opened(h, f) /\ names' = [names EXCEPT ![f] = f] /\ Record(f, <<>>, FALSE)
      <3>1. names' \in [Files -> Files \cup {None}]
        BY <2>1 DEF FlatInv, HandlesOK
      <3>2. open_files' \in [Handles -> OpenFile \cup {None}]
        BY <2>1, OpenedType DEF FlatInv
      <3>3. file' \in [Files -> Stored] /\ spoiled' \subseteq Files
        BY <1>1, <2>1, RecordType DEF FlatInv
      <3> QED
        BY <3>1, <3>2, <3>3 DEF Create, FlatInv, HandlesOK
    <2>2. CASE UNCHANGED <<open_files, names, spoiled>> /\ Forget
      BY <2>2, ForgetType DEF Create, FlatInv, HandlesOK
    <2> QED
      BY <2>1, <2>2 DEF Create
  <1> QED
    BY <1>2, <1>3, EndInv, IdleIsRest DEF Create, NoReading

LEMMA OpenInv ==
  ASSUME FlatInv, NEW f \in Files, NEW h \in Handles, Open(f, h)
  PROVE  FlatInv'
  <1>1. names[f] \in Files
    BY DEF Open, FlatInv, HandlesOK
  <1>2. HandlesOK'
    BY <1>1, OpenedType DEF Open, HandlesOK, FlatInv
  <1>3. CacheOK'
    BY DEF Open, opVars, caches, CacheOK, FlatInv
  <1> QED
    BY <1>2, <1>3, EndInv, IdleIsRest DEF Open, opVars

LEMMA KernelDropsInv ==
  ASSUME FlatInv, NEW f \in Files, KernelDrops(f)
  PROVE  FlatInv'
  <1>1. HandlesOK'
    BY DEF KernelDrops, history, HandlesOK, FlatInv
  <1>2. CacheOK'
    BY DEF KernelDrops, opVars, caches, CacheOK, FlatInv
  <1> QED
    BY <1>1, <1>2, EndInv, IdleIsRest DEF KernelDrops, opVars

-----------------------------------------------------------------------------
\* A handler starts a read of file f.
LEMMA StartInv ==
  ASSUME FlatInv, Idle, NEW f \in Files, StartRead(f), SameCache, UNCHANGED <<open_files, names, history>>,
         NEW pc \in Awaited, NEW h \in Handles \cup {None}, NEW n \in 0..MaxLen, Await(pc, h, f, None, n),
         pc # "resize" => h \in Handles /\ InUse(h) /\ open_files[h].path = f /\ ~open_files[h].dirty,
         pc = "fill" => n \in 0..MaxLen - 1,
         pc = "resize" => n # 0
  PROVE  FlatInv'
  <1>1. f \in Keys \cup {None} /\ pc \in Pcs
    BY DEF Keys, Pcs, Awaited
  <1>2. call' \in Handlers /\ call'.pc = pc /\ call'.fh = h /\ call'.key = f /\ call'.at = n
    BY <1>1, AwaitType
  <1>3. CacheOK' /\ HandlesOK'
    BY <1>2 DEF FlatInv, CacheOK, HandlesOK, SameCache, caches, history
  <1>4. ReadOK' /\ reading'.pc # "idle" /\ reading'.key = f
    BY StartReadType DEF FlatInv, ReadOK
  <1>5. ReadingInv'
    BY <1>2, <1>4 DEF ReadingInv
  <1>6. CallInv'
    BY <1>2 DEF CallInv, Awaited, InUse, IsOpen
  <1> QED
    BY <1>3, <1>4, <1>5, <1>6 DEF FlatInv

\* A step of the read, an eviction, or others writing.
LEMMA OpStepInv ==
  ASSUME FlatInv, OpStep, UNCHANGED <<open_files, call, names>>, Unrecorded
  PROVE  FlatInv'
  <1>1. HandlesOK'
    BY ForgetType DEF FlatInv, HandlesOK, Unrecorded
  <1>2. CallInv'
    BY DEF FlatInv, CallInv, InUse, IsOpen
  <1>3. CASE Validate \/ HeadEtag \/ GetIfMatch \/ GetAny
    <2>1. reading.pc # "idle"
      BY <1>3 DEF Validate, HeadEtag, GetIfMatch, GetAny, At
    <2>2. CacheOK' /\ ReadOK' /\ reading'.pc # "idle" /\ reading'.key = reading.key
      BY <1>3, <2>1, ReadStepType DEF FlatInv, ReadingInv
    <2> QED
      BY <1>1, <1>2, <2>1, <2>2 DEF FlatInv, ReadingInv
  <1>4. CASE UNCHANGED reading /\ CacheOK'
    BY <1>1, <1>2, <1>4 DEF FlatInv, ReadOK, ReadingInv
  <1>5. ASSUME NEW k \in Keys \cup {Root}, Expire(k) PROVE UNCHANGED reading /\ CacheOK'
    BY <1>5 DEF Expire, FlatInv, CacheOK, Stored
  <1>6. ASSUME NEW k \in Keys, OtherWriter(k) PROVE UNCHANGED reading /\ CacheOK'
    BY <1>6, OthersAssumption DEF OtherWriter, FlatInv, CacheOK, Stored, caches
  <1> QED
    BY <1>3, <1>4, <1>5, <1>6 DEF OpStep

LEMMA ReadInv ==
  ASSUME FlatInv, NEW h \in Handles, Read(h)
  PROVE  FlatInv'
  <1>1. open_files[h].path \in Files /\ 0 \in 0..MaxLen
    BY OpenType, BytesAssumption DEF Read, InUse, FlatInv
  <1> QED
    BY <1>1, StartInv DEF Read, Awaited

LEMMA ReadAnswerInv ==
  ASSUME FlatInv, ReadAnswer
  PROVE  FlatInv'
  <1>1. call' = NoCall /\ reading' = NoRead
    BY DEF ReadAnswer, ReadDone, Resumed
  <1>2. CacheOK' /\ HandlesOK'
    BY <1>1, NoCallType DEF ReadAnswer, SameCache, caches, history, FlatInv, CacheOK, HandlesOK
  <1> QED
    BY <1>1, <1>2, EndInv

-----------------------------------------------------------------------------
\* What Apply makes of a handle that held base, and of its file.
Spoils(h, lost) == LET f == open_files[h].path
                   IN lost \/ h \in orphans \/ DirtyOn(f) \ {h} # {} \/ file[f] = None
Told(h, o, byte, lost) ==
    IF Spoils(h, lost) THEN None ELSE Poke(file[open_files[h].path], o, byte)

LEMMA ApplyFacts ==
  ASSUME HandlesOK, NEW h \in Handles, IsOpen(h), NEW o \in 0..MaxLen - 1, NEW base \in Contents,
         NEW lost, Apply(h, o, base, lost)
  PROVE  \E byte \in Bytes :
              /\ open_files' = [open_files EXCEPT ![h] = Fields(h, Poke(base, o, byte), TRUE, FALSE)]
              /\ Poke(base, o, byte) \in Contents
              /\ Record(open_files[h].path, Told(h, o, byte, lost), Spoils(h, lost))
              /\ Told(h, o, byte, lost) \in Stored
              /\ UNCHANGED <<names, orphans>> /\ SameCache
  <1> DEFINE f == open_files[h].path
  <1>1. PICK byte \in Bytes \ {0} :
           /\ open_files' = [open_files EXCEPT ![h] = Fields(h, Poke(base, o, byte), TRUE, FALSE)]
           /\ UNCHANGED <<names, orphans>> /\ SameCache
           /\ Record(f, Told(h, o, byte, lost), Spoils(h, lost))
    BY DEF Apply, Poke, Told, Spoils
  <1>2. f \in Files /\ (file[f] # None => file[f] \in Contents)
    BY OpenType DEF HandlesOK, Stored
  <1>3. Poke(base, o, byte) \in Contents /\ (~Spoils(h, lost) => Poke(file[f], o, byte) \in Contents)
    BY <1>2, PokeContent DEF Spoils
  <1> QED
    BY <1>1, <1>3 DEF Stored, Told

LEMMA ApplyType ==
  ASSUME HandlesOK, NEW h \in Handles, IsOpen(h), NEW o \in 0..MaxLen - 1, NEW base \in Contents,
         NEW lost, Apply(h, o, base, lost), call' \in Handlers
  PROVE  HandlesOK' /\ SameCache
  <1> DEFINE f == open_files[h].path
  <1>1. PICK byte \in Bytes :
           /\ open_files' = [open_files EXCEPT ![h] = Fields(h, Poke(base, o, byte), TRUE, FALSE)]
           /\ Poke(base, o, byte) \in Contents
           /\ Record(f, Told(h, o, byte, lost), Spoils(h, lost))
           /\ Told(h, o, byte, lost) \in Stored
           /\ UNCHANGED <<names, orphans>> /\ SameCache
    BY ApplyFacts
  <1>2. open_files' \in [Handles -> OpenFile \cup {None}]
    BY <1>1, FieldsType
  <1>3. f \in Files
    BY OpenType
  <1>4. file' \in [Files -> Stored] /\ spoiled' \subseteq Files
    BY <1>1, <1>3, RecordType
  <1> QED
    BY <1>1, <1>2, <1>4 DEF HandlesOK

LEMMA SameCacheOK == ASSUME CacheOK, SameCache PROVE CacheOK'
  BY DEF CacheOK, SameCache, caches

LEMMA WriteInv ==
  ASSUME FlatInv, NEW h \in Handles, NEW o \in 0..MaxLen - 1, Write(h, o)
  PROVE  FlatInv'
  <1>1. /\ Idle /\ InUse(h) /\ IsOpen(h) /\ open_files[h].path \in Files
        /\ open_files[h].buffer \in Contents /\ o \in 0..MaxLen
    BY OpenType, BytesAssumption DEF Write, InUse, FlatInv
  <1>2. CASE ~NeedsRead(h)
    <2>1. /\ Apply(h, o, open_files[h].buffer, ~open_files[h].dirty /\ open_files[h].buffer # file[open_files[h].path])
          /\ UNCHANGED <<reading, call>>
      BY <1>2 DEF Write, NoReading
    <2>2. call' \in Handlers
      BY <2>1 DEF FlatInv, HandlesOK
    <2>3. HandlesOK' /\ SameCache
      BY <1>1, <2>1, <2>2, ApplyType DEF FlatInv
    <2> QED
      BY <1>1, <2>1, <2>3, SameCacheOK, EndInv, IdleIsRest DEF FlatInv
  <1>3. CASE NeedsRead(h)
    BY <1>1, <1>3, StartInv DEF Write, NeedsRead, Awaited
  <1> QED
    BY <1>2, <1>3

LEMMA FilledInv ==
  ASSUME FlatInv, Filled
  PROVE  FlatInv'
  <1>1. /\ call.fh \in Handles /\ IsOpen(call.fh) /\ call.at \in 0..MaxLen - 1
        /\ call' = NoCall /\ reading' = NoRead
    BY DEF Filled, Resumed, ReadDone, FlatInv, CallInv, InUse
  <1> DEFINE base == IF GotRead THEN reading.data ELSE <<>>
  <1>2. base \in Contents
    BY EmptyContent DEF GotRead, FlatInv, ReadOK
  <1>3. Apply(call.fh, call.at, base, ~GotRead)
    BY DEF Filled
  <1> HIDE DEF base
  <1>4. HandlesOK' /\ SameCache
    BY <1>1, <1>2, <1>3, ApplyType, NoCallType DEF FlatInv
  <1> QED
    BY <1>1, <1>4, SameCacheOK, EndInv DEF FlatInv

-----------------------------------------------------------------------------
LEMMA StoreResizedInv ==
  ASSUME FlatInv, NEW f \in Files, NEW n \in 0..MaxLen, NEW data \in Contents,
         StoreResized(f, n, data), reading' = NoRead
  PROVE  FlatInv'
  <1>1. f \in Keys /\ data \in Stored /\ "restat" \in Pcs /\ 0 \in 0..MaxLen
    BY BytesAssumption DEF Keys, Stored, Pcs
  <1>2. PICK ok \in BOOLEAN :
          /\ write(f, data, ok)
          /\ IF ok
             THEN /\ open_files' = [h \in Handles |->
                       IF h \in DirtyOn(f) THEN [open_files[h] EXCEPT !.buffer = Resize(@, n)]
                       ELSE open_files[h]]
                  /\ Record(f, IF file[f] = None THEN None ELSE Resize(file[f], n), Stale(f))
                  /\ Await("restat", None, f, None, 0)
             ELSE Forget /\ call' = NoCall /\ UNCHANGED <<open_files, spoiled>>
    BY DEF StoreResized
  <1>3. CacheOK'
    BY <1>1, <1>2, MutateType DEF write, FlatInv
  <1>4. CASE ok
    <2>1. ASSUME NEW h \in Handles PROVE open_files'[h] \in OpenFile \cup {None}
      <3>1. CASE h \in DirtyOn(f)
        <4>1. open_files[h] \in OpenFile
          BY <3>1, OpenType DEF DirtyOn, On, FlatInv
        <4>2. Resize(open_files[h].buffer, n) \in Contents
          BY <4>1, ResizeContent DEF OpenFile
        <4>3. [open_files[h] EXCEPT !.buffer = Resize(@, n)] \in OpenFile
          BY <4>1, <4>2 DEF OpenFile
        <4> QED
          BY <1>2, <1>4, <3>1, <4>3
      <3>2. CASE h \notin DirtyOn(f)
        BY <1>2, <1>4, <3>2 DEF FlatInv, HandlesOK
      <3> QED
        BY <3>1, <3>2
    <2>2. open_files' \in [Handles -> OpenFile \cup {None}]
      BY <1>2, <1>4, <2>1
    <2>3. (IF file[f] = None THEN None ELSE Resize(file[f], n)) \in Stored
      BY ResizeContent DEF FlatInv, HandlesOK, Stored
    <2>4. file' \in [Files -> Stored] /\ spoiled' \subseteq Files
      BY <1>2, <1>4, <2>3, RecordType DEF FlatInv
    <2>5. call' \in Handlers /\ call'.pc = "restat" /\ call'.key = f
      BY <1>1, <1>2, <1>4, AwaitType
    <2>6. HandlesOK'
      BY <2>2, <2>4, <2>5 DEF StoreResized, FlatInv, HandlesOK
    <2>7. ReadOK' /\ ReadingInv' /\ CallInv'
      BY <2>5, RestIsRead DEF ReadOK, ReadingInv, CallInv, NoRead, Awaited
    <2> QED
      BY <1>3, <2>6, <2>7 DEF FlatInv
  <1>5. CASE ~ok
    <2>1. HandlesOK'
      BY <1>2, <1>5, ForgetType, NoCallType DEF StoreResized, FlatInv, HandlesOK
    <2> QED
      BY <1>2, <1>3, <1>5, <2>1, EndInv
  <1> QED
    BY <1>4, <1>5

LEMMA TruncateInv ==
  ASSUME FlatInv, NEW f \in Files, NEW n \in 0..MaxLen, Truncate(f, n)
  PROVE  FlatInv'
  <1>1. CASE n = 0 /\ StoreResized(f, 0, <<>>) /\ NoReading
    BY <1>1, EmptyContent, StoreResizedInv, IdleIsRest DEF Truncate, NoReading
  <1>2. CASE n > 0 /\ StartRead(f) /\ Await("resize", None, f, None, n)
             /\ SameCache /\ UNCHANGED <<open_files, names, history>>
    BY <1>2, StartInv DEF Truncate, Awaited
  <1> QED
    BY <1>1, <1>2 DEF Truncate

LEMMA ResizedInv ==
  ASSUME FlatInv, Resized
  PROVE  FlatInv'
  <1>1. call.pc = "resize" /\ call.key \in Files /\ call.at \in 0..MaxLen /\ reading' = NoRead
    BY DEF Resized, ReadDone, FlatInv, CallInv, ReadingInv, ReadAnswered, HandlesOK, Handlers
  <1>2. CASE GotRead
    <2>1. Resize(reading.data, call.at) \in Contents
      BY <1>1, <1>2, ResizeContent DEF GotRead, FlatInv, ReadOK
    <2> QED
      BY <1>1, <1>2, <2>1, StoreResizedInv DEF Resized
  <1>3. CASE ~GotRead
    <2>1. CacheOK' /\ HandlesOK' /\ call' = NoCall
      BY <1>3, NoCallType, SameCacheOK DEF Resized, Resumed, history, FlatInv, HandlesOK
    <2> QED
      BY <1>1, <2>1, EndInv
  <1> QED
    BY <1>2, <1>3

-----------------------------------------------------------------------------
\* A request that stores or deletes, and the caches.
LEMMA FlushType ==
  ASSUME FlatInv, NEW h \in Handles, IsOpen(h), NEW ok \in BOOLEAN, flush(h, ok)
  PROVE  CacheOK'
  <1>1. open_files[h].path \in Keys /\ open_files[h].buffer \in Stored
    BY OpenType DEF FlatInv, Keys, Stored
  <1> QED
    BY <1>1, MutateType DEF flush, write, FlatInv

LEMMA FsyncInv ==
  ASSUME FlatInv, NEW h \in Handles, Fsync(h)
  PROVE  FlatInv'
  <1>1. IsOpen(h) /\ open_files[h].buffer \in Contents
    BY OpenType DEF Fsync, InUse, FlatInv
  <1>2. PICK ok \in BOOLEAN :
          flush(h, ok) /\ open_files' = [open_files EXCEPT ![h] = Fields(h, open_files[h].buffer, ~ok, FALSE)]
    BY DEF Fsync
  <1>3. open_files' \in [Handles -> OpenFile \cup {None}]
    <2>1. CASE ok
      BY <1>1, <1>2, <2>1, FieldsType DEF FlatInv
    <2>2. CASE ~ok
      BY <1>1, <1>2, <2>2, FieldsType DEF FlatInv
    <2> QED
      BY <2>1, <2>2
  <1>4. HandlesOK'
    BY <1>3, ForgetType DEF Fsync, Unrecorded, FlatInv, HandlesOK
  <1>5. CacheOK'
    BY <1>1, <1>2, FlushType
  <1> QED
    BY <1>4, <1>5, EndInv, IdleIsRest DEF Fsync, NoReading

LEMMA CloseInv ==
  ASSUME FlatInv, NEW h \in Handles, Close(h)
  PROVE  FlatInv'
  <1>1. IsOpen(h) /\ open_files[h].buffer \in Contents /\ open_files[h].dirty \in BOOLEAN
    BY OpenType DEF Close, InUse, FlatInv
  <1>2. CASE open_files[h].dirty /\ ~Writeback
    <2>1. PICK ok \in BOOLEAN :
            flush(h, ok) /\ open_files' = [open_files EXCEPT ![h] = Fields(h, open_files[h].buffer, ~ok, TRUE)]
      BY <1>2 DEF Close
    <2>3. open_files' \in [Handles -> OpenFile \cup {None}]
      <3>1. CASE ok
        BY <1>1, <2>1, <3>1, FieldsType DEF FlatInv
      <3>2. CASE ~ok
        BY <1>1, <2>1, <3>2, FieldsType DEF FlatInv
      <3> QED
        BY <3>1, <3>2
    <2>4. HandlesOK'
      BY <2>3, ForgetType DEF Close, Unrecorded, FlatInv, HandlesOK
    <2>5. CacheOK'
      BY <1>1, <2>1, FlushType
    <2> QED
      BY <2>4, <2>5, EndInv, IdleIsRest DEF Close, NoReading
  <1>3. CASE ~(open_files[h].dirty /\ ~Writeback)
    <2>1. /\ open_files' = [open_files EXCEPT ![h] = Fields(h, open_files[h].buffer, open_files[h].dirty, TRUE)]
          /\ SameCache
      BY <1>3 DEF Close
    <2>2. open_files' \in [Handles -> OpenFile \cup {None}]
      BY <1>1, <2>1, FieldsType DEF FlatInv
    <2>3. HandlesOK'
      BY <2>2, ForgetType DEF Close, Unrecorded, FlatInv, HandlesOK
    <2> QED
      BY <2>1, <2>3, SameCacheOK, EndInv, IdleIsRest DEF Close, NoReading, FlatInv
  <1> QED
    BY <1>2, <1>3

LEMMA ReleaseInv ==
  ASSUME FlatInv, NEW h \in Handles, Release(h)
  PROVE  FlatInv'
  <1>1. IsOpen(h) /\ open_files[h].path \in Files
    BY OpenType DEF Release, FlatInv
  <1>2. open_files' \in [Handles -> OpenFile \cup {None}]
    BY DEF Release, FlatInv, HandlesOK
  <1>3. CASE open_files[h].dirty
    <2>1. PICK ok \in BOOLEAN :
            flush(h, ok) /\ Record(open_files[h].path, file[open_files[h].path], ~ok)
      BY <1>3 DEF Release
    <2>2. file[open_files[h].path] \in Stored
      BY <1>1 DEF FlatInv, HandlesOK
    <2>3. file' \in [Files -> Stored] /\ spoiled' \subseteq Files
      BY <1>1, <2>1, <2>2, RecordType DEF FlatInv
    <2>4. HandlesOK'
      BY <1>2, <2>3 DEF Release, FlatInv, HandlesOK
    <2>5. CacheOK'
      BY <1>1, <2>1, FlushType
    <2> QED
      BY <2>4, <2>5, EndInv, IdleIsRest DEF Release, NoReading
  <1>4. CASE ~open_files[h].dirty
    <2>1. HandlesOK' /\ SameCache
      BY <1>2, <1>4 DEF Release, FlatInv, HandlesOK
    <2> QED
      BY <2>1, SameCacheOK, EndInv, IdleIsRest DEF Release, NoReading, FlatInv
  <1> QED
    BY <1>3, <1>4

-----------------------------------------------------------------------------
LEMMA GoneType ==
  ASSUME HandlesOK, NEW f \in Files, Gone(f)
  PROVE  file' \in [Files -> Stored] /\ spoiled' \subseteq Files /\ orphans' \subseteq Handles
  <1>1. None \in Stored
    BY DEF Stored
  <1> QED
    BY <1>1, RecordType DEF Gone, HandlesOK, On

LEMMA UnlinkInv ==
  ASSUME FlatInv, NEW f \in Files, Unlink(f)
  PROVE  FlatInv'
  <1>1. PICK ok \in BOOLEAN :
          /\ delete(f, ok)
          /\ IF ok THEN Gone(f) /\ names' = [names EXCEPT ![f] = None]
                   ELSE Forget /\ UNCHANGED <<names, orphans, spoiled>>
    BY DEF Unlink
  <1>2. CacheOK'
    <2>1. f \in Keys /\ None \in Stored
      BY DEF Keys, Stored
    <2> QED
      BY <1>1, <2>1, MutateType DEF delete, FlatInv
  <1>3. HandlesOK'
    BY <1>1, GoneType, ForgetType DEF Unlink, FlatInv, HandlesOK
  <1> QED
    BY <1>2, <1>3, EndInv, IdleIsRest DEF Unlink, NoReading

LEMMA RenameInv ==
  ASSUME FlatInv, NEW f \in Files, NEW g \in Files, Rename(f, g)
  PROVE  FlatInv'
  <1> DEFINE lost == f \in spoiled \cup foreign \/ DirtyOn(f) \cup DirtyOn(g) # {}
  <1>1. PICK ok \in BOOLEAN :
          /\ copy(f, g, ok)
          /\ IF ok
             THEN /\ Await("rename", None, f, g, 0)
                  /\ Record(g, file[f], lost)
                  /\ orphans' = orphans \cup On(g)
             ELSE Forget /\ UNCHANGED <<call, spoiled, orphans>>
    BY DEF Rename
  <1> HIDE DEF lost
  <1>2. CacheOK'
    BY <1>1, CopyType DEF FlatInv
  <1>3. CASE ok
    <2>1. "rename" \in Pcs /\ f \in Keys \cup {None} /\ g \in Files \cup {None} /\ 0 \in 0..MaxLen
      BY BytesAssumption DEF Pcs, Keys
    <2>2. call' \in Handlers /\ call'.pc = "rename" /\ call'.key = f /\ call'.to = g
      BY <1>1, <1>3, <2>1, AwaitType
    <2>3. file[f] \in Stored
      BY DEF FlatInv, HandlesOK
    <2>4. file' \in [Files -> Stored] /\ spoiled' \subseteq Files
      BY <1>1, <1>3, <2>3, RecordType DEF FlatInv
    <2>5. HandlesOK'
      BY <1>1, <1>3, <2>2, <2>4 DEF Rename, FlatInv, HandlesOK, On
    <2>6. reading' = NoRead /\ f # g
      BY IdleIsRest DEF Rename, NoReading
    <2>7. ReadOK' /\ ReadingInv' /\ CallInv'
      BY <2>2, <2>6, RestIsRead DEF ReadOK, ReadingInv, CallInv, NoRead, Awaited
    <2> QED
      BY <1>2, <2>5, <2>7 DEF FlatInv
  <1>4. CASE ~ok
    <2>1. HandlesOK'
      BY <1>1, <1>4, ForgetType DEF Rename, FlatInv, HandlesOK
    <2> QED
      BY <1>1, <1>2, <1>4, <2>1, EndInv, IdleIsRest DEF Rename, NoReading
  <1> QED
    BY <1>3, <1>4

LEMMA RenameDeleteInv ==
  ASSUME FlatInv, RenameDelete
  PROVE  FlatInv'
  <1>1. call.key \in Files /\ call.to \in Files /\ call' = NoCall /\ reading' = NoRead
    BY DEF RenameDelete, Resumed, NoReading, FlatInv, CallInv, ReadingInv, Awaited
  <1>2. PICK ok \in BOOLEAN :
          /\ delete(call.key, ok)
          /\ IF ok
             THEN Gone(call.key) /\ names' = [names EXCEPT ![call.to] = names[call.key], ![call.key] = None]
             ELSE Forget /\ UNCHANGED <<names, orphans, spoiled>>
    BY DEF RenameDelete
  <1>3. CacheOK'
    <2>1. call.key \in Keys /\ None \in Stored
      BY <1>1 DEF Keys, Stored
    <2> QED
      BY <1>2, <2>1, MutateType DEF delete, FlatInv
  <1>4. HandlesOK'
    <2>1. CASE ok
      <3>1. names' \in [Files -> Files \cup {None}]
        BY <1>1, <1>2, <2>1 DEF FlatInv, HandlesOK
      <3> QED
        BY <1>1, <1>2, <2>1, <3>1, GoneType, NoCallType DEF RenameDelete, FlatInv, HandlesOK
    <2>2. CASE ~ok
      BY <1>1, <1>2, <2>2, ForgetType, NoCallType DEF RenameDelete, FlatInv, HandlesOK
    <2> QED
      BY <2>1, <2>2
  <1> QED
    BY <1>1, <1>3, <1>4, EndInv

-----------------------------------------------------------------------------
LEMMA FlatInitInv ==
  ASSUME FlatInit
  PROVE  FlatInv
  <1>1. CacheOK
    BY DEF FlatInit, OpInit, CacheOK, Stored
  <1>2. HandlesOK
    BY NoCallType DEF FlatInit, HandlesOK, Stored
  <1>3. ReadOK /\ ReadingInv /\ CallInv
    BY RestIsRead DEF FlatInit, OpInit, ReadOK, ReadingInv, CallInv, NoRead, NoCall, Awaited
  <1> QED
    BY <1>1, <1>2, <1>3 DEF FlatInv

LEMMA FlatInvNext ==
  ASSUME FlatInv, [FlatNext]_flatVars
  PROVE  FlatInv'
  <1>1. ASSUME NEW k \in Keys, Lookup(k) PROVE FlatInv'
    BY <1>1, LookupInv
  <1>2. ASSUME NEW f \in Files, OfFile(f) PROVE FlatInv'
    BY <1>2, SmallInv, UnlinkInv, KernelDropsInv, TruncateInv, RenameInv, CreateInv, OpenInv DEF OfFile
  <1>3. ASSUME NEW h \in Handles, OfHandle(h) PROVE FlatInv'
    BY <1>3, ReadInv, FsyncInv, CloseInv, ReleaseInv, WriteInv DEF OfHandle
  <1>4. ASSUME NEW d \in Dirs \cup {Root}, OfDir(d) PROVE FlatInv'
    BY <1>4, SmallInv DEF OfDir
  <1>5. CASE Continue
    BY <1>5, LookupListInv, ReadAnswerInv, FilledInv, ResizedInv, SmallInv, RenameDeleteInv DEF Continue
  <1>6. CASE OpStep /\ UNCHANGED <<open_files, call, names>> /\ Unrecorded
    BY <1>6, OpStepInv
  <1>7. CASE UNCHANGED flatVars
    BY <1>7 DEF flatVars, opVars, caches, history, FlatInv, CacheOK, ReadOK, HandlesOK,
                ReadingInv, CallInv, InUse, IsOpen
  <1> QED
    BY <1>1, <1>2, <1>3, <1>4, <1>5, <1>6, <1>7 DEF FlatNext

LEMMA FlatInvAlways == FlatSpec => []FlatInv
  BY FlatInitInv, FlatInvNext, PTL DEF FlatSpec

\* Buffers, caches, calls and answers are of their types: no buffer outgrows what
\* was written to it, though four handlers resize one (vfs.rs:155-181,
\* vfs.rs:191-226); with a call under way comes the read it waits for.
THEOREM FlatTypeCorrect == FlatSpec => []FlatTypeOK
  <1>1. FlatInv => FlatTypeOK
    BY DEF FlatInv, CacheOK, ReadOK, HandlesOK, FlatTypeOK, OpTypeOK
  <1> QED
    BY <1>1, FlatInvAlways, PTL

-----------------------------------------------------------------------------
(* The caches, request by request.                                         *)

StatFresh == \A k \in Keys \ foreign : stat_cache[k] \in {None, object[k]}

\* A cached listing, but for what was written below a directory without a marker.
FreshIn(d) ==
    \A k \in Keys : \/ k \in foreign \/ (k \in Dirs /\ ~Present(k))
                    \/ k \in dir_cache[d] <=> ParentOf[k] = d /\ Present(k)
DirFresh == \A d \in Dirs \cup {Root} : dir_cache[d] # None => FreshIn(d)

LEMMA ListingHas ==
  ASSUME NEW d, NEW k \in Keys, ~(k \in Dirs /\ ~Present(k))
  PROVE  k \in Listing(d) <=> ParentOf[k] = d /\ Present(k)
  <1>1. k \in Files => ~HasChild(k)
    BY KeysAssumption DEF HasChild, Keys
  <1> QED
    BY <1>1 DEF Listing, Keys

LEMMA FreshParts == CachesFresh <=> StatFresh /\ DirFresh
  BY ListingHas DEF CachesFresh, StatFresh, DirFresh, FreshIn

Fresh == ContentFresh /\ StatFresh /\ DirFresh /\ OwnListings

LEMMA FreshAll == CacheInv <=> FlatInv /\ Fresh /\ ReadingFresh
  BY FreshParts DEF CacheInv, Fresh

LEMMA MutateFresh ==
  ASSUME CacheOK, Fresh, NEW k \in Keys, NEW c \in Stored, NEW ok, Mutate(k, c, ok)
  PROVE  Fresh'
  <1>1. CASE UNCHANGED <<object, caches, foreign>>
    BY <1>1 DEF caches, Fresh, ContentFresh, StatFresh, DirFresh, FreshIn, OwnListings, Present
  <1>2. CASE object' = [object EXCEPT ![k] = c] /\ invalidate_path(k) /\ UNCHANGED foreign
    <2>1. object'[k] = c /\ \A j \in Keys \ {k} : object'[j] = object[j]
      BY <1>2 DEF CacheOK
    <2>2. ContentFresh'
      BY <1>2, <2>1 DEF Fresh, ContentFresh, invalidate_path, Keys
    <2>3. StatFresh'
      BY <1>2, <2>1 DEF Fresh, StatFresh, invalidate_path, CacheOK
    <2>4. DirFresh'
      <3> SUFFICES ASSUME NEW d \in Dirs \cup {Root}, dir_cache'[d] # None, NEW j \in Keys,
                          j \notin foreign', ~(j \in Dirs /\ object'[j] = None)
                   PROVE  j \in dir_cache'[d] <=> ParentOf[j] = d /\ object'[j] # None
        BY DEF DirFresh, FreshIn, Present
      <3>1. dir_cache'[d] = dir_cache[d] /\ d # ParentOf[k]
        BY <1>2 DEF invalidate_path, CacheOK
      <3>2. CASE j = k
        BY <3>1, <3>2 DEF Fresh, OwnListings
      <3>3. CASE j # k
        BY <1>2, <2>1, <3>1, <3>3 DEF Fresh, DirFresh, FreshIn, Present
      <3> QED
        BY <3>2, <3>3
    <2>5. OwnListings'
      BY <1>2 DEF Fresh, OwnListings, invalidate_path, CacheOK
    <2> QED
      BY <2>2, <2>3, <2>4, <2>5 DEF Fresh
  <1>3. CASE object' = [object EXCEPT ![k] = c] /\ foreign' = foreign \cup {k} /\ UNCHANGED caches
    BY <1>3 DEF caches, Fresh, ContentFresh, StatFresh, DirFresh, FreshIn, OwnListings, Present, CacheOK, Keys
  <1> QED
    BY <1>1, <1>2, <1>3 DEF Mutate

LEMMA CopyFresh ==
  ASSUME CacheOK, Fresh, NEW f \in Files, NEW g \in Files, NEW ok, copy(f, g, ok)
  PROVE  Fresh'
  <1>1. f \in Keys /\ g \in Keys /\ object[f] \in Stored
    BY DEF CacheOK, Keys
  <1>2. CASE UNCHANGED <<object, caches, foreign>>
    BY <1>2 DEF caches, Fresh, ContentFresh, StatFresh, DirFresh, FreshIn, OwnListings, Present
  <1> QED
    BY <1>1, <1>2, MutateFresh DEF copy

LEMMA StatIsFresh ==
  ASSUME CacheOK, Fresh, NEW k \in Keys, NEW answer, stat(k, answer)
  PROVE  Fresh'
  <1>1. /\ UNCHANGED <<object, content_cache, dir_cache, foreign>>
        /\ stat_cache' = stat_cache \/ stat_cache' = [stat_cache EXCEPT ![k] = object[k]]
    BY DEF stat, Kept
  <1>2. StatFresh'
    BY <1>1 DEF Fresh, StatFresh, CacheOK
  <1> QED
    BY <1>1, <1>2 DEF Fresh, ContentFresh, DirFresh, FreshIn, OwnListings, Present

LEMMA ListIsFresh ==
  ASSUME CacheOK, Fresh, NEW d \in Dirs \cup {Root}, list(d)
  PROVE  Fresh'
  <1>1. /\ UNCHANGED <<object, content_cache, stat_cache, foreign>>
        /\ dir_cache' = dir_cache \/ dir_cache' = [dir_cache EXCEPT ![d] = Listing(d)]
    BY DEF list, Kept
  <1>2. \A e \in (Dirs \cup {Root}) \ {d} : dir_cache'[e] = dir_cache[e]
    BY <1>1 DEF CacheOK
  <1>3. dir_cache'[d] = dir_cache[d] \/ dir_cache'[d] = Listing(d)
    BY <1>1 DEF CacheOK
  <1>4. DirFresh'
    <2> SUFFICES ASSUME NEW e \in Dirs \cup {Root}, dir_cache'[e] # None, NEW k \in Keys,
                        k \notin foreign, ~(k \in Dirs /\ ~Present(k))
                 PROVE  k \in dir_cache'[e] <=> ParentOf[k] = e /\ Present(k)
      BY <1>1 DEF DirFresh, FreshIn, Present
    <2>1. CASE dir_cache'[e] = dir_cache[e]
      BY <2>1 DEF Fresh, DirFresh, FreshIn
    <2>2. CASE e = d /\ dir_cache'[d] = Listing(d)
      BY <2>2, ListingHas
    <2> QED
      BY <1>2, <1>3, <2>1, <2>2
  <1>5. OwnListings'
    <2>1. \A k \in Listing(d) : ParentOf[k] = d
      BY DEF Listing
    <2> QED
      BY <1>2, <1>3, <2>1 DEF Fresh, OwnListings
  <1> QED
    BY <1>1, <1>4, <1>5 DEF Fresh, ContentFresh, StatFresh

LEMMA SameCacheFresh == ASSUME Fresh, SameCache PROVE Fresh'
  BY DEF SameCache, caches, Fresh, ContentFresh, StatFresh, DirFresh, FreshIn, OwnListings, Present

LEMMA OpStepFresh ==
  ASSUME FlatInv, Fresh, OpStep
  PROVE  Fresh'
  <1>1. CASE Validate \/ HeadEtag \/ GetAny
    BY <1>1, SameCacheFresh DEF Validate, HeadEtag, GetAny, SameCache
  <1>2. CASE GetIfMatch
    <2>1. reading.key \in Files
      BY <1>2 DEF GetIfMatch, At, FlatInv, ReadingInv
    <2>2. \/ UNCHANGED content_cache
          \/ content_cache' = [content_cache EXCEPT ![reading.key] =
                                 [data |-> object[reading.key], etag |-> reading.etag]]
      BY <1>2 DEF GetIfMatch
    <2>3. UNCHANGED <<object, stat_cache, dir_cache, foreign>>
      BY <1>2 DEF GetIfMatch
    <2>4. ContentFresh'
      BY <2>1, <2>2, <2>3 DEF Fresh, ContentFresh, FlatInv, CacheOK
    <2> QED
      BY <2>3, <2>4 DEF Fresh, StatFresh, DirFresh, FreshIn, OwnListings, Present
  <1>3. ASSUME NEW k \in Keys \cup {Root}, Expire(k) PROVE Fresh'
    <2>1. UNCHANGED <<object, foreign>>
      BY <1>3 DEF Expire
    <2>2. ContentFresh'
      BY <1>3, <2>1 DEF Expire, Fresh, ContentFresh, FlatInv, CacheOK
    <2>3. StatFresh'
      BY <1>3, <2>1 DEF Expire, Fresh, StatFresh, FlatInv, CacheOK
    <2>4. \A d \in Dirs \cup {Root} : dir_cache'[d] # None => dir_cache'[d] = dir_cache[d]
      BY <1>3 DEF Expire, FlatInv, CacheOK
    <2> QED
      BY <2>1, <2>2, <2>3, <2>4 DEF Fresh, DirFresh, FreshIn, OwnListings, Present
  <1>4. ASSUME NEW k \in Keys, OtherWriter(k) PROVE Fresh'
    <2>1. UNCHANGED caches /\ foreign' = foreign \cup {k} /\ \A j \in Keys \ {k} : object'[j] = object[j]
      BY <1>4 DEF OtherWriter, FlatInv, CacheOK
    <2> QED
      BY <2>1 DEF caches, Fresh, ContentFresh, StatFresh, DirFresh, FreshIn, OwnListings, Present, Keys
  <1> QED
    BY <1>1, <1>2, <1>3, <1>4 DEF OpStep

-----------------------------------------------------------------------------
(* What the cached operator sees of a step.                                *)

\* Nothing is read, and nothing will be; or the reader takes its answer.
Ends == reading' = NoRead /\ (reading = NoRead \/ ReadAnswered)

OpMoves ==
    \/ Ends /\ \E k \in Keys, c \in Stored, ok \in BOOLEAN : Mutate(k, c, ok)
    \/ Ends /\ \E f, g \in Files, ok \in BOOLEAN : copy(f, g, ok)
    \/ Ends /\ \E k \in Keys, answer \in {"ok", "notfound", "err"} : stat(k, answer)
    \/ Ends /\ \E d \in Dirs \cup {Root} : list(d)
    \/ Ends /\ SameCache
    \/ SameCache /\ reading = NoRead /\ \E f \in Files : StartRead(f)
    \/ OpStep
    \/ UNCHANGED opVars

LEMMA IdleEnds == ASSUME FlatInv, Idle, UNCHANGED reading PROVE Ends
  BY IdleIsRest DEF Ends

LEMMA DirMoves ==
  ASSUME FlatInv, NEW d \in Dirs \cup {Root}, OfDir(d)
  PROVE  OpMoves
  <1>1. CASE Readdir(d)
    BY <1>1, IdleEnds DEF Readdir, NoReading, OpMoves
  <1>2. CASE d \in Dirs /\ (Mkdir(d) \/ Rmdir(d))
    <2>1. d \in Keys /\ None \in Stored /\ <<>> \in Stored
      BY <1>2, EmptyContent DEF Keys, Stored
    <2>2. Ends
      BY <1>2, IdleEnds DEF Mkdir, Rmdir, NoReading
    <2>3. \E c \in Stored, ok \in BOOLEAN : Mutate(d, c, ok)
      BY <1>2, <2>1 DEF Mkdir, Rmdir, create_dir, delete
    <2> QED
      BY <2>1, <2>2, <2>3 DEF OpMoves
  <1> QED
    BY <1>1, <1>2 DEF OfDir

LEMMA StoreMoves ==
  ASSUME FlatInv, NEW f \in Files, NEW n, NEW data \in Contents, StoreResized(f, n, data), Ends
  PROVE  OpMoves
  <1>1. f \in Keys /\ data \in Stored
    BY DEF Keys, Stored
  <1> QED
    BY <1>1 DEF StoreResized, write, OpMoves

LEMMA FileMoves ==
  ASSUME FlatInv, NEW f \in Files, OfFile(f)
  PROVE  OpMoves
  <1>1. f \in Keys /\ None \in Stored /\ <<>> \in Stored
    BY EmptyContent DEF Keys, Stored
  <1>2. CASE Getattr(f)
    BY <1>1, <1>2, IdleEnds DEF Getattr, NoReading, OpMoves
  <1>3. CASE Unlink(f)
    BY <1>1, <1>3, IdleEnds DEF Unlink, delete, NoReading, OpMoves
  <1>4. CASE KernelDrops(f)
    BY <1>4 DEF KernelDrops, OpMoves
  <1>5. ASSUME NEW n \in 0..MaxLen, Truncate(f, n) PROVE OpMoves
    <2>1. CASE StoreResized(f, 0, <<>>) /\ NoReading
      BY <1>5, <2>1, EmptyContent, IdleEnds, StoreMoves DEF Truncate, NoReading
    <2>2. CASE StartRead(f) /\ SameCache
      BY <1>5, <2>2, IdleIsRest DEF Truncate, OpMoves
    <2> QED
      BY <1>5, <2>1, <2>2 DEF Truncate
  <1>6. ASSUME NEW g \in Files, Rename(f, g) PROVE OpMoves
    BY <1>6, IdleEnds DEF Rename, NoReading, OpMoves
  <1>7. ASSUME NEW h \in Handles, Create(f, h) PROVE OpMoves
    BY <1>1, <1>7, IdleEnds DEF Create, write, NoReading, OpMoves
  <1>8. ASSUME NEW h \in Handles, Open(f, h) PROVE OpMoves
    BY <1>8 DEF Open, OpMoves
  <1> QED
    BY <1>2, <1>3, <1>4, <1>5, <1>6, <1>7, <1>8 DEF OfFile

LEMMA FlushMoves ==
  ASSUME FlatInv, NEW h \in Handles, IsOpen(h), NEW ok \in BOOLEAN, flush(h, ok), Ends
  PROVE  OpMoves
  <1>1. open_files[h].path \in Keys /\ open_files[h].buffer \in Stored
    BY OpenType DEF FlatInv, Keys, Stored
  <1> QED
    BY <1>1 DEF flush, write, OpMoves

LEMMA HandleMoves ==
  ASSUME FlatInv, NEW h \in Handles, OfHandle(h)
  PROVE  OpMoves
  <1>1. Idle /\ IsOpen(h) /\ open_files[h].path \in Files
    BY OpenType DEF OfHandle, Read, Fsync, Close, Release, Write, InUse, FlatInv
  <1>2. CASE Read(h)
    BY <1>1, <1>2, IdleIsRest DEF Read, OpMoves
  <1>3. CASE Fsync(h)
    BY <1>1, <1>3, IdleEnds, FlushMoves DEF Fsync, NoReading
  <1>4. CASE Close(h)
    BY <1>1, <1>4, IdleEnds, FlushMoves DEF Close, NoReading, OpMoves
  <1>5. CASE Release(h)
    BY <1>1, <1>5, IdleEnds, FlushMoves DEF Release, NoReading, OpMoves
  <1>6. ASSUME NEW o \in 0..MaxLen - 1, Write(h, o) PROVE OpMoves
    <2>1. CASE ~NeedsRead(h)
      BY <1>1, <1>6, <2>1, IdleEnds DEF Write, Apply, NoReading, OpMoves
    <2>2. CASE NeedsRead(h)
      BY <1>1, <1>6, <2>2, IdleIsRest DEF Write, OpMoves
    <2> QED
      BY <2>1, <2>2
  <1> QED
    BY <1>2, <1>3, <1>4, <1>5, <1>6 DEF OfHandle

LEMMA ContinueMoves ==
  ASSUME FlatInv, Continue
  PROVE  OpMoves
  <1> USE DEF Resumed, ReadDone, Awaited
  <1>1. CASE LookupList
    BY <1>1, IdleReads DEF LookupList, NoReading, Ends, OpMoves, FlatInv, CallInv, ReadingInv
  <1>2. CASE ReadAnswer
    BY <1>2 DEF ReadAnswer, Ends, OpMoves
  <1>3. CASE Filled
    BY <1>3 DEF Filled, Apply, Ends, OpMoves
  <1>4. CASE Resized
    <2>1. Ends /\ call.key \in Files /\ call.at \in 0..MaxLen
      BY <1>4 DEF Resized, Ends, ReadAnswered, FlatInv, ReadingInv, HandlesOK, Handlers
    <2>2. CASE GotRead
      <3>1. Resize(reading.data, call.at) \in Contents
        BY <2>1, <2>2, ResizeContent DEF GotRead, FlatInv, ReadOK
      <3> QED
        BY <1>4, <2>1, <2>2, <3>1, StoreMoves DEF Resized
    <2>3. CASE ~GotRead
      BY <1>4, <2>1, <2>3 DEF Resized, OpMoves
    <2> QED
      BY <2>2, <2>3
  <1>5. CASE Restat
    <2>1. call.key \in Keys /\ Ends
      BY <1>5, IdleReads DEF Restat, NoReading, Ends, Keys, FlatInv, CallInv, ReadingInv
    <2> QED
      BY <1>5, <2>1 DEF Restat, OpMoves
  <1>6. CASE RenameDelete
    <2>1. call.key \in Keys /\ None \in Stored /\ Ends
      BY <1>6, IdleReads DEF RenameDelete, NoReading, Ends, Keys, Stored, FlatInv, CallInv, ReadingInv
    <2> QED
      BY <1>6, <2>1 DEF RenameDelete, delete, OpMoves
  <1> QED
    BY <1>1, <1>2, <1>3, <1>4, <1>5, <1>6 DEF Continue

LEMMA NextMoves ==
  ASSUME FlatInv, [FlatNext]_flatVars
  PROVE  OpMoves
  <1>1. ASSUME NEW k \in Keys, Lookup(k) PROVE OpMoves
    BY <1>1, IdleEnds DEF Lookup, NoReading, OpMoves
  <1>2. CASE UNCHANGED flatVars
    BY <1>2 DEF flatVars, OpMoves
  <1> QED
    BY <1>1, <1>2, FileMoves, HandleMoves, DirMoves, ContinueMoves DEF FlatNext, OpMoves

-----------------------------------------------------------------------------
LEMMA StepsTo ==
  ASSUME reading \in Reads, NEW pc \in Steps, NEW x \in Stored
  PROVE  /\ Answer(pc, x) \/ Failed(pc, x) => reading'.pc = pc /\ reading'.data = x
         /\ Goto(pc, x) => reading'.pc = pc /\ reading'.etag = x /\ reading'.data = None
  <1>1. None \in Stored
    BY DEF Stored
  <1>2. /\ Is(Step(pc, None, x), pc, None, x)
        /\ Is([Step(pc, None, x) EXCEPT !.failed = TRUE], pc, None, x)
        /\ Is(Step(pc, x, None), pc, x, None)
    BY <1>1, StepType
  <1>3. Answer(pc, x) \/ Failed(pc, x) => Is(reading', pc, None, x)
    BY <1>2 DEF Answer, Failed
  <1>4. Goto(pc, x) => Is(reading', pc, x, None)
    BY <1>2 DEF Goto
  <1> QED
    BY <1>3, <1>4 DEF Is

LEMMA ForeignGrows ==
  ASSUME FlatInv, OpMoves
  PROVE  foreign \subseteq foreign'
  BY DEF OpMoves, OpStep, Mutate, copy, stat, list, SameCache, opVars, Validate, HeadEtag,
         GetIfMatch, GetAny, Expire, OtherWriter

LEMMA OpFresh ==
  ASSUME FlatInv, Fresh, OpMoves
  PROVE  Fresh'
  <1>1. CASE UNCHANGED opVars
    BY <1>1, SameCacheFresh DEF opVars, SameCache
  <1> QED
    BY <1>1, MutateFresh, CopyFresh, StatIsFresh, ListIsFresh, SameCacheFresh, OpStepFresh
    DEF OpMoves, FlatInv

\* A read that is not of others' keys has in hand what the bucket has: nobody
\* writes while it is under way, and it begins with what is fresh.
LEMMA OpReadingFresh ==
  ASSUME FlatInv, Fresh, ReadingFresh, OpMoves
  PROVE  ReadingFresh'
  <1>1. CASE Ends
    BY <1>1 DEF Ends, NoRead, ReadingFresh
  <1>2. ASSUME NEW f \in Files, StartRead(f), SameCache, reading = NoRead PROVE ReadingFresh'
    <2>1. CASE reading'.pc = "validate"
      <3>1. /\ reading'.key = f /\ content_cache[f] # None
            /\ reading'.data = content_cache[f].data
        BY <1>2, <2>1 DEF StartRead, NoRead
      <3>2. f \notin foreign => content_cache[f].data = object[f]
        BY <3>1 DEF Fresh, ContentFresh
      <3> QED
        BY <1>2, <2>1, <3>1, <3>2 DEF ReadingFresh, SameCache
    <2>2. CASE reading'.pc # "validate"
      <3>1. reading'.pc \in {"getany", "head"}
        BY <1>2, <2>2 DEF StartRead, NoRead
      <3> QED
        BY <3>1 DEF ReadingFresh
    <2> QED
      BY <2>1, <2>2
  <1>3. CASE UNCHANGED <<reading, object, foreign>>
    BY <1>3 DEF ReadingFresh
  <1>4. CASE Validate \/ HeadEtag \/ GetIfMatch \/ GetAny
    <2>1. UNCHANGED <<object, foreign>> /\ reading'.key = reading.key /\ reading.key \in Files
      BY <1>4, ReadStepType DEF FlatInv, ReadingInv, Validate, HeadEtag, GetIfMatch, GetAny, At
    <2>2. reading \in Reads /\ object[reading.key] \in Stored /\ None \in Stored
      BY <2>1 DEF FlatInv, ReadOK, CacheOK, Stored, Keys
    <2>3. CASE Validate
      <3>1. reading.pc = "validate" /\ reading.data \in Stored
        BY <2>2, <2>3 DEF Validate, At, Reads
      <3>2. \/ reading'.pc = "ok" /\ reading'.data = reading.data
            \/ reading'.pc = "head"
        BY <2>2, <2>3, <3>1, StepsTo DEF Validate, Steps
      <3> QED
        BY <2>1, <3>1, <3>2 DEF ReadingFresh
    <2>4. CASE HeadEtag
      <3>1. reading'.pc \in {"get", "getany"}
        BY <2>2, <2>4, StepsTo DEF HeadEtag, Steps
      <3> QED
        BY <3>1 DEF ReadingFresh
    <2>5. CASE GetIfMatch \/ GetAny
      <3>1. \/ reading'.pc \in {"ok", "notfound"} /\ reading'.data = object[reading.key]
               /\ (reading'.pc = "notfound" => object[reading.key] = None)
            \/ reading'.pc \in {"getany", "err"}
        BY <2>2, <2>5, StepsTo DEF GetIfMatch, GetAny, Steps, Present
      <3> QED
        BY <2>1, <3>1 DEF ReadingFresh
    <2> QED
      BY <1>4, <2>3, <2>4, <2>5
  <1>5. ASSUME NEW k \in Keys, OtherWriter(k) PROVE ReadingFresh'
    BY <1>5 DEF OtherWriter, ReadingFresh, FlatInv, CacheOK
  <1> QED
    BY <1>1, <1>2, <1>3, <1>4, <1>5 DEF OpMoves, OpStep, Expire, opVars

LEMMA CacheInvInit ==
  ASSUME FlatInit
  PROVE  CacheInv
  <1>1. Fresh /\ ReadingFresh
    BY DEF FlatInit, OpInit, Fresh, ContentFresh, StatFresh, DirFresh, OwnListings, ReadingFresh, NoRead, Keys
  <1> QED
    BY <1>1, FlatInitInv, FreshAll

LEMMA CacheInvNext ==
  ASSUME CacheInv, [FlatNext]_flatVars
  PROVE  CacheInv'
  <1>1. FlatInv /\ Fresh /\ ReadingFresh /\ OpMoves /\ FlatInv'
    BY FreshAll, NextMoves, FlatInvNext
  <1>2. Fresh' /\ ReadingFresh'
    BY <1>1, OpFresh, OpReadingFresh
  <1>3. (FlatInv /\ Fresh /\ ReadingFresh => CacheInv)'
    BY FreshAll, PTL
  <1> QED
    BY <1>1, <1>2, <1>3

LEMMA CacheInvAlways == FlatSpec => []CacheInv
  BY CacheInvInit, CacheInvNext, PTL DEF FlatSpec

\* What others have not touched is in the stat and listing caches as it is in the
\* bucket, however the mount's own mutations, expiries and failed requests
\* interleave with the requests that fill them (cache.rs:14-16, cache.rs:187).
THEOREM CachesStayFresh == FlatSpec => []CachesFresh
  BY CacheInvAlways, PTL DEF CacheInv

-----------------------------------------------------------------------------
(* The refinement: the reader's part of the state, as ObjectReads has it.  *)

Objects == [f \in Files |-> object[f]]
KeptOf(f) == IF reading.pc = "validate" /\ reading.key = f THEN reading.data
             ELSE IF content_cache[f] = None THEN None ELSE content_cache[f].data
Kepts == [f \in Files |-> KeptOf(f)]
Readers == [key : Files \cup {None}, failed : BOOLEAN, done : BOOLEAN, got : Stored]
Reader == [key |-> reading.key, failed |-> reading.failed, done |-> ReadAnswered,
           got |-> IF ReadAnswered THEN reading.data ELSE None]

LEMMA SameReaders ==
  ASSUME NEW r \in Readers, NEW s \in Readers,
         r.key = s.key, r.failed = s.failed, r.done = s.done, r.got = s.got
  PROVE  r = s
  BY DEF Readers

LEMMA ReaderType ==
  ASSUME reading \in Reads
  PROVE  /\ Reader \in Readers /\ Reader.key = reading.key /\ Reader.failed = reading.failed
         /\ Reader.done = ReadAnswered
         /\ Reader.got = IF ReadAnswered THEN reading.data ELSE None
  BY DEF Reader, Readers, Reads, ReadAnswered, Stored

LEMMA NextReaderType ==
  ASSUME reading' \in Reads
  PROVE  /\ Reader' \in Readers /\ Reader'.key = reading'.key /\ Reader'.failed = reading'.failed
         /\ Reader'.done = ReadAnswered'
         /\ Reader'.got = IF ReadAnswered' THEN reading'.data ELSE None
  BY DEF Reader, Readers, Reads, ReadAnswered, Stored

LEMMA ReaderAtRest == R!Idle \in Readers /\ (reading = NoRead => Reader = R!Idle)
  <1>1. /\ R!Idle \in Readers /\ R!Idle.key = None /\ R!Idle.failed = FALSE /\ R!Idle.done = FALSE
        /\ R!Idle.got = None
    BY DEF R!Idle, Readers, Stored
  <1>2. ASSUME reading = NoRead PROVE Reader = R!Idle
    <2>1. /\ reading.key = None /\ reading.failed = FALSE /\ ReadAnswered = FALSE
      BY <1>2 DEF NoRead, ReadAnswered
    <2> QED
      BY <1>1, <1>2, <2>1, RestIsRead, ReaderType, SameReaders
  <1> QED
    BY <1>1, <1>2

LEMMA ReaderFails ==
  ASSUME NEW r \in Readers
  PROVE  LET s == [r EXCEPT !.failed = TRUE]
         IN s \in Readers /\ s.key = r.key /\ s.failed = TRUE /\ s.done = r.done /\ s.got = r.got
  BY DEF Readers

LEMMA ReaderDone ==
  ASSUME NEW r \in Readers, NEW got \in Stored
  PROVE  /\ LET s == [r EXCEPT !.done = TRUE, !.got = got, !.failed = @ \/ FALSE]
            IN s \in Readers /\ s.key = r.key /\ s.failed = r.failed /\ s.done = TRUE /\ s.got = got
         /\ LET s == [r EXCEPT !.done = TRUE, !.got = got, !.failed = @ \/ TRUE]
            IN s \in Readers /\ s.key = r.key /\ s.failed = TRUE /\ s.done = TRUE /\ s.got = got
  BY DEF Readers

\* While a cached content is validated, nothing else takes its place.
Validates == reading.pc = "validate" /\ content_cache[reading.key] # None =>
                content_cache[reading.key].data = reading.data

LEMMA ValidatesInit == ASSUME FlatInit PROVE Validates
  BY DEF FlatInit, OpInit, NoRead, Validates

LEMMA ValidatesNext ==
  ASSUME FlatInv, Validates, OpMoves
  PROVE  Validates'
  <1>1. CASE Ends
    BY <1>1 DEF Ends, NoRead, Validates
  <1>2. ASSUME NEW f \in Files, StartRead(f), SameCache PROVE Validates'
    <2>1. reading'.pc = "validate" => reading'.key = f /\ reading'.data = content_cache[f].data
      BY <1>2 DEF StartRead, NoRead
    <2> QED
      BY <1>2, <2>1 DEF Validates, SameCache, caches
  <1>3. CASE Validate \/ HeadEtag \/ GetIfMatch \/ GetAny
    <2>1. reading'.pc # "validate"
      <3>1. reading \in Reads /\ reading.key \in Files /\ object[reading.key] \in Stored /\ None \in Stored
            /\ reading.data \in Stored
        BY <1>3 DEF FlatInv, ReadOK, ReadingInv, CacheOK, Stored, Keys, Reads, Validate, HeadEtag,
                    GetIfMatch, GetAny, At
      <3>2. \E pc \in Steps \ {"validate"}, x \in Stored : Answer(pc, x) \/ Failed(pc, x) \/ Goto(pc, x)
        BY <1>3, <3>1 DEF Validate, HeadEtag, GetIfMatch, GetAny, Steps
      <3> QED
        BY <3>1, <3>2, StepsTo
    <2> QED
      BY <2>1 DEF Validates
  <1>4. ASSUME NEW k \in Keys \cup {Root}, Expire(k) PROVE Validates'
    BY <1>4 DEF Expire, Validates, FlatInv, CacheOK, ReadingInv
  <1>5. CASE UNCHANGED <<reading, content_cache>>
    BY <1>5 DEF Validates
  <1> QED
    BY <1>1, <1>2, <1>3, <1>4, <1>5 DEF OpMoves, OpStep, OtherWriter, opVars, caches

-----------------------------------------------------------------------------
\* What is kept stays, or one answer is dropped.
LEMMA KeptDropped ==
  ASSUME NEW k, \/ \A f \in Files : KeptOf(f)' = KeptOf(f)
                \/ k \in Files /\ KeptOf(k)' = None /\ \A f \in Files \ {k} : KeptOf(f)' = KeptOf(f)
  PROVE  R!Dropped
  <1>1. CASE \A f \in Files : KeptOf(f)' = KeptOf(f)
    <2>1. Kepts' = Kepts
      BY <1>1 DEF Kepts
    <2> QED
      BY <2>1 DEF R!Dropped, Kepts, KeptOf
  <1>2. CASE k \in Files /\ KeptOf(k)' = None /\ \A f \in Files \ {k} : KeptOf(f)' = KeptOf(f)
    <2>1. Kepts' = [Kepts EXCEPT ![k] = None]
      BY <1>2 DEF Kepts
    <2> QED
      BY <1>2, <2>1 DEF R!Dropped, Kepts, KeptOf
  <1> QED
    BY <1>1, <1>2

LEMMA KeptCurrent ==
  ASSUME NEW k \in Files, KeptOf(k)' = object[k], \A f \in Files \ {k} : KeptOf(f)' = KeptOf(f)
  PROVE  Kepts' = [Kepts EXCEPT ![k] = Objects[k]]
  BY DEF Kepts, Objects

\* A mutation, whether it succeeds or not, changes objects and drops what is kept.
LEMMA MutateDrops ==
  ASSUME FlatInv, Ends, NEW k \in Keys, NEW c \in Stored, NEW ok, Mutate(k, c, ok)
  PROVE  R!Dropped
  <1>1. reading.pc # "validate" /\ reading'.pc # "validate"
    BY DEF Ends, NoRead, ReadAnswered
  <1>2. CASE UNCHANGED caches
    <2>1. \A f \in Files : KeptOf(f)' = KeptOf(f)
      BY <1>1, <1>2 DEF KeptOf, caches
    <2> QED
      BY <2>1, KeptDropped
  <1>3. CASE invalidate_path(k)
    <2>1. \A f \in Files \ {k} : KeptOf(f)' = KeptOf(f)
      BY <1>1, <1>3 DEF KeptOf, invalidate_path
    <2>2. k \in Files => KeptOf(k)' = None
      BY <1>1, <1>3 DEF KeptOf, invalidate_path
    <2>3. k \notin Files => \A f \in Files : KeptOf(f)' = KeptOf(f)
      BY <2>1
    <2> QED
      BY <2>1, <2>2, <2>3, KeptDropped
  <1> QED
    BY <1>2, <1>3 DEF Mutate

LEMMA EndsChange ==
  ASSUME FlatInv, Ends, R!Dropped
  PROVE  R!Change
  <1>1. CASE reading = NoRead
    <2>1. Reader' = Reader
      BY <1>1 DEF Ends, Reader, ReadAnswered
    <2> QED
      BY <2>1 DEF R!Change, Reader
  <1>2. CASE ReadAnswered
    <2>1. Reader.done
      BY <1>2 DEF Reader
    <2>2. (reading = NoRead => Reader = R!Idle)'
      BY ReaderAtRest, PTL
    <2>3. Reader' = R!Idle
      BY <2>2 DEF Ends
    <2> QED
      BY <2>1, <2>3 DEF R!Change, Reader
  <1> QED
    BY <1>1, <1>2 DEF Ends

LEMMA StartAsks ==
  ASSUME FlatInv, NEW f \in Files, StartRead(f), SameCache, reading = NoRead
  PROVE  R!Ask(f)
  <1>1. reading'.pc \in {"validate", "head", "getany"} /\ reading'.key = f /\ reading'.failed = FALSE
        /\ (reading'.pc = "validate" => content_cache[f] # None /\ reading'.data = content_cache[f].data)
    BY DEF StartRead, NoRead
  <1>2. Reader = R!Idle
    BY ReaderAtRest
  <1>3. Reader' = [R!Idle EXCEPT !.key = f]
    <2>1. /\ Reader' \in Readers /\ Reader'.key = f /\ Reader'.failed = FALSE
          /\ Reader'.done = FALSE /\ Reader'.got = None
      <3>1. reading' \in Reads /\ ReadAnswered' = FALSE
        BY <1>1, StartReadType DEF ReadAnswered, FlatInv, ReadOK
      <3> QED
        BY <1>1, <3>1, NextReaderType
    <2>2. R!Idle \in Readers
      BY ReaderAtRest
    <2>3. ASSUME NEW r \in Readers
          PROVE  LET s == [r EXCEPT !.key = f]
                 IN s \in Readers /\ s.key = f /\ s.failed = r.failed /\ s.done = r.done /\ s.got = r.got
      BY DEF Readers
    <2>4. R!Idle.failed = FALSE /\ R!Idle.done = FALSE /\ R!Idle.got = None
      BY DEF R!Idle
    <2> DEFINE asked == [R!Idle EXCEPT !.key = f]
    <2>5. /\ asked \in Readers /\ asked.key = f /\ asked.failed = FALSE /\ asked.done = FALSE
          /\ asked.got = None
      BY <2>2, <2>3, <2>4
    <2> HIDE DEF asked
    <2>6. Reader' = asked
      BY <2>1, <2>5, SameReaders
    <2> QED
      BY <2>6 DEF asked
  <1>4. UNCHANGED <<Objects, Kepts>>
    <2>1. \A g \in Files : KeptOf(g)' = KeptOf(g)
      BY <1>1 DEF KeptOf, SameCache, caches, NoRead
    <2> QED
      BY <2>1 DEF Objects, Kepts, SameCache
  <1> QED
    BY <1>2, <1>3, <1>4 DEF R!Ask, Reader, Objects, Kepts, KeptOf

-----------------------------------------------------------------------------
\* What the steps of a read do to the reader.
LEMMA ReaderSteps ==
  ASSUME reading \in Reads, ~ReadAnswered, NEW pc \in Steps, NEW x \in Stored
  PROVE  /\ pc \in {"ok", "notfound", "err"} /\ Answer(pc, x) => R!Answer(x, FALSE)
         /\ pc \in {"ok", "notfound", "err"} /\ Failed(pc, x) => R!Answer(x, TRUE)
         /\ pc \notin {"ok", "notfound", "err"} /\ Failed(pc, x) => Reader' = [Reader EXCEPT !.failed = TRUE]
         /\ pc \notin {"ok", "notfound", "err"} /\ Goto(pc, x) => Reader' = Reader
  <1>1. /\ Reader \in Readers /\ Reader.key = reading.key /\ Reader.failed = reading.failed
        /\ Reader.done = FALSE /\ Reader.got = None /\ None \in Stored
    BY ReaderType DEF Stored
  <1>2. ASSUME NEW r \in Reads, reading' = r, r.key = reading.key
        PROVE  /\ Reader' \in Readers /\ Reader'.key = reading.key /\ Reader'.failed = r.failed
               /\ r.pc \in {"ok", "notfound", "err"} => Reader'.done = TRUE /\ Reader'.got = r.data
               /\ r.pc \notin {"ok", "notfound", "err"} => Reader'.done = FALSE /\ Reader'.got = None
    <2>1. /\ Reader' \in Readers /\ Reader'.key = reading'.key /\ Reader'.failed = reading'.failed
          /\ Reader'.done = ReadAnswered'
          /\ Reader'.got = IF ReadAnswered' THEN reading'.data ELSE None
      BY <1>2, NextReaderType
    <2>2. /\ r.pc \in {"ok", "notfound", "err"} => ReadAnswered'
          /\ r.pc \notin {"ok", "notfound", "err"} => ~ReadAnswered'
      BY <1>2 DEF ReadAnswered
    <2>3. CASE r.pc \in {"ok", "notfound", "err"}
      <3>1. ReadAnswered' = TRUE
        BY <2>2, <2>3
      <3> QED
        BY <1>2, <2>1, <2>3, <3>1
    <2>4. CASE r.pc \notin {"ok", "notfound", "err"}
      <3>1. ReadAnswered' = FALSE
        BY <2>2, <2>4
      <3> QED
        BY <1>2, <2>1, <2>4, <3>1
    <2> QED
      BY <2>3, <2>4
  <1> DEFINE failed == [Step(pc, None, x) EXCEPT !.failed = TRUE]
  <1>3. /\ Is(Step(pc, None, x), pc, None, x) /\ Step(pc, None, x).failed = reading.failed
        /\ Is(Step(pc, x, None), pc, x, None) /\ Step(pc, x, None).failed = reading.failed
        /\ Is(failed, pc, None, x) /\ failed.failed = TRUE
    BY <1>1, StepType
  <1>4. Failed(pc, x) => reading' = failed
    BY DEF Failed
  <1> HIDE DEF failed
  <1>5. ASSUME pc \in {"ok", "notfound", "err"} /\ Answer(pc, x) PROVE R!Answer(x, FALSE)
    <2>1. /\ Reader' \in Readers /\ Reader'.key = reading.key /\ Reader'.failed = reading.failed
          /\ Reader'.done = TRUE /\ Reader'.got = x
      BY <1>2, <1>3, <1>5 DEF Answer, Is
    <2> DEFINE s == [Reader EXCEPT !.done = TRUE, !.got = x, !.failed = @ \/ FALSE]
    <2>2. s \in Readers /\ s.key = reading.key /\ s.failed = reading.failed /\ s.done = TRUE /\ s.got = x
      BY <1>1, ReaderDone
    <2> HIDE DEF s
    <2>3. Reader' = s
      BY <2>1, <2>2, SameReaders
    <2> QED
      BY <2>3 DEF s, R!Answer, Reader
  <1>6. ASSUME pc \in {"ok", "notfound", "err"} /\ Failed(pc, x) PROVE R!Answer(x, TRUE)
    <2>1. /\ Reader' \in Readers /\ Reader'.key = reading.key /\ Reader'.failed = TRUE
          /\ Reader'.done = TRUE /\ Reader'.got = x
      BY <1>2, <1>3, <1>4, <1>6 DEF Is
    <2> DEFINE s == [Reader EXCEPT !.done = TRUE, !.got = x, !.failed = @ \/ TRUE]
    <2>2. s \in Readers /\ s.key = reading.key /\ s.failed = TRUE /\ s.done = TRUE /\ s.got = x
      BY <1>1, ReaderDone
    <2> HIDE DEF s
    <2>3. Reader' = s
      BY <2>1, <2>2, SameReaders
    <2> QED
      BY <2>3 DEF s, R!Answer, Reader
  <1>7. ASSUME pc \notin {"ok", "notfound", "err"} /\ Failed(pc, x)
        PROVE  Reader' = [Reader EXCEPT !.failed = TRUE]
    <2>1. /\ Reader' \in Readers /\ Reader'.key = reading.key /\ Reader'.failed = TRUE
          /\ Reader'.done = FALSE /\ Reader'.got = None
      BY <1>2, <1>3, <1>4, <1>7 DEF Is
    <2> DEFINE s == [Reader EXCEPT !.failed = TRUE]
    <2>2. s \in Readers /\ s.key = reading.key /\ s.failed = TRUE /\ s.done = FALSE /\ s.got = None
      BY <1>1, ReaderFails
    <2> HIDE DEF s
    <2>3. Reader' = s
      BY <2>1, <2>2, SameReaders
    <2> QED
      BY <2>3 DEF s
  <1>8. ASSUME pc \notin {"ok", "notfound", "err"} /\ Goto(pc, x) PROVE Reader' = Reader
    <2>1. /\ Reader' \in Readers /\ Reader'.key = reading.key /\ Reader'.failed = reading.failed
          /\ Reader'.done = FALSE /\ Reader'.got = None
      BY <1>2, <1>3, <1>8 DEF Goto, Is
    <2> QED
      BY <1>1, <2>1, SameReaders
  <1> QED
    BY <1>5, <1>6, <1>7, <1>8

\* What a reader that awaits an answer may do, in the terms of the mapping.
LEMMA ReaderMoves ==
  ASSUME reading \in Reads, reading.key \in Files, ~ReadAnswered, UNCHANGED object
  PROVE  /\ R!Dropped /\ R!Answer(object[reading.key], FALSE) => R!ReadNext
         /\ Kepts' = [Kepts EXCEPT ![reading.key] = Objects[reading.key]]
              /\ R!Answer(object[reading.key], FALSE) => R!ReadNext
         /\ R!Dropped /\ KeptOf(reading.key) # None /\ R!Answer(KeptOf(reading.key), TRUE) => R!ReadNext
         /\ R!Dropped /\ Reader' = [Reader EXCEPT !.failed = TRUE] => R!ReadNext
         /\ Kepts' = Kepts /\ R!Answer(None, TRUE) => R!ReadNext
         /\ R!Dropped /\ Reader' = Reader => R!ReadNext
  <1>1. Reader.key = reading.key /\ Reader.done = FALSE
    BY ReaderType
  <1>2. R!Pending
    BY <1>1, NoneIsNoContent DEF R!Pending, Reader, Keys
  <1>3. Objects' = Objects /\ Objects[Reader.key] = object[reading.key]
    BY <1>1 DEF Objects
  <1>4. Kepts[Reader.key] = KeptOf(reading.key)
    BY <1>1 DEF Kepts
  <1>5. R!Dropped /\ R!Answer(object[reading.key], FALSE) => R!AnswerCurrent
    BY <1>2, <1>3 DEF R!AnswerCurrent, Objects, Reader
  <1>6. Kepts' = [Kepts EXCEPT ![reading.key] = Objects[reading.key]]
          /\ R!Answer(object[reading.key], FALSE) => R!AnswerCurrent
    <2>1. Kepts' = [Kepts EXCEPT ![reading.key] = Objects[reading.key]]
            => Kepts' = [Kepts EXCEPT ![Reader.key] = Objects[Reader.key]]
      BY <1>1
    <2> QED
      BY <1>2, <1>3, <2>1 DEF R!AnswerCurrent, Objects, Reader, Kepts, KeptOf
  <1>7. R!Dropped /\ KeptOf(reading.key) # None /\ R!Answer(KeptOf(reading.key), TRUE) => R!AnswerKept
    BY <1>2, <1>3, <1>4 DEF R!AnswerKept, Objects, Reader, Kepts, KeptOf
  <1>8. R!Dropped /\ Reader' = [Reader EXCEPT !.failed = TRUE] => R!Fail
    BY <1>2, <1>3 DEF R!Fail, Objects, Reader
  <1>9. Kepts' = Kepts /\ R!Answer(None, TRUE) => R!Refuse
    BY <1>2, <1>3 DEF R!Refuse, Objects, Reader, Kepts, KeptOf
  <1>10. R!Dropped /\ Reader' = Reader => R!Change
    BY DEF R!Change, Reader
  <1> QED
    BY <1>5, <1>6, <1>7, <1>8, <1>9, <1>10 DEF R!ReadNext

LEMMA ReadStepMaps ==
  ASSUME FlatInv, Validates, Validate \/ HeadEtag \/ GetIfMatch \/ GetAny
  PROVE  R!ReadNext
  <1>0. PICK k \in Files : k = reading.key /\ k = reading'.key
    <2>1. reading.key \in Files
      BY DEF FlatInv, ReadingInv, Validate, HeadEtag, GetIfMatch, GetAny, At
    <2> QED
      BY <2>1, ReadStepType DEF FlatInv
  <1>1. /\ reading \in Reads /\ reading.key \in Files /\ ~ReadAnswered /\ UNCHANGED object
        /\ object[reading.key] \in Stored /\ None \in Stored /\ reading.data \in Stored
        /\ reading.etag \in Stored
    BY DEF FlatInv, ReadOK, ReadingInv, CacheOK, Stored, Keys, Reads, Validate, HeadEtag,
           GetIfMatch, GetAny, At, ReadAnswered
  <1>2. Validates' /\ reading'.pc # "validate"
    <2>1. \E pc \in Steps \ {"validate"}, x \in Stored : Answer(pc, x) \/ Failed(pc, x) \/ Goto(pc, x)
      <3>1. {"head", "get", "getany", "ok", "notfound", "err"} \subseteq Steps \ {"validate"}
        BY DEF Steps
      <3>2. CASE Validate
        BY <1>1, <3>1, <3>2 DEF Validate
      <3>3. CASE HeadEtag
        BY <1>1, <3>1, <3>3 DEF HeadEtag
      <3>4. CASE GetIfMatch
        BY <1>1, <3>1, <3>4 DEF GetIfMatch
      <3>5. CASE GetAny
        BY <1>1, <3>1, <3>5 DEF GetAny
      <3> QED
        BY <3>2, <3>3, <3>4, <3>5
    <2>2. reading'.pc # "validate"
      <3>1. PICK pc \in Steps \ {"validate"}, x \in Stored : Answer(pc, x) \/ Failed(pc, x) \/ Goto(pc, x)
        BY <2>1
      <3>2. reading'.pc = pc
        BY <1>1, <3>1, StepsTo
      <3> QED
        BY <3>2
    <2> QED
      BY <2>2 DEF Validates
  <1>3. \A f \in Files \ {reading.key} : content_cache'[f] = content_cache[f] => KeptOf(f)' = KeptOf(f)
    BY <1>2 DEF KeptOf
  <1>4. CASE Validate
    <2>1. /\ reading.pc = "validate" /\ UNCHANGED content_cache
          /\ reading.data = reading.etag /\ reading.data \in Contents
      BY <1>4 DEF Validate, At, caches, FlatInv, ReadOK
    <2>2. KeptOf(reading.key) = reading.data /\ reading.data # None
      BY <2>1, NoneIsNoContent DEF KeptOf
    <2>3. KeptOf(k)' = None \/ KeptOf(k)' = KeptOf(k)
      BY <1>0, <1>2, <2>1, <2>2 DEF KeptOf, Validates
    <2>4. R!Dropped
      <3>1. \A f \in Files \ {k} : KeptOf(f)' = KeptOf(f)
        BY <1>0, <1>3, <2>1
      <3> QED
        BY <2>3, <3>1, KeptDropped
    <2>5. \/ Answer("ok", object[reading.key]) \/ Goto("head", None)
          \/ Failed("ok", KeptOf(reading.key)) \/ Failed("head", None)
      BY <1>4, <2>1, <2>2 DEF Validate
    <2>6. \/ R!Answer(object[reading.key], FALSE) \/ R!Answer(KeptOf(reading.key), TRUE)
          \/ Reader' = Reader \/ Reader' = [Reader EXCEPT !.failed = TRUE]
      BY <1>1, <2>2, <2>5, ReaderSteps DEF Steps
    <2> QED
      BY <1>1, <2>2, <2>4, <2>6, ReaderMoves
  <1>5. CASE HeadEtag \/ GetAny \/ (GetIfMatch /\ UNCHANGED content_cache)
    <2>1. reading.pc # "validate" /\ UNCHANGED content_cache
      BY <1>5 DEF HeadEtag, GetAny, GetIfMatch, At, caches
    <2>2. \A f \in Files : KeptOf(f)' = KeptOf(f)
      BY <1>2, <2>1 DEF KeptOf
    <2>3. R!Dropped /\ Kepts' = Kepts
      BY <2>2, KeptDropped DEF Kepts
    <2>4. \/ \E x \in Stored : Goto("get", x) \/ Goto("getany", x)
          \/ Failed("getany", None) \/ Failed("err", None)
          \/ Answer("ok", object[reading.key]) \/ Answer("notfound", object[reading.key])
      BY <1>1, <1>5 DEF HeadEtag, GetAny, GetIfMatch
    <2>5. \/ Reader' = Reader \/ Reader' = [Reader EXCEPT !.failed = TRUE]
          \/ R!Answer(None, TRUE) \/ R!Answer(object[reading.key], FALSE)
      BY <1>1, <2>4, ReaderSteps DEF Steps
    <2> QED
      BY <1>1, <2>3, <2>5, ReaderMoves
  <1>6. CASE GetIfMatch /\ ~UNCHANGED content_cache
    <2>1. /\ reading.pc # "validate" /\ Answer("ok", object[reading.key])
          /\ content_cache' = [content_cache EXCEPT ![reading.key] =
                                 [data |-> object[reading.key], etag |-> reading.etag]]
          /\ object[reading.key] = reading.etag /\ reading.etag # None
      BY <1>6, NoneIsNoContent DEF GetIfMatch, At, FlatInv, ReadOK
    <2>2. \A f \in Files \ {reading.key} : KeptOf(f)' = KeptOf(f)
      BY <1>3, <2>1 DEF FlatInv, CacheOK
    <2>3. KeptOf(k)' = object[k]
      <3>1. content_cache' \in [Files -> Cached \cup {None}]
        BY <1>1, <2>1, ReadStepType, <1>6 DEF CacheOK, FlatInv
      <3>2. /\ content_cache'[reading.key] = [data |-> object[reading.key], etag |-> reading.etag]
            /\ content_cache'[reading.key] # None
        <4>1. [data |-> object[reading.key], etag |-> reading.etag] \in Cached
          BY <2>1, <1>6 DEF Cached, GetIfMatch, At, FlatInv, ReadOK
        <4> QED
          BY <1>1, <2>1, <4>1, NoneAssumption DEF FlatInv, CacheOK
      <3> QED
        BY <1>0, <1>2, <3>2 DEF KeptOf
    <2>4. Kepts' = [Kepts EXCEPT ![reading.key] = Objects[reading.key]]
      BY <1>0, <1>1, <2>2, <2>3, KeptCurrent
    <2>5. R!Answer(object[reading.key], FALSE)
      BY <1>1, <2>1, ReaderSteps DEF Steps
    <2> QED
      BY <1>1, <2>4, <2>5, ReaderMoves
  <1> QED
    BY <1>4, <1>5, <1>6

LEMMA ReaderNextMaps ==
  ASSUME FlatInv, Validates, OpMoves
  PROVE  [R!ReadNext]_(R!readVars)
  <1>1. ASSUME Ends, R!Dropped PROVE R!ReadNext
    BY <1>1, EndsChange DEF R!ReadNext
  <1>2. ASSUME NEW k \in Keys, NEW c \in Stored, NEW ok, Mutate(k, c, ok), Ends PROVE R!ReadNext
    BY <1>1, <1>2, MutateDrops
  <1>3. ASSUME Ends, UNCHANGED content_cache PROVE R!ReadNext
    <2>1. reading.pc # "validate" /\ reading'.pc # "validate"
      BY <1>3 DEF Ends, NoRead, ReadAnswered
    <2>2. \A f \in Files : KeptOf(f)' = KeptOf(f)
      BY <1>3, <2>1 DEF KeptOf
    <2> QED
      BY <1>1, <1>3, <2>2, KeptDropped
  <1>4. ASSUME NEW f \in Files, NEW g \in Files, NEW ok \in BOOLEAN, copy(f, g, ok), Ends PROVE R!ReadNext
    <2>1. g \in Keys /\ object[f] \in Stored
      BY DEF FlatInv, CacheOK, Keys
    <2> QED
      BY <1>2, <1>3, <1>4, <2>1 DEF copy, caches
  <1>5. ASSUME NEW f \in Files, StartRead(f), SameCache, reading = NoRead PROVE R!ReadNext
    BY <1>5, StartAsks DEF R!ReadNext
  <1>6. ASSUME NEW k \in Keys \cup {Root}, Expire(k) PROVE R!ReadNext
    <2>1. UNCHANGED reading
      BY <1>6 DEF Expire
    <2>2. ASSUME UNCHANGED content_cache PROVE R!Dropped
      <3>1. \A f \in Files : KeptOf(f)' = KeptOf(f)
        BY <2>1, <2>2 DEF KeptOf
      <3> QED
        BY <3>1, KeptDropped
    <2>3. ASSUME k \in Files /\ content_cache' = [content_cache EXCEPT ![k] = None]
          PROVE  R!Dropped
      <3>1. \A f \in Files \ {k} : KeptOf(f)' = KeptOf(f)
        BY <2>1, <2>3 DEF KeptOf
      <3>2. KeptOf(k)' = None \/ KeptOf(k)' = KeptOf(k)
        BY <2>1, <2>3 DEF KeptOf, FlatInv, CacheOK
      <3>3. CASE KeptOf(k)' = None
        BY <2>3, <3>1, <3>3, KeptDropped
      <3>4. CASE KeptOf(k)' = KeptOf(k)
        <4>1. \A f \in Files : KeptOf(f)' = KeptOf(f)
          BY <3>1, <3>4
        <4> QED
          BY <4>1, KeptDropped
      <3> QED
        BY <3>2, <3>3, <3>4
    <2>4. R!Dropped
      BY <1>6, <2>2, <2>3 DEF Expire
    <2>5. Reader' = Reader
      BY <2>1 DEF Reader, ReadAnswered
    <2> QED
      BY <2>4, <2>5 DEF R!ReadNext, R!Change, Reader
  <1>7. ASSUME NEW k \in Keys, OtherWriter(k) PROVE R!ReadNext
    <2>1. UNCHANGED <<reading, content_cache>>
      BY <1>7 DEF OtherWriter, caches
    <2>2. R!Dropped
      BY <2>1, KeptDropped DEF KeptOf
    <2>3. Reader' = Reader
      BY <2>1 DEF Reader, ReadAnswered
    <2> QED
      BY <2>2, <2>3 DEF R!ReadNext, R!Change, Reader
  <1>8. CASE UNCHANGED opVars
    <2>1. UNCHANGED <<Objects, Kepts, Reader>>
      BY <1>8 DEF opVars, caches, Objects, Kepts, KeptOf, Reader, ReadAnswered
    <2> QED
      BY <2>1 DEF R!readVars, Objects, Kepts, KeptOf, Reader
  <1> QED
    BY <1>2, <1>3, <1>4, <1>5, <1>6, <1>7, <1>8, ReadStepMaps
    DEF OpMoves, OpStep, stat, list, SameCache, caches

LEMMA ReaderInitMaps ==
  ASSUME FlatInit
  PROVE  R!ReadInit
  <1>1. Objects \in [Files -> Contents \cup {None}]
    BY FlatInitInv DEF FlatInv, CacheOK, Objects, Stored, Keys
  <1>2. Kepts = [f \in Files |-> None]
    BY DEF FlatInit, OpInit, NoRead, Kepts, KeptOf
  <1>3. Reader = R!Idle
    BY ReaderAtRest DEF FlatInit, OpInit
  <1> QED
    BY <1>1, <1>2, <1>3 DEF R!ReadInit, Objects, Kepts, KeptOf, Reader

\* The cache implements ObjectReads: whoever writes, whatever fails or expires
\* between the HEAD and the GET, a read answers with a content of one moment of
\* the read or, a request having failed, one an earlier read answered with
\* (cache.rs:63-111).
THEOREM ReadsImplement == FlatSpec => ReadsRefined
  <1>1. FlatInit => FlatInv /\ Validates /\ R!ReadInit
    BY FlatInitInv, ValidatesInit, ReaderInitMaps
  <1>2. FlatInv /\ Validates /\ [FlatNext]_flatVars => (FlatInv /\ Validates)' /\ [R!ReadNext]_(R!readVars)
    BY FlatInvNext, NextMoves, ValidatesNext, ReaderNextMaps
  <1> QED
    BY <1>1, <1>2, PTL DEF FlatSpec, ReadsRefined, R!ReadSpec

=============================================================================
