----------------------------- MODULE ObjectReads -----------------------------
(***************************************************************************)
(* What reading through the flat mode's cache promises: a read answers     *)
(* with the content the object has at one moment of the read, or, only if  *)
(* a request to the store failed meanwhile, with one that an earlier read  *)
(* of the same object answered.  Anybody may change objects at any time.   *)
(***************************************************************************)
CONSTANTS
    Keys, Values,
    None       \* no object, no key

VARIABLES
    object,    \* the bucket
    kept,      \* per key, an answer that may be given again
    read       \* the read under way: its key, whether a request failed, its answer

readVars == <<object, kept, read>>

Idle == [key |-> None, failed |-> FALSE, done |-> FALSE, got |-> None]

ReadInit ==
    /\ object \in [Keys -> Values \cup {None}]
    /\ kept = [k \in Keys |-> None]
    /\ read = Idle

Pending == read.key # None /\ ~read.done
Answer(got, failed) ==
    read' = [read EXCEPT !.done = TRUE, !.got = got, !.failed = @ \/ failed]

\* An answer kept may be dropped at any time.
Dropped == kept' = kept \/ \E k \in Keys : kept' = [kept EXCEPT ![k] = None]

\* Objects change, to whatever others make them; or the reader takes its answer
\* and changes some.
Change ==
    /\ Dropped
    /\ UNCHANGED read \/ (read.done /\ read' = Idle)

Ask(k) ==
    /\ read = Idle /\ read' = [Idle EXCEPT !.key = k]
    /\ UNCHANGED <<object, kept>>

Fail == Pending /\ read' = [read EXCEPT !.failed = TRUE] /\ Dropped /\ UNCHANGED object

AnswerCurrent ==
    /\ Pending /\ Answer(object[read.key], FALSE) /\ UNCHANGED object
    /\ Dropped \/ kept' = [kept EXCEPT ![read.key] = object[read.key]]

AnswerKept ==
    /\ Pending /\ kept[read.key] # None /\ Answer(kept[read.key], TRUE)
    /\ Dropped /\ UNCHANGED object

Refuse == Pending /\ Answer(None, TRUE) /\ UNCHANGED <<object, kept>>

ReadNext ==
    \/ Change \/ Fail \/ AnswerCurrent \/ AnswerKept \/ Refuse
    \/ \E k \in Keys : Ask(k)

ReadSpec == ReadInit /\ [][ReadNext]_readVars
=============================================================================
