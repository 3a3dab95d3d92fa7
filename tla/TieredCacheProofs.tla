------------------------- MODULE TieredCacheProofs -------------------------
EXTENDS TieredCache, TLAPS

LEMMA IdleType == Idle \in TaskStates
  <1>1. NoBatch \in [Slices -> {"none", "putting", "stored", "failed"}]
    BY DEF NoBatch
  <1> QED
    BY <1>1 DEF Idle, TaskStates, Locations, Results

LEMMA TypeInit == Init => TypeOK
  <1> SUFFICES ASSUME Init PROVE TypeOK
    OBVIOUS
  <1>1. task \in [Tasks -> TaskStates]
    BY IdleType DEF Init
  <1> QED
    BY <1>1 DEF Init, TypeOK, Nothing, Copies

\* A task moves to a well-typed state.
LEMMA BecomeType ==
  ASSUME task \in [Tasks -> TaskStates], NEW t \in Tasks, NEW new \in TaskStates,
         Become(t, new)
  PROVE  task' \in [Tasks -> TaskStates]
  BY DEF Become

\* A task that has a slice may go anywhere; one that has none, to "idle",
\* "drain", "flush" or "clear".
LEMMA GotoType ==
  ASSUME task \in [Tasks -> TaskStates], NEW t \in Tasks, NEW l \in Locations, Goto(t, l),
         l \in {"idle", "drain", "flush", "clear"} \/ Arg(t) # NoSlice
  PROVE  task' \in [Tasks -> TaskStates]
  <1>1. [task[t] EXCEPT !.pc = l] \in TaskStates
    BY DEF TaskStates, Arg
  <1> QED
    BY <1>1, BecomeType DEF Goto

LEMMA ReturnType ==
  ASSUME task \in [Tasks -> TaskStates], NEW t \in Tasks, NEW r \in Results, Return(t, r)
  PROVE  task' \in [Tasks -> TaskStates]
  <1>1. "idle" \in Locations
    BY DEF Locations
  <1>2. [task[t] EXCEPT !.pc = "idle", !.result = r] \in TaskStates
    BY <1>1 DEF TaskStates
  <1> QED
    BY <1>2, BecomeType DEF Return

LEMMA CallType ==
  ASSUME task \in [Tasks -> TaskStates], NEW t \in Tasks, NEW l \in Locations,
         NEW s \in Slices \cup {NoSlice}, Call(t, l, s), s \in Slices \/ l = "drain"
  PROVE  task' \in [Tasks -> TaskStates]
  <1>1. [Idle EXCEPT !.pc = l, !.slice = s] \in TaskStates
    BY IdleType, NoSliceAssumption DEF TaskStates
  <1> QED
    BY <1>1, BecomeType DEF Call

\* In the middle of a call on a slice, the argument is a slice.
LEMMA ArgType ==
  ASSUME task \in [Tasks -> TaskStates], NEW t \in Tasks,
         task[t].pc \notin {"idle", "drain", "flush", "clear"}
  PROVE  Arg(t) \in Slices /\ Arg(t) # NoSlice
  BY NoSliceAssumption DEF TaskStates, Arg

\* Every call starts well typed.
LEMMA TypeStartCall ==
  ASSUME TypeOK, NEW t \in Tasks, StartCall(t)
  PROVE  TypeOK'
  <1>1. ASSUME NEW s \in Slices, StartWrite(t, s) PROVE TypeOK'
    BY <1>1, CallType DEF StartWrite, TypeOK, Locations, tierVars, ramVars, logVars
  <1>2. ASSUME NEW s \in Slices, StartRead(t, s) PROVE TypeOK'
    BY <1>2, CallType DEF StartRead, TypeOK, Locations, tierVars, ramVars, logVars, histVars
  <1>3. ASSUME NEW s \in Slices, StartDelete(t, s) PROVE TypeOK'
    BY <1>3, CallType DEF StartDelete, TypeOK, Locations, tierVars, ramVars, logVars, histVars
  <1>4. ASSUME StartFlush(t) PROVE TypeOK'
    BY <1>4, CallType DEF StartFlush, TypeOK, Locations, tierVars, ramVars, logVars, histVars
  <1> QED
    BY <1>1, <1>2, <1>3, <1>4 DEF StartCall

LEMMA DiskWrittenType ==
  ASSUME TypeOK, NEW t \in Tasks, DiskWritten(t), Arg(t) \in Slices
  PROVE  disk' \in [Slices -> Copies] /\ damaged' \subseteq Slices
  BY DEF DiskWritten, TypeOK, Copies

LEMMA TypeWrite ==
  ASSUME TypeOK, NEW t \in Tasks, WalAppend(t) \/ WriteDirty(t)
  PROVE  TypeOK'
  <1>1. CASE WalAppend(t)
    <2>1. task' \in [Tasks -> TaskStates] /\ Arg(t) \in Slices
      BY <1>1, GotoType, ArgType DEF WalAppend, At, TypeOK, Locations
    <2> QED
      BY <1>1, <2>1, FlagsAssumption DEF WalAppend, TypeOK, ramVars
  <1>2. CASE WriteDirty(t)
    <2>1. task' \in [Tasks -> TaskStates] /\ Arg(t) \in Slices
      BY <1>2, ReturnType, ArgType DEF WriteDirty, At, TypeOK, Results
    <2> QED
      BY <1>2, <2>1 DEF WriteDirty, TypeOK, Copies, logVars
  <1> QED
    BY <1>1, <1>2

LEMMA TypeRead ==
  ASSUME TypeOK, NEW t \in Tasks,
         ReadLookup(t) \/ FillL1(t) \/ FillBoth(t) \/ FillDisk(t)
  PROVE  TypeOK'
  <1> USE DEF TypeOK
  <1>1. CASE ReadLookup(t)
    <2>1. Arg(t) \in Slices /\ Arg(t) # NoSlice
      BY <1>1, ArgType DEF ReadLookup, At
    <2>2. ASSUME Become(t, [task[t] EXCEPT !.pc = "fill", !.result = AsResult(disk[Arg(t)])])
          PROVE  task' \in [Tasks -> TaskStates]
      <3>1. [task[t] EXCEPT !.pc = "fill", !.result = AsResult(disk[Arg(t)])] \in TaskStates
        BY <2>1 DEF TaskStates, Locations, Results, AsResult, Arg
      <3> QED
        BY <2>2, <3>1, BecomeType
    <2>3. \A r \in {"ok", "missing", "err"} : Return(t, r) => task' \in [Tasks -> TaskStates]
      BY ReturnType DEF Results
    <2>4. Return(t, AsResult(l1[Arg(t)])) => task' \in [Tasks -> TaskStates]
      BY ReturnType DEF Results, AsResult
    <2>5. \A l \in {"rl1", "rdisk", "rinner", "fillcheck"} :
            Goto(t, l) => task' \in [Tasks -> TaskStates]
      BY <2>1, GotoType DEF Locations
    <2>6. task' \in [Tasks -> TaskStates]
      BY <1>1, <2>2, <2>3, <2>4, <2>5 DEF ReadLookup
    <2> QED
      BY <1>1, <2>6 DEF ReadLookup, tierVars, ramVars, logVars, histVars
  <1>2. CASE FillL1(t)
    <2>1. Arg(t) \in Slices /\ task[t].result \in Results
      BY <1>2, ArgType DEF FillL1, At, TaskStates
    <2>2. task' \in [Tasks -> TaskStates]
      BY <1>2, <2>1, ReturnType DEF FillL1
    <2> QED
      BY <1>2, <2>1, <2>2 DEF FillL1, Copies, logVars, histVars
  <1>3. CASE FillBoth(t)
    <2>1. Arg(t) \in Slices /\ Arg(t) # NoSlice
      BY <1>3, ArgType DEF FillBoth, At
    <2>2. task' \in [Tasks -> TaskStates] /\ disk' \in [Slices -> Copies]
      BY <1>3, <2>1, ReturnType, GotoType
      DEF FillBoth, DiskCheck, Results, Locations, Copies
    <2> QED
      BY <1>3, <2>1, <2>2 DEF FillBoth, Copies, logVars, histVars
  <1>4. CASE FillDisk(t)
    <2>1. Arg(t) \in Slices
      BY <1>4, ArgType DEF FillDisk, At
    <2>2. task' \in [Tasks -> TaskStates]
      BY <1>4, ReturnType DEF FillDisk, Results
    <2> QED
      BY <1>4, <2>1, <2>2, DiskWrittenType DEF FillDisk, ramVars, logVars
  <1> QED
    BY <1>1, <1>2, <1>3, <1>4

LEMMA TypeDelete ==
  ASSUME TypeOK, NEW t \in Tasks, DeleteDirty(t) \/ DeleteCopies(t)
  PROVE  TypeOK'
  <1> USE DEF TypeOK
  <1>1. Arg(t) \in Slices /\ Arg(t) # NoSlice
    BY ArgType DEF DeleteDirty, DeleteCopies, At
  <1>2. \A l \in {"dl1", "ddisk", "dinner"} : Goto(t, l) => task' \in [Tasks -> TaskStates]
    BY <1>1, GotoType DEF Locations
  <1>3. Return(t, "ok") => task' \in [Tasks -> TaskStates]
    BY ReturnType DEF Results
  <1>4. CASE DeleteDirty(t)
    BY <1>1, <1>2, <1>4 DEF DeleteDirty, logVars
  <1>5. CASE DeleteCopies(t)
    <2>1. task' \in [Tasks -> TaskStates]
      BY <1>2, <1>3, <1>5 DEF DeleteCopies
    <2>2. l1' \in [Slices -> Copies] /\ disk' \in [Slices -> Copies] /\ inner' \subseteq Slices
      BY <1>1, <1>5 DEF DeleteCopies, Copies, Tried
    <2> QED
      BY <1>5, <2>1, <2>2 DEF DeleteCopies, logVars, histVars
  <1> QED
    BY <1>4, <1>5

LEMMA EndFlushInnerType ==
  ASSUME TypeOK, NEW t \in Tasks, EndFlushInner(t)
  PROVE  task' \in [Tasks -> TaskStates] /\ serving' \in BOOLEAN
  BY ReturnType, GotoType DEF EndFlushInner, TypeOK, Results, Locations

\* Taking item i out of a batch keeps the types.
LEMMA SettledType ==
  ASSUME NEW k \in TaskStates, NEW i \in Slices
  PROVE  LET settled == [k EXCEPT !.batch[i] = "none", !.slice = i]
         IN settled \in TaskStates /\ [settled EXCEPT !.pc = "settledisk"] \in TaskStates
  <1> DEFINE settled == [k EXCEPT !.batch[i] = "none", !.slice = i]
  <1>1. settled \in TaskStates /\ settled.slice = i
    BY NoSliceAssumption DEF TaskStates
  <1> HIDE DEF settled
  <1>2. [settled EXCEPT !.pc = "settledisk"] \in TaskStates
    BY <1>1, NoSliceAssumption DEF TaskStates, Locations
  <1> QED
    BY <1>1, <1>2 DEF settled

LEMMA TypeFlush ==
  ASSUME TypeOK, NEW t \in Tasks,
         \/ Drain(t) \/ SettleDisk(t) \/ EndSettle(t) \/ ClearWal(t)
         \/ \E i \in Slices : Put(t, i) \/ SettleStored(t, i) \/ SettleFailed(t, i)
  PROVE  TypeOK'
  <1> USE DEF TypeOK
  <1>1. CASE Drain(t)
    <2> DEFINE b == [s \in Slices |-> IF s \in dirty_data THEN "putting" ELSE "none"]
    <2>1. [task[t] EXCEPT !.pc = "flush", !.batch = b] \in TaskStates
      BY DEF TaskStates, Locations
    <2>2. task' \in [Tasks -> TaskStates] /\ serving' \in BOOLEAN
      BY <1>1, <2>1, BecomeType, EndFlushInnerType DEF Drain
    <2> QED
      BY <1>1, <2>2 DEF Drain, logVars, histVars
  <1>2. CASE SettleDisk(t)
    <2>1. Arg(t) \in Slices
      BY <1>2, ArgType DEF SettleDisk, At
    <2>2. task' \in [Tasks -> TaskStates]
      BY <1>2, GotoType DEF SettleDisk, Locations
    <2> QED
      BY <1>2, <2>1, <2>2, DiskWrittenType DEF SettleDisk, ramVars, logVars
  <1>3. CASE EndSettle(t)
    BY <1>3, EndFlushInnerType DEF EndSettle, ramVars, logVars, histVars
  <1>4. CASE ClearWal(t)
    <2>1. task' \in [Tasks -> TaskStates]
      BY <1>4, ReturnType DEF ClearWal, Results
    <2> QED
      BY <1>4, <2>1 DEF ClearWal, ramVars, logVars, histVars
  <1>5. ASSUME NEW i \in Slices, Put(t, i) PROVE TypeOK'
    <2>1. \A b \in {"stored", "failed"} : [task[t] EXCEPT !.batch[i] = b] \in TaskStates
      BY DEF TaskStates
    <2>2. task' \in [Tasks -> TaskStates]
      BY <1>5, <2>1, BecomeType DEF Put
    <2> QED
      BY <1>5, <2>2 DEF Put, ramVars, logVars, histVars
  <1>6. ASSUME NEW i \in Slices, SettleStored(t, i) PROVE TypeOK'
    <2> DEFINE settled == [task[t] EXCEPT !.batch[i] = "none", !.slice = i]
    <2>1. settled \in TaskStates /\ [settled EXCEPT !.pc = "settledisk"] \in TaskStates
      BY SettledType
    <2> HIDE DEF settled
    <2>2. task' \in [Tasks -> TaskStates] /\ disk' \in [Slices -> Copies]
      BY <1>6, <2>1, BecomeType DEF SettleStored, DiskCheck, Copies, settled
    <2> QED
      BY <1>6, <2>2 DEF SettleStored, ramVars, logVars, histVars
  <1>7. ASSUME NEW i \in Slices, SettleFailed(t, i) PROVE TypeOK'
    <2>1. [task[t] EXCEPT !.batch[i] = "none", !.result = "err"] \in TaskStates
      BY DEF TaskStates, Results
    <2>2. task' \in [Tasks -> TaskStates]
      BY <1>7, <2>1, BecomeType DEF SettleFailed
    <2> QED
      BY <1>7, <2>2 DEF SettleFailed, logVars, histVars
  <1> QED
    BY <1>1, <1>2, <1>3, <1>4, <1>5, <1>6, <1>7

LEMMA TypeEnvironment ==
  ASSUME TypeOK, Environment
  PROVE  TypeOK'
  <1> USE DEF TypeOK
  <1>1. ASSUME NEW s \in Slices, Evict(s) PROVE TypeOK'
    BY <1>1 DEF Evict, Copies, logVars, histVars
  <1>2. CASE Notified
    BY <1>2 DEF Notified, logVars, histVars
  <1>3. CASE Crash
    <2>1. task' \in [Tasks -> TaskStates] /\ l1' \in [Slices -> Copies]
      BY <1>3, IdleType DEF Crash, Nothing, Copies
    <2>2. \A t \in Tasks : In(t, "putting") \subseteq Slices
      BY DEF In
    <2>3. inner' \subseteq Slices
      BY <1>3, <2>2 DEF Crash
    <2>4. torn' \in BOOLEAN
      BY <1>3, FlagsAssumption DEF Crash
    <2> QED
      BY <1>3, <2>1, <2>3, <2>4 DEF Crash
  <1>4. ASSUME NEW t \in Tasks, ReplayWal(t) PROVE TypeOK'
    <2>1. task' \in [Tasks -> TaskStates]
      BY <1>4, GotoType DEF ReplayWal, Locations
    <2> QED
      BY <1>4, <2>1 DEF ReplayWal, Copies, logVars
  <1> QED
    BY <1>1, <1>2, <1>3, <1>4 DEF Environment

LEMMA TypeNext ==
  ASSUME TypeOK, [Next]_vars
  PROVE  TypeOK'
  <1>1. ASSUME NEW t \in Tasks, CallStep(t) PROVE TypeOK'
    BY <1>1, TypeWrite, TypeRead, TypeDelete, TypeFlush DEF CallStep
  <1>2. CASE UNCHANGED vars
    BY <1>2 DEF vars, tierVars, ramVars, logVars, histVars, TypeOK
  <1> QED
    BY <1>1, <1>2, TypeStartCall, TypeEnvironment DEF Next

\* Every reachable state of the cache is well typed.
THEOREM TypeCorrect == Spec => []TypeOK
  BY TypeInit, TypeNext, PTL DEF Spec

-----------------------------------------------------------------------------
(* No slice is lost.  The inductive invariant adds to NoSliceLost where a  *)
(* batch may be and what its stored items imply, what a deletion under way *)
(* has done, and what a restarted process finds in the store and the log.  *)

BatchInv(u) ==
    /\ Batch(u) # {} => task[u].pc \in {"flush", "settledisk"}
    /\ In(u, "stored") \subseteq inner \cup deleted
DeleteInv(u) == task[u].pc \in {"dl1", "ddisk", "dinner"} => Arg(u) \in deleted
ReplayInv(u) == serving \/ task[u].pc \in {"idle", "drain", "flush", "settledisk"}
LogInv == Restarted => Retained \subseteq inner \cup wal

KeptInv ==
    /\ TypeOK /\ NoSliceLost /\ LogInv
    /\ \A u \in Tasks : BatchInv(u) /\ DeleteInv(u) /\ ReplayInv(u)

\* What a step that moves only task t leaves of the others.
LEMMA OthersStay ==
  ASSUME TypeOK, NEW t \in Tasks, NEW new, Become(t, new)
  PROVE  task'[t] = new /\ \A u \in Tasks \ {t} : task'[u] = task[u]
  BY DEF Become, TypeOK

\* What Goto and Return leave.
Moved(t, l) ==
    /\ \A u \in Tasks \ {t} : task'[u] = task[u]
    /\ task'[t].pc = l /\ task'[t].slice = task[t].slice /\ task'[t].batch = task[t].batch

LEMMA GotoMoves ==
  ASSUME TypeOK, NEW t \in Tasks, NEW l, Goto(t, l)
  PROVE  Moved(t, l)
  <1>1. task[t] \in TaskStates
    BY DEF TypeOK
  <1>2. task'[t] = [task[t] EXCEPT !.pc = l] /\ \A u \in Tasks \ {t} : task'[u] = task[u]
    BY OthersStay DEF Goto
  <1> QED
    BY <1>1, <1>2 DEF Moved, TaskStates

LEMMA ReturnMoves ==
  ASSUME TypeOK, NEW t \in Tasks, NEW r, Return(t, r)
  PROVE  Moved(t, "idle")
  <1>1. task[t] \in TaskStates
    BY DEF TypeOK
  <1>2. /\ task'[t] = [task[t] EXCEPT !.pc = "idle", !.result = r]
        /\ \A u \in Tasks \ {t} : task'[u] = task[u]
    BY OthersStay DEF Return
  <1> QED
    BY <1>1, <1>2 DEF Moved, TaskStates

LEMMA ReadMoves ==
  ASSUME TypeOK, NEW t \in Tasks,
         ReadLookup(t) \/ FillL1(t) \/ FillBoth(t) \/ FillDisk(t)
  PROVE  \E l \in {"idle", "rl1", "rdisk", "rinner", "fill", "fillcheck", "filldisk"} :
           Moved(t, l)
  <1>1. ASSUME NEW r, Become(t, [task[t] EXCEPT !.pc = "fill", !.result = r])
        PROVE  Moved(t, "fill")
    <2>1. task[t] \in TaskStates
      BY DEF TypeOK
    <2>2. /\ task'[t] = [task[t] EXCEPT !.pc = "fill", !.result = r]
          /\ \A u \in Tasks \ {t} : task'[u] = task[u]
      BY <1>1, OthersStay
    <2> QED
      BY <2>1, <2>2 DEF Moved, TaskStates
  <1> QED
    BY <1>1, GotoMoves, ReturnMoves DEF ReadLookup, FillL1, FillBoth, FillDisk, DiskCheck

LEMMA KeptInit == Init => KeptInv
  <1> SUFFICES ASSUME Init PROVE KeptInv
    OBVIOUS
  <1>1. \A u \in Tasks : Batch(u) = {} /\ In(u, "stored") = {} /\ task[u].pc = "idle"
    BY DEF Init, Idle, NoBatch, Batch, In
  <1> QED
    BY <1>1, TypeInit DEF Init, KeptInv, NoSliceLost, LogInv, Retained, BatchInv, DeleteInv,
       ReplayInv, Restarted, At

LEMMA KeptStartCall ==
  ASSUME KeptInv, NEW t \in Tasks, StartCall(t)
  PROVE  KeptInv'
  <1>1. PICK l \in {"wal", "rdirty", "ddirty", "drain"}, s \in Slices \cup {NoSlice} :
          Call(t, l, s)
    BY DEF StartCall, StartWrite, StartRead, StartDelete, StartFlush
  <1>2. UNCHANGED <<tierVars, written, deleted, lost>>
    BY DEF StartCall, StartWrite, StartRead, StartDelete, StartFlush, histVars
  <1>3. /\ task'[t] = [Idle EXCEPT !.pc = l, !.slice = s]
        /\ \A u \in Tasks \ {t} : task'[u] = task[u]
    BY <1>1, OthersStay DEF Call, KeptInv
  <1>4. serving /\ At(t, "idle")
    BY <1>1 DEF Call
  <1>5. Batch(t) = {} /\ Batch(t)' = {} /\ In(t, "stored")' = {} /\ task'[t].pc = l
    BY <1>3, <1>4 DEF KeptInv, BatchInv, At, Batch, In, Idle, NoBatch
  <1>6. \A u \in Tasks \ {t} : Batch(u)' = Batch(u) /\ In(u, "stored")' = In(u, "stored")
    BY <1>3 DEF Batch, In
  <1>7. TypeOK'
    BY TypeStartCall DEF KeptInv
  <1>8. ASSUME NEW u \in Tasks PROVE BatchInv(u)' /\ DeleteInv(u)' /\ ReplayInv(u)'
    <2>1. CASE u = t
      BY <1>2, <1>4, <1>5, <2>1 DEF BatchInv, DeleteInv, ReplayInv, tierVars
    <2>2. CASE u # t
      BY <1>2, <1>3, <1>6, <2>2
      DEF KeptInv, BatchInv, DeleteInv, ReplayInv, tierVars, Arg
    <2> QED
      BY <2>1, <2>2
  <1>9. NoSliceLost' /\ LogInv'
    BY <1>2, <1>4, <1>5, <1>6
    DEF KeptInv, NoSliceLost, LogInv, Restarted, Retained, Held, tierVars, ramVars
  <1> QED
    BY <1>7, <1>8, <1>9 DEF KeptInv

\* A step of a write, a read or a deletion: it drops copies of deleted slices
\* only, and what it newly calls written is in the dirty buffer.
LEMMA KeptCall ==
  ASSUME KeptInv, TypeOK', NEW t \in Tasks,
         task[t].pc \notin {"idle", "drain", "flush", "settledisk"},
         serving' = serving, lost' = lost, deleted \subseteq deleted',
         NEW l, Moved(t, l),
         written' \subseteq written \cup dirty_data',
         (dirty_data \cup inner) \ deleted' \subseteq dirty_data' \cup inner',
         inner \ deleted' \subseteq inner',
         DeleteInv(t)'
  PROVE  KeptInv'
  <1>1. serving /\ Batch(t) = {}
    BY DEF KeptInv, ReplayInv, BatchInv
  <1>2. \A u \in Tasks : Batch(u)' = Batch(u) /\ In(u, "stored")' = In(u, "stored")
    BY DEF Batch, In, Moved
  <1>3. In(t, "stored") = {}
    BY <1>1 DEF Batch, In
  <1>4. ASSUME NEW u \in Tasks PROVE BatchInv(u)' /\ DeleteInv(u)' /\ ReplayInv(u)'
    <2>1. CASE u = t
      BY <1>1, <1>2, <1>3, <2>1 DEF BatchInv, ReplayInv
    <2>2. CASE u # t
      BY <1>1, <1>2, <2>2 DEF KeptInv, BatchInv, DeleteInv, ReplayInv, Arg, Moved
    <2> QED
      BY <2>1, <2>2
  <1>5. NoSliceLost' /\ LogInv'
    BY <1>1, <1>2 DEF KeptInv, NoSliceLost, LogInv, Restarted, Retained, Held
  <1> QED
    BY <1>4, <1>5 DEF KeptInv

LEMMA KeptWrite ==
  ASSUME KeptInv, NEW t \in Tasks, WalAppend(t) \/ WriteDirty(t)
  PROVE  KeptInv'
  <1>1. TypeOK /\ TypeOK'
    BY TypeWrite DEF KeptInv
  <1>2. PICK l \in {"dirty", "idle"} : Moved(t, l)
    BY <1>1, GotoMoves, ReturnMoves DEF WalAppend, WriteDirty
  <1>3. DeleteInv(t)'
    BY <1>2 DEF DeleteInv, Moved
  <1> QED
    BY <1>1, <1>2, <1>3, KeptCall DEF WalAppend, WriteDirty, At, ramVars, logVars

LEMMA KeptRead ==
  ASSUME KeptInv, NEW t \in Tasks,
         ReadLookup(t) \/ FillL1(t) \/ FillBoth(t) \/ FillDisk(t)
  PROVE  KeptInv'
  <1>1. TypeOK /\ TypeOK'
    BY TypeRead DEF KeptInv
  <1>2. PICK l \in {"idle", "rl1", "rdisk", "rinner", "fill", "fillcheck", "filldisk"} :
          Moved(t, l)
    BY <1>1, ReadMoves
  <1>3. DeleteInv(t)'
    BY <1>2 DEF DeleteInv, Moved
  <1>4. UNCHANGED <<dirty_data, inner, serving, written, deleted, lost>>
    BY DEF ReadLookup, FillL1, FillBoth, FillDisk, tierVars, ramVars, histVars
  <1>5. task[t].pc \in {"rdirty", "rl1", "rdisk", "rinner", "fill", "fillcheck", "filldisk"}
    BY DEF ReadLookup, FillL1, FillBoth, FillDisk, At
  <1> QED
    BY <1>1, <1>2, <1>3, <1>4, <1>5, KeptCall

LEMMA KeptDelete ==
  ASSUME KeptInv, NEW t \in Tasks, DeleteDirty(t) \/ DeleteCopies(t)
  PROVE  KeptInv'
  <1>1. TypeOK /\ TypeOK'
    BY TypeDelete DEF KeptInv
  <1>2. PICK l : Moved(t, l)
    BY <1>1, GotoMoves, ReturnMoves DEF DeleteDirty, DeleteCopies
  <1>3. CASE DeleteDirty(t)
    <2>1. DeleteInv(t)'
      BY <1>2, <1>3 DEF DeleteInv, DeleteDirty, Arg, Moved
    <2> QED
      BY <1>1, <1>2, <1>3, <2>1, KeptCall DEF DeleteDirty, At
  <1>4. CASE DeleteCopies(t)
    <2>1. /\ UNCHANGED <<dirty_data, serving, written, deleted, lost>>
          /\ task[t].pc \in {"dl1", "ddisk", "dinner"}
      BY <1>4 DEF DeleteCopies, At, histVars
    <2>2. Arg(t) \in deleted
      BY <2>1 DEF KeptInv, DeleteInv
    <2>3. inner \ deleted' \subseteq inner'
      BY <1>4, <2>1, <2>2 DEF DeleteCopies, Tried
    <2>4. DeleteInv(t)'
      BY <1>2, <2>1, <2>2 DEF DeleteInv, Arg, Moved
    <2> QED
      BY <1>1, <1>2, <2>1, <2>3, <2>4, KeptCall
  <1> QED
    BY <1>3, <1>4

\* A step of a flush: every slice it takes out of the dirty buffer is in the
\* batch, and every slice it takes out of the batch is back in the buffer or
\* stored.
LEMMA KeptBatch ==
  ASSUME KeptInv, TypeOK', NEW t \in Tasks,
         \A u \in Tasks \ {t} : task'[u] = task[u],
         UNCHANGED <<written, deleted, lost>>,
         inner \subseteq inner', serving => serving',
         task[t].pc # "idle",
         \/ task'[t].pc \in {"flush", "settledisk"}
         \/ task'[t].pc \in {"idle", "clear"} /\ serving' /\ Batch(t)' = {},
         In(t, "stored")' \subseteq inner' \cup deleted,
         dirty_data \cup Batch(t) \subseteq dirty_data' \cup Batch(t)' \cup inner' \cup deleted
  PROVE  KeptInv'
  <1>1. \A u \in Tasks \ {t} : Batch(u)' = Batch(u) /\ In(u, "stored")' = In(u, "stored")
    BY DEF Batch, In
  <1>2. ASSUME NEW u \in Tasks PROVE BatchInv(u)' /\ DeleteInv(u)' /\ ReplayInv(u)'
    <2>1. CASE u = t
      BY <2>1 DEF BatchInv, DeleteInv, ReplayInv
    <2>2. CASE u # t
      BY <1>1, <2>2 DEF KeptInv, BatchInv, DeleteInv, ReplayInv, Arg
    <2> QED
      BY <2>1, <2>2
  <1>3. ~Restarted /\ ~Restarted'
    BY DEF Restarted, At
  <1>4. \A s \in Retained : Held(s)
    BY <1>3 DEF KeptInv, NoSliceLost
  <1>5. \A s \in Retained : Held(s)'
    BY <1>1, <1>4 DEF Held, Retained
  <1>6. NoSliceLost' /\ LogInv'
    BY <1>3, <1>5 DEF NoSliceLost, LogInv, Retained
  <1> QED
    BY <1>2, <1>6 DEF KeptInv

\* Where flush_dirty_inner ends.
LEMMA EndFlushInnerMoves ==
  ASSUME TypeOK, NEW t \in Tasks, EndFlushInner(t)
  PROVE  serving' /\ (Moved(t, "idle") \/ Moved(t, "clear"))
  BY GotoMoves, ReturnMoves DEF EndFlushInner

LEMMA KeptFlush ==
  ASSUME KeptInv, NEW t \in Tasks,
         \/ Drain(t) \/ SettleDisk(t) \/ EndSettle(t) \/ ClearWal(t)
         \/ \E i \in Slices : Put(t, i) \/ SettleStored(t, i) \/ SettleFailed(t, i)
  PROVE  KeptInv'
  <1>1. TypeOK /\ TypeOK' /\ task[t] \in TaskStates
    BY TypeFlush DEF KeptInv, TypeOK
  <1>2. /\ Batch(t) # {} => task[t].pc \in {"flush", "settledisk"}
        /\ In(t, "stored") \subseteq inner \cup deleted
    BY DEF KeptInv, BatchInv
  <1>3. CASE Drain(t)
    <2>1. CASE dirty_data = {}
      <3>1. serving' /\ (Moved(t, "idle") \/ Moved(t, "clear"))
        BY <1>1, <1>3, <2>1, EndFlushInnerMoves DEF Drain
      <3>2. Batch(t) = {} /\ Batch(t)' = {} /\ In(t, "stored")' = {}
        BY <1>2, <1>3, <3>1 DEF Drain, At, Moved, Batch, In
      <3> QED
        BY <1>1, <1>3, <2>1, <3>1, <3>2, KeptBatch DEF Drain, At, Moved, histVars
    <2>2. CASE dirty_data # {}
      <3> DEFINE b == [s \in Slices |-> IF s \in dirty_data THEN "putting" ELSE "none"]
      <3>1. /\ task'[t] = [task[t] EXCEPT !.pc = "flush", !.batch = b]
            /\ \A u \in Tasks \ {t} : task'[u] = task[u]
        BY <1>1, <1>3, <2>2, OthersStay DEF Drain
      <3>2. task'[t].pc = "flush" /\ task'[t].batch = b
        BY <1>1, <3>1 DEF TaskStates
      <3>3. Batch(t)' = dirty_data /\ In(t, "stored")' = {}
        BY <1>1, <3>2 DEF Batch, In, TypeOK
      <3>4. Batch(t) = {}
        BY <1>2, <1>3 DEF Drain, At
      <3>5. /\ UNCHANGED <<written, deleted, lost, inner, serving>>
            /\ task[t].pc = "drain"
        BY <1>3, <2>2 DEF Drain, At, histVars
      <3> HIDE DEF b
      <3> QED
        BY <1>1, <3>1, <3>2, <3>3, <3>4, <3>5, KeptBatch
    <2> QED
      BY <2>1, <2>2
  <1>4. CASE SettleDisk(t)
    <2>1. Moved(t, "flush")
      BY <1>1, <1>4, GotoMoves DEF SettleDisk
    <2>2. Batch(t)' = Batch(t) /\ In(t, "stored")' = In(t, "stored")
      BY <2>1 DEF Moved, Batch, In
    <2> QED
      BY <1>1, <1>2, <1>4, <2>1, <2>2, KeptBatch DEF SettleDisk, At, Moved, ramVars
  <1>5. CASE EndSettle(t)
    <2>1. serving' /\ (Moved(t, "idle") \/ Moved(t, "clear"))
      BY <1>1, <1>5, EndFlushInnerMoves DEF EndSettle
    <2>2. Batch(t) = {} /\ Batch(t)' = {} /\ In(t, "stored")' = {}
      BY <1>5, <2>1 DEF EndSettle, Moved, Batch, In
    <2> QED
      BY <1>1, <1>5, <2>1, <2>2, KeptBatch DEF EndSettle, At, Moved, ramVars, histVars
  <1>6. CASE ClearWal(t)
    <2>1. Moved(t, "idle")
      BY <1>1, <1>6, ReturnMoves DEF ClearWal
    <2>2. Batch(t) = {} /\ Batch(t)' = {} /\ In(t, "stored")' = {}
      BY <1>2, <1>6, <2>1 DEF ClearWal, At, Moved, Batch, In
    <2>3. serving
      BY <1>6 DEF ClearWal, At, KeptInv, ReplayInv
    <2> QED
      BY <1>1, <1>6, <2>1, <2>2, <2>3, KeptBatch DEF ClearWal, At, Moved, ramVars, histVars
  <1>7. ASSUME NEW i \in Slices, Put(t, i) PROVE KeptInv'
    <2>1. PICK b \in {"stored", "failed"} :
            /\ Become(t, [task[t] EXCEPT !.batch[i] = b])
            /\ inner \subseteq inner' /\ (b = "stored" => i \in inner')
      BY <1>7 DEF Put
    <2>2. /\ task'[t] = [task[t] EXCEPT !.batch[i] = b]
          /\ \A u \in Tasks \ {t} : task'[u] = task[u]
      BY <1>1, <2>1, OthersStay
    <2>3. task'[t].pc = task[t].pc /\ task'[t].batch = [task[t].batch EXCEPT ![i] = b]
      BY <1>1, <2>2 DEF TaskStates
    <2>4. /\ Batch(t) \subseteq Batch(t)'
          /\ In(t, "stored")' \subseteq In(t, "stored") \cup (IF b = "stored" THEN {i} ELSE {})
      BY <1>1, <2>3 DEF Batch, In, TaskStates
    <2> QED
      BY <1>1, <1>2, <1>7, <2>1, <2>2, <2>3, <2>4, KeptBatch DEF Put, At, ramVars, histVars
  <1>8. ASSUME NEW i \in Slices, SettleStored(t, i) PROVE KeptInv'
    <2> DEFINE settled == [task[t] EXCEPT !.batch[i] = "none", !.slice = i]
    <2>1. PICK new \in {settled, [settled EXCEPT !.pc = "settledisk"]} : Become(t, new)
      BY <1>8 DEF SettleStored, DiskCheck
    <2>2. task'[t] = new /\ \A u \in Tasks \ {t} : task'[u] = task[u]
      BY <1>1, <2>1, OthersStay
    <2>3. /\ new.batch = [task[t].batch EXCEPT ![i] = "none"]
          /\ new.pc \in {task[t].pc, "settledisk"}
      BY <1>1, <2>1 DEF TaskStates
    <2>4. /\ Batch(t) \subseteq Batch(t)' \cup {i}
          /\ In(t, "stored")' \subseteq In(t, "stored") /\ i \in In(t, "stored")
      BY <1>1, <1>8, <2>2, <2>3 DEF Batch, In, TaskStates, SettleStored
    <2>5. /\ UNCHANGED <<written, deleted, lost, inner, serving, dirty_data>>
          /\ task[t].pc = "flush"
      BY <1>8 DEF SettleStored, Settling, At, ramVars, histVars
    <2> HIDE DEF settled
    <2>6. task'[t].pc \in {"flush", "settledisk"}
      BY <2>2, <2>3, <2>5
    <2> QED
      BY <1>1, <1>2, <2>2, <2>4, <2>5, <2>6, KeptBatch
  <1>9. ASSUME NEW i \in Slices, SettleFailed(t, i) PROVE KeptInv'
    <2>1. /\ task'[t] = [task[t] EXCEPT !.batch[i] = "none", !.result = "err"]
          /\ \A u \in Tasks \ {t} : task'[u] = task[u]
      BY <1>1, <1>9, OthersStay DEF SettleFailed
    <2>2. task'[t].pc = task[t].pc /\ task'[t].batch = [task[t].batch EXCEPT ![i] = "none"]
      BY <1>1, <2>1 DEF TaskStates
    <2>3. /\ Batch(t) \subseteq Batch(t)' \cup {i}
          /\ In(t, "stored")' \subseteq In(t, "stored")
      BY <1>1, <2>2 DEF Batch, In, TaskStates
    <2> QED
      BY <1>1, <1>2, <1>9, <2>1, <2>2, <2>3, KeptBatch
      DEF SettleFailed, Settling, At, histVars
  <1> QED
    BY <1>3, <1>4, <1>5, <1>6, <1>7, <1>8, <1>9

LEMMA KeptCrash ==
  ASSUME KeptInv, Crash
  PROVE  KeptInv'
  <1>1. TypeOK'
    BY TypeEnvironment DEF KeptInv, Environment
  <1>2. \A u \in Tasks : task'[u] = Idle
    BY DEF Crash
  <1>3. \A u \in Tasks : Batch(u)' = {} /\ In(u, "stored")' = {} /\ task'[u].pc = "idle"
    BY <1>2 DEF Batch, In, Idle, NoBatch
  <1>4. NoSliceLost'
    BY <1>3 DEF NoSliceLost, Restarted, At, Crash
  <1>5. LogInv'
    BY DEF LogInv, Retained, Crash
  <1> QED
    BY <1>1, <1>3, <1>4, <1>5 DEF KeptInv, BatchInv, DeleteInv, ReplayInv

LEMMA KeptReplay ==
  ASSUME KeptInv, NEW t \in Tasks, ReplayWal(t)
  PROVE  KeptInv'
  <1>1. TypeOK /\ TypeOK'
    BY TypeEnvironment DEF KeptInv, Environment
  <1>2. Retained \subseteq inner \cup wal
    BY DEF KeptInv, LogInv, Restarted, ReplayWal
  <1>3. UNCHANGED <<inner, wal, written, deleted>>
    BY DEF ReplayWal, logVars
  <1>4. /\ \A u \in Tasks : task'[u].batch = task[u].batch
        /\ \/ serving' /\ UNCHANGED task
           \/ ~serving' /\ task'[t].pc = "drain" /\ \A u \in Tasks \ {t} : task'[u] = task[u]
    BY <1>1, GotoMoves DEF ReplayWal, Moved
  <1>5. \A u \in Tasks : Batch(u)' = Batch(u) /\ In(u, "stored")' = In(u, "stored")
    BY <1>4 DEF Batch, In
  <1>6. ASSUME NEW u \in Tasks PROVE BatchInv(u)' /\ DeleteInv(u)' /\ ReplayInv(u)'
    <2>1. task[u].pc = "idle" /\ Batch(u) = {}
      BY DEF ReplayWal, At, KeptInv, BatchInv
    <2> QED
      BY <1>3, <1>4, <1>5, <2>1 DEF KeptInv, BatchInv, DeleteInv, ReplayInv
  <1>7. ~Restarted'
    BY <1>4 DEF Restarted, At
  <1>8. (Retained \subseteq dirty_data \cup inner)'
    BY <1>2, <1>3 DEF ReplayWal, Retained
  <1>9. NoSliceLost' /\ LogInv'
    BY <1>7, <1>8 DEF NoSliceLost, LogInv, Held
  <1> QED
    BY <1>1, <1>6, <1>9 DEF KeptInv

LEMMA KeptNext ==
  ASSUME KeptInv, [Next]_vars
  PROVE  KeptInv'
  <1>1. ASSUME NEW t \in Tasks, CallStep(t) PROVE KeptInv'
    BY <1>1, KeptWrite, KeptRead, KeptDelete, KeptFlush DEF CallStep
  <1>2. ASSUME UNCHANGED <<task, dirty_data, inner, wal, serving, written, deleted, lost>>, TypeOK'
        PROVE  KeptInv'
    BY <1>2 DEF KeptInv, NoSliceLost, LogInv, Restarted, Retained, Held, BatchInv, DeleteInv,
       ReplayInv, Batch, In, At, Arg
  <1>3. ASSUME NEW s \in Slices, Evict(s) PROVE KeptInv'
    BY <1>2, <1>3, TypeEnvironment DEF KeptInv, Environment, Evict, logVars, histVars
  <1>4. CASE Notified
    BY <1>2, <1>4, TypeEnvironment DEF KeptInv, Environment, Notified, logVars, histVars
  <1>5. CASE Environment
    BY <1>3, <1>4, <1>5, KeptCrash, KeptReplay DEF Environment
  <1>6. CASE UNCHANGED vars
    BY <1>2, <1>6, TypeNext DEF KeptInv, vars, tierVars, ramVars, logVars, histVars
  <1> QED
    BY <1>1, <1>5, <1>6, KeptStartCall DEF Next

\* Whatever PUTs fail, whatever calls interleave and however often the process
\* crashes, a slice that is neither deleted nor lost at a crash is held
\* whenever the mount runs (cache.rs:126-169, 244-288).
THEOREM NothingLost == Spec => []NoSliceLost
  <1>1. Init => KeptInv
    BY KeptInit
  <1>2. KeptInv /\ [Next]_vars => KeptInv'
    BY KeptNext
  <1>3. KeptInv => NoSliceLost
    BY DEF KeptInv
  <1> QED
    BY <1>1, <1>2, <1>3, PTL DEF Spec

-----------------------------------------------------------------------------
(* The WAL, when one task makes all the calls.  Two tasks break it: a      *)
(* flush clears records of slices another task has logged meanwhile.       *)

\* Every slice still wanted is stored or logged, and a flush that is about to
\* clear the log has left nothing in the dirty buffer.
CoveredInv == Retained \ unlogged \subseteq inner \cup wal
FlusherInv(u) ==
    /\ task[u].pc = "clear" => dirty_data = {}
    /\ task[u].pc \in {"flush", "settledisk"} /\ dirty_data # {} => task[u].result = "err"
    /\ task[u].pc = "dirty" => Arg(u) \in wal \cup unlogged

AloneInv == KeptInv /\ Recoverable /\ CoveredInv /\ \A u \in Tasks : FlusherInv(u)

Alone == \A t, u \in Tasks : t = u

LEMMA AloneInit == Init => AloneInv
  BY KeptInit DEF Init, Idle, AloneInv, Recoverable, CoveredInv, FlusherInv, Retained

\* A step that leaves the log alone and does not reach "dirty".
LEMMA AloneQuiet ==
  ASSUME Alone, AloneInv, KeptInv', NEW t \in Tasks,
         UNCHANGED <<lost, unlogged, wal>>,
         deleted \subseteq deleted', inner \ deleted' \subseteq inner',
         written' \subseteq written \cup inner \cup wal \cup unlogged,
         FlusherInv(t)'
  PROVE  AloneInv'
  BY DEF Alone, AloneInv, CoveredInv, Recoverable, Retained

LEMMA AloneStartCall ==
  ASSUME Alone, AloneInv, NEW t \in Tasks, StartCall(t)
  PROVE  AloneInv'
  <1>1. KeptInv'
    BY KeptStartCall DEF AloneInv
  <1>2. PICK l \in {"wal", "rdirty", "ddirty", "drain"}, s \in Slices \cup {NoSlice} :
          Call(t, l, s)
    BY DEF StartCall, StartWrite, StartRead, StartDelete, StartFlush
  <1>3. task'[t].pc = l
    <2>1. task'[t] = [Idle EXCEPT !.pc = l, !.slice = s]
      BY <1>2, OthersStay DEF Call, AloneInv, KeptInv
    <2> QED
      BY <2>1 DEF Idle
  <1>4. FlusherInv(t)'
    BY <1>3 DEF FlusherInv
  <1>5. UNCHANGED <<tierVars, written, deleted, lost, unlogged>>
    BY DEF StartCall, StartWrite, StartRead, StartDelete, StartFlush, histVars
  <1> QED
    BY <1>1, <1>4, <1>5, AloneQuiet DEF tierVars, logVars

LEMMA AloneWrite ==
  ASSUME Alone, AloneInv, NEW t \in Tasks, WalAppend(t) \/ WriteDirty(t)
  PROVE  AloneInv'
  <1>1. TypeOK /\ KeptInv'
    BY KeptWrite DEF AloneInv, KeptInv
  <1>2. CASE WalAppend(t)
    <2>1. Moved(t, "dirty")
      BY <1>1, <1>2, GotoMoves DEF WalAppend
    <2>2. FlusherInv(t)'
      BY <1>2, <2>1 DEF FlusherInv, WalAppend, Moved, Arg
    <2> QED
      BY <1>1, <1>2, <2>2 DEF WalAppend, Alone, AloneInv, CoveredInv, Recoverable, Retained
  <1>3. CASE WriteDirty(t)
    <2>1. Moved(t, "idle")
      BY <1>1, <1>3, ReturnMoves DEF WriteDirty
    <2>2. FlusherInv(t)'
      BY <2>1 DEF FlusherInv, Moved
    <2>3. Arg(t) \in wal \cup unlogged
      BY <1>3 DEF WriteDirty, At, AloneInv, FlusherInv
    <2> QED
      BY <1>1, <1>3, <2>2, <2>3, AloneQuiet DEF WriteDirty, logVars
  <1> QED
    BY <1>2, <1>3

LEMMA AloneRead ==
  ASSUME Alone, AloneInv, NEW t \in Tasks,
         ReadLookup(t) \/ FillL1(t) \/ FillBoth(t) \/ FillDisk(t)
  PROVE  AloneInv'
  <1>1. TypeOK /\ KeptInv'
    BY KeptRead DEF AloneInv, KeptInv
  <1>2. PICK l \in {"idle", "rl1", "rdisk", "rinner", "fill", "fillcheck", "filldisk"} :
          Moved(t, l)
    BY <1>1, ReadMoves
  <1>3. FlusherInv(t)'
    BY <1>2 DEF FlusherInv, Moved
  <1>4. UNCHANGED <<wal, inner, written, deleted, lost, unlogged>>
    BY DEF ReadLookup, FillL1, FillBoth, FillDisk, tierVars, logVars, histVars
  <1> QED
    BY <1>1, <1>3, <1>4, AloneQuiet

LEMMA AloneDelete ==
  ASSUME Alone, AloneInv, NEW t \in Tasks, DeleteDirty(t) \/ DeleteCopies(t)
  PROVE  AloneInv'
  <1>1. TypeOK /\ KeptInv'
    BY KeptDelete DEF AloneInv, KeptInv
  <1>2. PICK l \in {"dl1", "ddisk", "dinner", "idle"} : Moved(t, l)
    BY <1>1, GotoMoves, ReturnMoves DEF DeleteDirty, DeleteCopies
  <1>3. FlusherInv(t)'
    BY <1>2 DEF FlusherInv, Moved
  <1>4. CASE DeleteDirty(t)
    BY <1>1, <1>3, <1>4, AloneQuiet DEF DeleteDirty, logVars
  <1>5. CASE DeleteCopies(t)
    <2>1. Arg(t) \in deleted
      BY <1>5 DEF DeleteCopies, AloneInv, KeptInv, DeleteInv, At
    <2>2. UNCHANGED <<wal, written, deleted, lost, unlogged>> /\ inner \ deleted \subseteq inner'
      BY <1>5, <2>1 DEF DeleteCopies, Tried, logVars, histVars
    <2> QED
      BY <1>1, <1>3, <2>2, AloneQuiet
  <1> QED
    BY <1>4, <1>5

LEMMA AloneFlush ==
  ASSUME Alone, AloneInv, NEW t \in Tasks,
         \/ Drain(t) \/ SettleDisk(t) \/ EndSettle(t) \/ ClearWal(t)
         \/ \E i \in Slices : Put(t, i) \/ SettleStored(t, i) \/ SettleFailed(t, i)
  PROVE  AloneInv'
  <1>1. TypeOK /\ KeptInv' /\ task[t] \in TaskStates
    BY KeptFlush DEF AloneInv, KeptInv, TypeOK
  <1>2. FlusherInv(t)
    BY DEF AloneInv
  <1>3. CASE Drain(t)
    <2>1. dirty_data' = {} /\ task'[t].pc # "dirty"
      <3>1. CASE dirty_data = {}
        BY <1>1, <1>3, <3>1, EndFlushInnerMoves DEF Drain, Moved
      <3>2. CASE dirty_data # {}
        <4>1. task'[t] = [task[t] EXCEPT !.pc = "flush", !.batch =
                [s \in Slices |-> IF s \in dirty_data THEN "putting" ELSE "none"]]
          BY <1>1, <1>3, <3>2, OthersStay DEF Drain
        <4> QED
          BY <1>1, <1>3, <4>1 DEF Drain, TaskStates
      <3> QED
        BY <1>3, <3>1, <3>2 DEF Drain
    <2>2. FlusherInv(t)'
      BY <2>1 DEF FlusherInv
    <2> QED
      BY <1>1, <1>3, <2>2, AloneQuiet DEF Drain, logVars, histVars
  <1>4. CASE SettleDisk(t)
    <2>1. task'[t] = [task[t] EXCEPT !.pc = "flush"]
      BY <1>1, <1>4, OthersStay DEF SettleDisk, Goto
    <2>2. task'[t].pc = "flush" /\ task'[t].result = task[t].result
      BY <1>1, <2>1 DEF TaskStates
    <2>3. FlusherInv(t)'
      BY <1>2, <1>4, <2>2 DEF FlusherInv, SettleDisk, At, ramVars
    <2> QED
      BY <1>1, <1>4, <2>3, AloneQuiet DEF SettleDisk, logVars
  <1>5. CASE EndSettle(t)
    <2>1. /\ Moved(t, "idle") \/ Moved(t, "clear")
          /\ task'[t].pc = "clear" => task[t].result # "err"
      BY <1>1, <1>5, GotoMoves, ReturnMoves DEF EndSettle, EndFlushInner, Moved
    <2>2. FlusherInv(t)'
      BY <1>2, <1>5, <2>1 DEF FlusherInv, EndSettle, At, Moved, ramVars
    <2> QED
      BY <1>1, <1>5, <2>2, AloneQuiet DEF EndSettle, logVars, histVars
  <1>6. CASE ClearWal(t)
    <2>1. Moved(t, "idle")
      BY <1>1, <1>6, ReturnMoves DEF ClearWal
    <2>2. FlusherInv(t)'
      BY <2>1 DEF FlusherInv, Moved
    <2>3. dirty_data = {} /\ \A u \in Tasks : Batch(u) = {}
      BY <1>2, <1>6 DEF Alone, AloneInv, KeptInv, BatchInv, FlusherInv, ClearWal, At
    <2>4. Retained \subseteq inner
      BY <1>6, <2>3 DEF AloneInv, KeptInv, NoSliceLost, Restarted, Held, ClearWal, At
    <2>5. UNCHANGED <<inner, written, deleted, lost, unlogged>>
      BY <1>6 DEF ClearWal, histVars
    <2> QED
      BY <1>1, <2>2, <2>4, <2>5 DEF Alone, AloneInv, CoveredInv, Recoverable, Retained
  <1>7. ASSUME NEW i \in Slices, Put(t, i) PROVE AloneInv'
    <2>1. PICK b \in {"stored", "failed"} : Become(t, [task[t] EXCEPT !.batch[i] = b])
      BY <1>7 DEF Put
    <2>2. task'[t] = [task[t] EXCEPT !.batch[i] = b]
      BY <1>1, <2>1, OthersStay
    <2>3. task'[t].pc = "flush" /\ task'[t].result = task[t].result
      BY <1>1, <1>7, <2>2 DEF TaskStates, Put, At
    <2>4. FlusherInv(t)'
      BY <1>2, <1>7, <2>3 DEF FlusherInv, Put, At, ramVars
    <2>5. inner \subseteq inner' /\ UNCHANGED <<wal, written, deleted, lost, unlogged>>
      BY <1>7 DEF Put, logVars, histVars
    <2> QED
      BY <1>1, <2>4, <2>5, AloneQuiet
  <1>8. ASSUME NEW i \in Slices, SettleStored(t, i) PROVE AloneInv'
    <2> DEFINE settled == [task[t] EXCEPT !.batch[i] = "none", !.slice = i]
    <2>1. PICK new \in {settled, [settled EXCEPT !.pc = "settledisk"]} : Become(t, new)
      BY <1>8 DEF SettleStored, DiskCheck
    <2>2. task'[t] = new
      BY <1>1, <2>1, OthersStay
    <2>3. new.pc \in {"flush", "settledisk"} /\ new.result = task[t].result
      BY <1>1, <1>8, <2>1 DEF TaskStates, SettleStored, Settling, At
    <2>4. UNCHANGED <<dirty_data, wal, inner, written, deleted, lost, unlogged>>
          /\ task[t].pc = "flush"
      BY <1>8 DEF SettleStored, Settling, At, ramVars, logVars, histVars
    <2>5. FlusherInv(t)'
      BY <1>2, <2>2, <2>3, <2>4 DEF FlusherInv
    <2> QED
      BY <1>1, <2>4, <2>5, AloneQuiet
  <1>9. ASSUME NEW i \in Slices, SettleFailed(t, i) PROVE AloneInv'
    <2>1. task'[t] = [task[t] EXCEPT !.batch[i] = "none", !.result = "err"]
      BY <1>1, <1>9, OthersStay DEF SettleFailed
    <2>2. task'[t].pc = "flush" /\ task'[t].result = "err"
      BY <1>1, <1>9, <2>1 DEF TaskStates, SettleFailed, Settling, At
    <2>3. FlusherInv(t)'
      BY <2>2 DEF FlusherInv
    <2> QED
      BY <1>1, <1>9, <2>3, AloneQuiet DEF SettleFailed, logVars, histVars
  <1> QED
    BY <1>3, <1>4, <1>5, <1>6, <1>7, <1>8, <1>9

LEMMA AloneCrash ==
  ASSUME Alone, AloneInv, Crash
  PROVE  AloneInv'
  <1>1. KeptInv'
    BY KeptCrash DEF AloneInv
  <1>2. \A u \in Tasks : task'[u].pc = "idle"
    BY DEF Crash, Idle
  <1>3. \A u \in Tasks : FlusherInv(u)'
    BY <1>2 DEF FlusherInv
  <1>4. Recoverable' /\ CoveredInv'
    BY DEF AloneInv, Recoverable, CoveredInv, Retained, Crash
  <1> QED
    BY <1>1, <1>3, <1>4 DEF AloneInv

LEMMA AloneReplay ==
  ASSUME Alone, AloneInv, NEW t \in Tasks, ReplayWal(t)
  PROVE  AloneInv'
  <1>1. TypeOK /\ KeptInv'
    BY KeptReplay DEF AloneInv, KeptInv
  <1>2. task'[t].pc \in {"idle", "drain"}
    BY <1>1, GotoMoves DEF ReplayWal, At, Moved
  <1>3. FlusherInv(t)'
    BY <1>2 DEF FlusherInv
  <1>4. Recoverable' /\ CoveredInv'
    BY DEF AloneInv, Recoverable, CoveredInv, Retained, ReplayWal, logVars
  <1> QED
    BY <1>1, <1>3, <1>4 DEF Alone, AloneInv

LEMMA AloneNext ==
  ASSUME Alone, AloneInv, [Next]_vars
  PROVE  AloneInv'
  <1>1. ASSUME NEW t \in Tasks, CallStep(t) PROVE AloneInv'
    BY <1>1, AloneWrite, AloneRead, AloneDelete, AloneFlush DEF CallStep
  <1>2. KeptInv'
    BY KeptNext DEF AloneInv
  <1>3. ASSUME UNCHANGED <<task, dirty_data, inner, wal, written, deleted, unlogged, lost>>
        PROVE  AloneInv'
    BY <1>2, <1>3 DEF AloneInv, Recoverable, CoveredInv, FlusherInv, Retained, Arg
  <1>4. ASSUME NEW s \in Slices, Evict(s) PROVE AloneInv'
    BY <1>3, <1>4 DEF Evict, logVars, histVars
  <1>5. CASE Notified
    BY <1>3, <1>5 DEF Notified, logVars, histVars
  <1>6. CASE Environment
    BY <1>4, <1>5, <1>6, AloneCrash, AloneReplay DEF Environment
  <1>7. CASE UNCHANGED vars
    BY <1>3, <1>7 DEF vars, tierVars, ramVars, logVars, histVars
  <1> QED
    BY <1>1, <1>6, <1>7, AloneStartCall DEF Next

\* With a single caller the WAL does what it is for: after any number of
\* crashes and failed PUTs, only slices whose record could not be appended or
\* read back are gone (cache.rs:244-288, wal.rs).
THEOREM RecoverableAlone == Alone => (Spec => []Recoverable)
  <1> SUFFICES ASSUME Alone PROVE Spec => []Recoverable
    OBVIOUS
  <1>1. Init => AloneInv
    BY AloneInit
  <1>2. AloneInv /\ [Next]_vars => AloneInv'
    BY AloneNext
  <1>3. AloneInv => Recoverable
    BY DEF AloneInv
  <1> QED
    BY <1>1, <1>2, <1>3, PTL DEF Spec

-----------------------------------------------------------------------------
(* Reads find what they ask for: when one task makes all the calls, or when *)
(* nothing is evicted and nothing crashes.  Otherwise a reader that has     *)
(* missed a slice in one tier may miss it in the next, as another task      *)
(* moves it, or see an L2 file another task has begun to write.             *)

ReadPcs == {"rdirty", "rl1", "rdisk", "rinner", "fill", "fillcheck", "filldisk"}
FlushPcs == {"drain", "flush", "settledisk", "clear"}

\* The answer of a read stays true; no other call has one.
AnswerInv(u) ==
    /\ task[u].pc \in ReadPcs => Arg(u) \in written
    /\ task[u].result = "missing" => Arg(u) \in deleted \cup lost
    /\ task[u].result = "short" => Arg(u) \in deleted \cup damaged
    /\ task[u].pc = "fill" => task[u].result \in {"ok", "short"}
    /\ task[u].pc \in FlushPcs \/ ~serving => task[u].result \notin {"missing", "short"}

\* With one task, what a read has not found does not move, and a short copy is
\* one that a failure or a crash has left, or that this task is writing.
SerialInv ==
    /\ \A u \in Tasks : task[u].pc \in {"rl1", "rdisk", "rinner"} => Arg(u) \notin dirty_data
    /\ \A s \in Slices : l1[s] = "short" => s \in deleted \cup damaged
    /\ \A s \in Slices : disk[s] = "short" =>
          \/ s \in deleted \cup damaged
          \/ \E u \in Tasks : task[u].pc \in {"filldisk", "settledisk"} /\ Arg(u) = s

\* With neither eviction nor crash, a slice that was written and not deleted is
\* in the L1, so that no read of it gets past there.
Lasting == ~L1Evicts /\ ~CanCrash
LastingInv ==
    /\ \A s \in written \ deleted : l1[s] = "whole"
    /\ \A u \in Tasks : task[u].pc \in {"rdisk", "rinner", "fill", "fillcheck", "filldisk"} =>
                          Arg(u) \in deleted
    /\ ~serving => wal = {}

FoundInv ==
    /\ KeptInv /\ \A u \in Tasks : AnswerInv(u)
    /\ Alone => SerialInv
    /\ Lasting => LastingInv

LEMMA FoundInit == Init => FoundInv
  BY KeptInit DEF Init, Idle, Nothing, FoundInv, AnswerInv, SerialInv, LastingInv, ReadPcs,
     FlushPcs

\* The result a task has after it went on, or returned.
LEMMA ResultMoves ==
  ASSUME TypeOK, NEW t \in Tasks
  PROVE  /\ \A l : Goto(t, l) => task'[t].result = task[t].result
         /\ \A r : Return(t, r) => task'[t].result = r
  <1>1. task[t] \in TaskStates
    BY DEF TypeOK
  <1>2. ASSUME NEW l, Goto(t, l) PROVE task'[t].result = task[t].result
    <2>1. task'[t] = [task[t] EXCEPT !.pc = l]
      BY <1>2, OthersStay DEF Goto
    <2> QED
      BY <1>1, <2>1 DEF TaskStates
  <1>3. ASSUME NEW r, Return(t, r) PROVE task'[t].result = r
    <2>1. task'[t] = [task[t] EXCEPT !.pc = "idle", !.result = r]
      BY <1>3, OthersStay DEF Return
    <2> QED
      BY <1>1, <2>1 DEF TaskStates
  <1> QED
    BY <1>2, <1>3

\* A step of task t, from what it does to t and to the tiers.
LEMMA FoundStep ==
  ASSUME FoundInv, KeptInv', NEW t \in Tasks,
         \A u \in Tasks \ {t} : task'[u] = task[u],
         written \subseteq written', deleted \subseteq deleted', lost \subseteq lost',
         damaged \subseteq damaged', serving => serving', AnswerInv(t)',
         Alone => SerialInv',
         Lasting => /\ \A s \in written' \ deleted' : l1'[s] = "whole"
                    /\ task'[t].pc \in {"rdisk", "rinner", "fill", "fillcheck", "filldisk"} =>
                         Arg(t)' \in deleted'
                    /\ ~serving' => wal' = {}
  PROVE  FoundInv'
  <1>1. ASSUME NEW u \in Tasks \ {t} PROVE AnswerInv(u)'
    BY DEF FoundInv, AnswerInv, Arg
  <1>2. Lasting => LastingInv'
    BY DEF FoundInv, LastingInv, Arg
  <1> QED
    BY <1>1, <1>2 DEF FoundInv

LEMMA FoundStartCall ==
  ASSUME FoundInv, NEW t \in Tasks, StartCall(t)
  PROVE  FoundInv'
  <1>1. KeptInv' /\ TypeOK
    BY KeptStartCall DEF FoundInv, KeptInv
  <1>2. PICK l \in {"wal", "rdirty", "ddirty", "drain"}, s \in Slices \cup {NoSlice} :
          Call(t, l, s) /\ (l = "rdirty" => s \in written)
    BY DEF StartCall, StartWrite, StartRead, StartDelete, StartFlush
  <1>3. /\ task'[t].pc = l /\ task'[t].slice = s /\ task'[t].result = "none"
        /\ \A u \in Tasks \ {t} : task'[u] = task[u]
    <2>1. /\ task'[t] = [Idle EXCEPT !.pc = l, !.slice = s]
          /\ \A u \in Tasks \ {t} : task'[u] = task[u]
      BY <1>1, <1>2, OthersStay DEF Call
    <2> QED
      BY <2>1 DEF Idle
  <1>4. UNCHANGED <<tierVars, written, deleted, lost, damaged>> /\ task[t].pc = "idle"
    BY <1>2
    DEF StartCall, StartWrite, StartRead, StartDelete, StartFlush, histVars, Call, At
  <1>5. AnswerInv(t)'
    BY <1>2, <1>3, <1>4 DEF AnswerInv, Arg, ReadPcs
  <1>6. Alone => SerialInv'
    BY <1>3, <1>4 DEF FoundInv, SerialInv, Arg, tierVars, ramVars
  <1> QED
    BY <1>1, <1>3, <1>4, <1>5, <1>6, FoundStep
    DEF FoundInv, LastingInv, tierVars, ramVars, logVars

LEMMA FoundWrite ==
  ASSUME FoundInv, NEW t \in Tasks, WalAppend(t) \/ WriteDirty(t)
  PROVE  FoundInv'
  <1>1. TypeOK /\ KeptInv' /\ AnswerInv(t) /\ Arg(t) \in Slices
    BY KeptWrite, ArgType DEF FoundInv, KeptInv, TypeOK, WalAppend, WriteDirty, At
  <1>2. /\ \A u \in Tasks \ {t} : task'[u] = task[u]
        /\ Arg(t)' = Arg(t) /\ task'[t].pc \in {"dirty", "idle"}
    BY <1>1, GotoMoves, ReturnMoves DEF WalAppend, WriteDirty, Moved, Arg
  <1>3. task'[t].result \in {task[t].result, "ok"}
    BY <1>1, ResultMoves DEF WalAppend, WriteDirty
  <1>4. /\ UNCHANGED <<deleted, lost, damaged, serving, disk>>
        /\ serving
        /\ task[t].pc \in {"wal", "dirty"}
        /\ \A s \in Slices : l1'[s] = l1[s] \/ l1'[s] = "whole"
        /\ written \subseteq written'
        /\ \A s \in written' \ written : l1'[s] = "whole"
    BY <1>1 DEF WalAppend, WriteDirty, ramVars, TypeOK, At, KeptInv, FoundInv, ReplayInv
  <1>5. AnswerInv(t)'
    BY <1>1, <1>2, <1>3, <1>4 DEF AnswerInv, ReadPcs, FlushPcs
  <1>6. Alone => SerialInv'
    BY <1>2, <1>4 DEF Alone, FoundInv, SerialInv
  <1>7. Lasting => \A s \in written' \ deleted' : l1'[s] = "whole"
    BY <1>1, <1>4 DEF FoundInv, LastingInv, TypeOK
  <1> QED
    BY <1>1, <1>2, <1>4, <1>5, <1>6, <1>7, FoundStep

LEMMA FoundLookup ==
  ASSUME FoundInv, Alone \/ Lasting, NEW t \in Tasks, ReadLookup(t)
  PROVE  FoundInv'
  <1>1. TypeOK /\ KeptInv' /\ KeptInv /\ AnswerInv(t) /\ Arg(t) \in Slices /\ task[t] \in TaskStates
    BY KeptRead, ArgType DEF FoundInv, KeptInv, TypeOK, ReadLookup, At
  <1>2. UNCHANGED <<dirty_data, l1, disk, wal, inner, serving, written, deleted, lost, damaged>>
    BY DEF ReadLookup, tierVars, ramVars, logVars, histVars
  <1>3. /\ task[t].pc \in {"rdirty", "rl1", "rdisk", "rinner"} /\ Arg(t) \in written /\ serving
    BY <1>1 DEF ReadLookup, At, AnswerInv, ReadPcs, KeptInv, ReplayInv
  <1>4. /\ \A u \in Tasks \ {t} : task'[u] = task[u]
        /\ Arg(t)' = Arg(t) /\ task'[t].pc \in ReadPcs \cup {"idle"}
    <2>1. PICK l \in {"idle", "rl1", "rdisk", "rinner", "fill", "fillcheck", "filldisk"} :
            Moved(t, l)
      BY <1>1, ReadMoves
    <2> QED
      BY <2>1 DEF Moved, Arg, ReadPcs
  <1>5. \* Where it goes, and with what.
        \/ /\ task'[t].result = "ok" /\ task'[t].pc = "idle"
        \/ /\ task[t].pc = "rdirty" /\ Arg(t) \notin dirty_data /\ task'[t].pc = "rl1"
           /\ task'[t].result = task[t].result
        \/ /\ task[t].pc = "rl1" /\ task'[t].pc = "idle" /\ task'[t].result = "short"
           /\ l1[Arg(t)] = "short"
        \/ /\ task[t].pc = "rl1" /\ task'[t].pc = "rdisk" /\ l1[Arg(t)] = "absent"
           /\ task'[t].result = task[t].result
        \/ /\ task[t].pc = "rdisk" /\ task'[t].pc = "fill" /\ task'[t].result = "ok"
        \/ /\ task[t].pc = "rdisk" /\ task'[t].pc = "fill" /\ task'[t].result = "short"
           /\ disk[Arg(t)] = "short"
        \/ /\ task[t].pc = "rdisk" /\ task'[t].pc = "rinner"
           /\ task'[t].result = task[t].result
        \/ /\ task[t].pc = "rinner" /\ task'[t].pc = "idle" /\ task'[t].result = "missing"
           /\ Arg(t) \notin inner
        \/ /\ task[t].pc = "rinner" /\ task'[t].pc = "idle" /\ task'[t].result = "err"
        \/ /\ task[t].pc = "rinner" /\ task'[t].pc = "fillcheck"
           /\ task'[t].result = task[t].result
    <2>1. \A l : Goto(t, l) => task'[t].pc = l /\ task'[t].result = task[t].result
      BY <1>1, GotoMoves, ResultMoves DEF Moved
    <2>2. \A r : Return(t, r) => task'[t].pc = "idle" /\ task'[t].result = r
      BY <1>1, ReturnMoves, ResultMoves DEF Moved
    <2>3. \A r : Become(t, [task[t] EXCEPT !.pc = "fill", !.result = r]) =>
            task'[t].pc = "fill" /\ task'[t].result = r
      <3>1. ASSUME NEW r, Become(t, [task[t] EXCEPT !.pc = "fill", !.result = r])
            PROVE  task'[t].pc = "fill" /\ task'[t].result = r
        <4>1. task'[t] = [task[t] EXCEPT !.pc = "fill", !.result = r]
          BY <1>1, <3>1, OthersStay
        <4> QED
          BY <1>1, <4>1 DEF TaskStates
      <3> QED
        BY <3>1
    <2>4. l1[Arg(t)] \in Copies /\ disk[Arg(t)] \in Copies
      BY <1>1 DEF TypeOK
    <2> QED
      BY <2>1, <2>2, <2>3, <2>4 DEF ReadLookup, At, AsResult, Copies
  <1>6. CASE Alone
    <2>1. SerialInv /\ \A u \in Tasks : u = t
      BY <1>6 DEF FoundInv, Alone
    <2>2. task[t].pc = "rinner" /\ Arg(t) \notin inner => Arg(t) \in deleted \cup lost
      <3>1. ASSUME task[t].pc = "rinner", Arg(t) \notin inner
            PROVE  ~Restarted /\ ~Held(Arg(t))
        <4>1. Batch(t) = {} /\ ~At(t, "idle") /\ Arg(t) \notin dirty_data
          BY <1>1, <2>1, <3>1 DEF KeptInv, BatchInv, SerialInv, At
        <4> QED
          BY <2>1, <3>1, <4>1 DEF Restarted, Held
      <3> QED
        BY <1>1, <1>3, <3>1 DEF KeptInv, NoSliceLost, Retained
    <2>3. /\ l1[Arg(t)] = "short" => Arg(t) \in deleted \cup damaged
          /\ task[t].pc = "rdisk" /\ disk[Arg(t)] = "short" => Arg(t) \in deleted \cup damaged
      BY <1>1, <2>1 DEF SerialInv
    <2>4. AnswerInv(t)'
      BY <1>1, <1>2, <1>3, <1>4, <1>5, <2>2, <2>3 DEF AnswerInv, FlushPcs
    <2>5. SerialInv'
      BY <1>2, <1>3, <1>4, <1>5, <2>1 DEF SerialInv
    <2>6. Lasting => /\ \A s \in written' \ deleted' : l1'[s] = "whole"
                     /\ task'[t].pc \in {"rdisk", "rinner", "fill", "fillcheck", "filldisk"} =>
                          Arg(t)' \in deleted'
                     /\ ~serving' => wal' = {}
      BY <1>2, <1>3, <1>4, <1>5 DEF FoundInv, LastingInv
    <2> QED
      BY <1>1, <1>2, <1>4, <2>4, <2>5, <2>6, FoundStep
  <1>7. CASE Lasting /\ ~Alone
    <2>1. LastingInv
      BY <1>7 DEF FoundInv
    <2>2. /\ l1[Arg(t)] # "whole" => Arg(t) \in deleted
          /\ task[t].pc \in {"rdisk", "rinner"} => Arg(t) \in deleted
      BY <1>3, <2>1 DEF LastingInv
    <2>3. AnswerInv(t)'
      BY <1>1, <1>2, <1>3, <1>4, <1>5, <2>2 DEF AnswerInv, FlushPcs
    <2>4. /\ \A s \in written' \ deleted' : l1'[s] = "whole"
          /\ task'[t].pc \in {"rdisk", "rinner", "fill", "fillcheck", "filldisk"} =>
               Arg(t)' \in deleted'
          /\ ~serving' => wal' = {}
      BY <1>2, <1>3, <1>4, <1>5, <2>1, <2>2 DEF LastingInv
    <2> QED
      BY <1>1, <1>2, <1>4, <1>7, <2>3, <2>4, FoundStep
  <1> QED
    BY <1>6, <1>7

\* With no other writer of the file, a write leaves it whole, gone or damaged.
LEMMA LoneWrite ==
  ASSUME TypeOK, NEW t \in Tasks, Arg(t) \in Slices, \A u \in Tasks : u = t, DiskWritten(t),
         NEW s \in Slices, disk'[s] = "short"
  PROVE  \/ s = Arg(t) /\ s \in damaged'
         \/ s # Arg(t) /\ disk[s] = "short"
  <1>1. \/ disk' = [disk EXCEPT ![Arg(t)] = IF @ = "absent" THEN @ ELSE "whole"]
        \/ disk' = disk /\ damaged' = damaged \cup {Arg(t)}
    BY DEF DiskWritten
  <1> QED
    BY <1>1 DEF TypeOK

LEMMA FoundFill ==
  ASSUME FoundInv, NEW t \in Tasks, FillL1(t) \/ FillBoth(t) \/ FillDisk(t)
  PROVE  FoundInv'
  <1>1. TypeOK /\ KeptInv' /\ KeptInv /\ AnswerInv(t) /\ Arg(t) \in Slices /\ task[t] \in TaskStates
    BY KeptRead, ArgType DEF FoundInv, KeptInv, TypeOK, FillL1, FillBoth, FillDisk, At
  <1>2. /\ UNCHANGED <<dirty_data, wal, inner, serving, written, deleted, lost>>
        /\ damaged \subseteq damaged'
    BY DEF FillL1, FillBoth, FillDisk, DiskWritten, ramVars, logVars, histVars
  <1>3. task[t].pc \in {"fill", "fillcheck", "filldisk"} /\ Arg(t) \in written /\ serving
    BY <1>1 DEF FillL1, FillBoth, FillDisk, At, AnswerInv, ReadPcs, KeptInv, ReplayInv
  <1>4. /\ \A u \in Tasks \ {t} : task'[u] = task[u]
        /\ Arg(t)' = Arg(t) /\ task'[t].pc \in {"idle", "filldisk"}
        /\ task'[t].pc = "filldisk" => task[t].pc = "fillcheck"
    BY <1>1, GotoMoves, ReturnMoves DEF FillL1, FillBoth, FillDisk, DiskCheck, Moved, Arg, At
  <1>5. task'[t].result \in {task[t].result, "ok"}
    BY <1>1, ResultMoves DEF FillL1, FillBoth, FillDisk, DiskCheck
  <1>6. AnswerInv(t)'
    BY <1>1, <1>2, <1>3, <1>4, <1>5 DEF AnswerInv, FlushPcs
  <1>7. /\ \A s \in Slices : s # Arg(t) => l1'[s] = l1[s]
        /\ \/ l1'[Arg(t)] \in {l1[Arg(t)], "whole"}
           \/ l1'[Arg(t)] = "short" /\ task[t].result # "ok" /\ task[t].pc = "fill"
    BY <1>1 DEF FillL1, FillBoth, FillDisk, ramVars, TypeOK, At
  <1>8. ASSUME Alone PROVE SerialInv'
    <2>1. SerialInv /\ \A u \in Tasks : u = t
      BY <1>8 DEF FoundInv, Alone
    <2>2. ASSUME NEW s \in Slices, l1'[s] = "short" PROVE s \in deleted' \cup damaged'
      BY <1>1, <1>2, <1>7, <2>1, <2>2 DEF SerialInv, AnswerInv
    <2>3. ASSUME NEW s \in Slices, disk'[s] = "short"
          PROVE  \/ s \in deleted' \cup damaged'
                 \/ task'[t].pc = "filldisk" /\ Arg(t)' = s
      <3>1. CASE FillL1(t)
        <4>1. disk' = disk /\ task[t].pc = "fill"
          BY <3>1 DEF FillL1, At
        <4> QED
          BY <1>2, <2>1, <2>3, <4>1 DEF SerialInv
      <3>2. CASE FillBoth(t)
        <4>1. /\ task[t].pc = "fillcheck"
              /\ disk' = disk \/ (Goto(t, "filldisk") /\ disk' = [disk EXCEPT ![Arg(t)] = "short"])
          BY <3>2 DEF FillBoth, At, DiskCheck
        <4>2. Goto(t, "filldisk") => task'[t].pc = "filldisk"
          BY <1>1, GotoMoves DEF Moved
        <4> QED
          BY <1>1, <1>2, <1>4, <2>1, <2>3, <4>1, <4>2 DEF SerialInv, TypeOK
      <3>3. CASE FillDisk(t)
        BY <1>1, <1>2, <2>1, <2>3, <3>3, LoneWrite DEF FillDisk, SerialInv
      <3> QED
        BY <3>1, <3>2, <3>3
    <2> QED
      BY <1>4, <2>1, <2>2, <2>3 DEF SerialInv
  <1>9. Lasting => /\ \A s \in written' \ deleted' : l1'[s] = "whole"
                   /\ task'[t].pc \in {"rdisk", "rinner", "fill", "fillcheck", "filldisk"} =>
                        Arg(t)' \in deleted'
                   /\ ~serving' => wal' = {}
    BY <1>1, <1>2, <1>3, <1>4, <1>7 DEF FoundInv, LastingInv, TypeOK
  <1> QED
    BY <1>1, <1>2, <1>4, <1>6, <1>8, <1>9, FoundStep

LEMMA FoundDelete ==
  ASSUME FoundInv, NEW t \in Tasks, DeleteDirty(t) \/ DeleteCopies(t)
  PROVE  FoundInv'
  <1>1. TypeOK /\ KeptInv' /\ KeptInv /\ AnswerInv(t) /\ Arg(t) \in Slices /\ task[t] \in TaskStates
    BY KeptDelete, ArgType DEF FoundInv, KeptInv, TypeOK, DeleteDirty, DeleteCopies, At
  <1>2. /\ UNCHANGED <<wal, serving, written, lost, damaged>>
        /\ deleted \subseteq deleted' /\ dirty_data' \subseteq dirty_data
    BY DEF DeleteDirty, DeleteCopies, logVars, histVars
  <1>3. task[t].pc \in {"ddirty", "dl1", "ddisk", "dinner"} /\ serving
    BY <1>1 DEF DeleteDirty, DeleteCopies, At, KeptInv, ReplayInv
  <1>4. /\ \A u \in Tasks \ {t} : task'[u] = task[u]
        /\ Arg(t)' = Arg(t) /\ task'[t].pc \in {"dl1", "ddisk", "dinner", "idle"}
    BY <1>1, GotoMoves, ReturnMoves DEF DeleteDirty, DeleteCopies, Moved, Arg
  <1>5. task'[t].result \in {task[t].result, "ok"}
    BY <1>1, ResultMoves DEF DeleteDirty, DeleteCopies
  <1>6. AnswerInv(t)'
    BY <1>1, <1>2, <1>3, <1>4, <1>5 DEF AnswerInv, ReadPcs, FlushPcs
  <1>7. /\ \A s \in Slices : l1'[s] = l1[s] \/ (l1'[s] = "absent" /\ s \in deleted)
        /\ \A s \in Slices : disk'[s] = disk[s] \/ disk'[s] = "absent"
    BY <1>1 DEF DeleteDirty, DeleteCopies, TypeOK, KeptInv, DeleteInv, At, Tried
  <1>8. Alone => SerialInv'
    BY <1>2, <1>3, <1>4, <1>7 DEF Alone, FoundInv, SerialInv
  <1>9. Lasting => \A s \in written' \ deleted' : l1'[s] = "whole"
    BY <1>1, <1>2, <1>7 DEF FoundInv, LastingInv, TypeOK
  <1> QED
    BY <1>1, <1>2, <1>3, <1>4, <1>6, <1>8, <1>9, FoundStep

\* How a flush moves: its result is none, an error or "ok".
LEMMA FlushMoves ==
  ASSUME TypeOK, NEW t \in Tasks,
         \/ Drain(t) \/ SettleDisk(t) \/ EndSettle(t) \/ ClearWal(t)
         \/ \E i \in Slices : Put(t, i) \/ SettleStored(t, i) \/ SettleFailed(t, i)
  PROVE  /\ task[t].pc \in FlushPcs
         /\ \A u \in Tasks \ {t} : task'[u] = task[u]
         /\ task'[t].pc \in {"flush", "settledisk", "clear", "idle"}
         /\ task'[t].result \in {task[t].result, "ok", "err"}
  <1>1. /\ task[t] \in TaskStates
        /\ \A new : Become(t, new) =>
             task'[t] = new /\ \A u \in Tasks \ {t} : task'[u] = task[u]
    BY OthersStay DEF TypeOK
  <1>2. /\ \A l : Goto(t, l) => task'[t].pc = l /\ task'[t].result = task[t].result
        /\ \A r : Return(t, r) => task'[t].pc = "idle" /\ task'[t].result = r
        /\ \A l : Goto(t, l) => \A u \in Tasks \ {t} : task'[u] = task[u]
        /\ \A r : Return(t, r) => \A u \in Tasks \ {t} : task'[u] = task[u]
    BY GotoMoves, ReturnMoves, ResultMoves DEF Moved
  <1>3. ASSUME EndFlushInner(t)
        PROVE  /\ \A u \in Tasks \ {t} : task'[u] = task[u]
               /\ task'[t].pc \in {"clear", "idle"}
               /\ task'[t].result \in {task[t].result, "ok", "err"}
    BY <1>2, <1>3 DEF EndFlushInner
  <1>4. CASE Drain(t)
    <2> DEFINE b == [s \in Slices |-> IF s \in dirty_data THEN "putting" ELSE "none"]
    <2>1. ASSUME Become(t, [task[t] EXCEPT !.pc = "flush", !.batch = b])
          PROVE  /\ \A u \in Tasks \ {t} : task'[u] = task[u]
                 /\ task'[t].pc = "flush" /\ task'[t].result = task[t].result
      <3>1. /\ task'[t] = [task[t] EXCEPT !.pc = "flush", !.batch = b]
            /\ \A u \in Tasks \ {t} : task'[u] = task[u]
        BY <2>1, OthersStay
      <3> QED
        BY <1>1, <3>1 DEF TaskStates
    <2> QED
      BY <1>3, <1>4, <2>1 DEF Drain, At, FlushPcs
  <1>5. CASE SettleDisk(t) \/ EndSettle(t) \/ ClearWal(t)
    BY <1>2, <1>3, <1>5 DEF SettleDisk, EndSettle, ClearWal, At, FlushPcs
  <1>6. ASSUME NEW i \in Slices, Put(t, i)
        PROVE  /\ task[t].pc = "flush"
               /\ \A u \in Tasks \ {t} : task'[u] = task[u]
               /\ task'[t].pc = "flush" /\ task'[t].result = task[t].result
    <2>1. PICK b \in {"stored", "failed"} : Become(t, [task[t] EXCEPT !.batch[i] = b])
      BY <1>6 DEF Put
    <2>2. task[t].pc = "flush"
      BY <1>6 DEF Put, At
    <2> QED
      BY <1>1, <2>1, <2>2 DEF TaskStates
  <1>7. ASSUME NEW i \in Slices, SettleStored(t, i)
        PROVE  /\ task[t].pc = "flush"
               /\ \A u \in Tasks \ {t} : task'[u] = task[u]
               /\ task'[t].pc \in {"flush", "settledisk"} /\ task'[t].result = task[t].result
    <2>1. PICK settled : settled = [task[t] EXCEPT !.batch[i] = "none", !.slice = i]
      OBVIOUS
    <2>2. Become(t, settled) \/ Become(t, [settled EXCEPT !.pc = "settledisk"])
      BY <1>7, <2>1 DEF SettleStored, DiskCheck
    <2>3. task[t].pc = "flush"
      BY <1>7 DEF SettleStored, Settling, At
    <2>4. /\ settled.pc = task[t].pc /\ settled.result = task[t].result
          /\ [settled EXCEPT !.pc = "settledisk"].pc = "settledisk"
          /\ [settled EXCEPT !.pc = "settledisk"].result = task[t].result
      BY <1>1, <2>1 DEF TaskStates
    <2> QED
      BY <1>1, <2>2, <2>3, <2>4
  <1>8. ASSUME NEW i \in Slices, SettleFailed(t, i)
        PROVE  /\ task[t].pc = "flush"
               /\ \A u \in Tasks \ {t} : task'[u] = task[u]
               /\ task'[t].pc = "flush" /\ task'[t].result = "err"
    <2>1. Become(t, [task[t] EXCEPT !.batch[i] = "none", !.result = "err"]) /\ task[t].pc = "flush"
      BY <1>8 DEF SettleFailed, Settling, At
    <2>2. /\ task'[t] = [task[t] EXCEPT !.batch[i] = "none", !.result = "err"]
          /\ \A u \in Tasks \ {t} : task'[u] = task[u]
      BY <2>1, OthersStay
    <2> QED
      BY <1>1, <2>1, <2>2 DEF TaskStates
  <1> QED
    BY <1>4, <1>5, <1>6, <1>7, <1>8 DEF FlushPcs

\* What a flush leaves of the L2 file of a slice, with no other task.
LEMMA FlushDisk ==
  ASSUME TypeOK, NEW t \in Tasks, \A u \in Tasks : u = t,
         \/ Drain(t) \/ SettleDisk(t) \/ EndSettle(t) \/ ClearWal(t)
         \/ \E i \in Slices : Put(t, i) \/ SettleStored(t, i) \/ SettleFailed(t, i),
         NEW s \in Slices, disk'[s] = "short"
  PROVE  \/ s \in damaged'
         \/ task'[t].pc = "settledisk" /\ Arg(t)' = s
         \/ disk[s] = "short" /\ task[t].pc # "settledisk"
         \/ disk[s] = "short" /\ Arg(t) # s
  <1>1. CASE Drain(t) \/ EndSettle(t) \/ ClearWal(t)
    BY <1>1 DEF Drain, EndSettle, ClearWal, At
  <1>2. CASE SettleDisk(t)
    <2>1. Arg(t) \in Slices
      BY <1>2, ArgType DEF SettleDisk, At, TypeOK
    <2> QED
      BY <1>2, <2>1, LoneWrite DEF SettleDisk
  <1>3. ASSUME NEW i \in Slices, Put(t, i) \/ SettleFailed(t, i)
        PROVE  disk[s] = "short" /\ task[t].pc # "settledisk"
    BY <1>3 DEF Put, SettleFailed, Settling, At
  <1>4. ASSUME NEW i \in Slices, SettleStored(t, i)
        PROVE  \/ task'[t].pc = "settledisk" /\ Arg(t)' = s
               \/ disk[s] = "short" /\ task[t].pc # "settledisk"
    <2>1. PICK settled : settled = [task[t] EXCEPT !.batch[i] = "none", !.slice = i]
      OBVIOUS
    <2>2. /\ task[t].pc # "settledisk"
          /\ \/ disk' = disk
             \/ /\ Become(t, [settled EXCEPT !.pc = "settledisk"])
                /\ disk' = [disk EXCEPT ![i] = "short"]
      BY <1>4, <2>1 DEF SettleStored, DiskCheck, Settling, At
    <2>3. CASE disk' = disk
      BY <2>2, <2>3
    <2>4. CASE /\ Become(t, [settled EXCEPT !.pc = "settledisk"])
               /\ disk' = [disk EXCEPT ![i] = "short"]
      <3>1. task'[t] = [settled EXCEPT !.pc = "settledisk"]
        BY <2>4, OthersStay
      <3>2. task[t] \in TaskStates
        BY DEF TypeOK
      <3>3. settled.slice = i /\ settled \in TaskStates
        BY <2>1, <3>2, NoSliceAssumption DEF TaskStates
      <3>4. task'[t].pc = "settledisk" /\ Arg(t)' = i
        BY <3>1, <3>3 DEF TaskStates, Arg
      <3> QED
        BY <2>2, <2>4, <3>4 DEF TypeOK
    <2> QED
      BY <2>2, <2>3, <2>4
  <1> QED
    BY <1>1, <1>2, <1>3, <1>4

LEMMA FoundFlush ==
  ASSUME FoundInv, NEW t \in Tasks,
         \/ Drain(t) \/ SettleDisk(t) \/ EndSettle(t) \/ ClearWal(t)
         \/ \E i \in Slices : Put(t, i) \/ SettleStored(t, i) \/ SettleFailed(t, i)
  PROVE  FoundInv'
  <1>1. TypeOK /\ KeptInv' /\ AnswerInv(t) /\ task[t] \in TaskStates
    BY KeptFlush DEF FoundInv, KeptInv, TypeOK
  <1>2. /\ UNCHANGED <<l1, written, deleted, lost>> /\ damaged \subseteq damaged'
        /\ wal' \subseteq wal
        /\ serving => serving'
    <2>1. ASSUME EndFlushInner(t) PROVE serving'
      BY <2>1 DEF EndFlushInner
    <2>2. CASE Drain(t) \/ EndSettle(t)
      BY <2>1, <2>2 DEF Drain, EndSettle, ramVars, logVars, histVars
    <2>3. CASE SettleDisk(t) \/ ClearWal(t)
      BY <2>3 DEF SettleDisk, ClearWal, DiskWritten, ramVars, logVars, histVars
    <2>4. ASSUME NEW i \in Slices, Put(t, i) \/ SettleStored(t, i) \/ SettleFailed(t, i)
          PROVE  UNCHANGED <<l1, written, deleted, lost, damaged, wal, serving>>
      BY <2>4 DEF Put, SettleStored, SettleFailed, ramVars, logVars, histVars
    <2> QED
      BY <2>2, <2>3, <2>4
  <1>3. /\ task[t].pc \in FlushPcs
        /\ \A u \in Tasks \ {t} : task'[u] = task[u]
        /\ task'[t].pc \in {"flush", "settledisk", "clear", "idle"}
        /\ task'[t].result \in {task[t].result, "ok", "err"}
    BY <1>1, FlushMoves
  <1>4. AnswerInv(t)'
    BY <1>1, <1>3 DEF AnswerInv, ReadPcs
  <1>5. ASSUME Alone PROVE SerialInv'
    <2>1. SerialInv /\ \A u \in Tasks : u = t
      BY <1>5 DEF FoundInv, Alone
    <2>2. \A s \in Slices : disk'[s] = "short" =>
             \/ s \in damaged'
             \/ task'[t].pc = "settledisk" /\ Arg(t)' = s
             \/ disk[s] = "short" /\ task[t].pc # "settledisk"
             \/ disk[s] = "short" /\ Arg(t) # s
      BY <1>1, <2>1, FlushDisk
    <2> QED
      BY <1>2, <1>3, <2>1, <2>2 DEF SerialInv, FlushPcs
  <1> QED
    BY <1>1, <1>2, <1>3, <1>4, <1>5, FoundStep DEF FoundInv, LastingInv

LEMMA FoundCrash ==
  ASSUME FoundInv, Crash
  PROVE  FoundInv'
  <1>1. KeptInv' /\ TypeOK /\ TypeOK'
    BY KeptCrash DEF FoundInv, KeptInv
  <1>2. /\ \A u \in Tasks : task'[u].pc = "idle" /\ task'[u].result = "none"
        /\ \A s \in Slices : l1'[s] = "absent"
        /\ \A s \in Slices : disk'[s] = "short" => s \in damaged'
    BY DEF Crash, Idle, Nothing
  <1>3. \A u \in Tasks : AnswerInv(u)'
    BY <1>2 DEF AnswerInv, ReadPcs
  <1>4. SerialInv'
    BY <1>2 DEF SerialInv
  <1> QED
    BY <1>1, <1>3, <1>4 DEF FoundInv, Lasting, Crash

LEMMA FoundReplay ==
  ASSUME FoundInv, NEW t \in Tasks, ReplayWal(t)
  PROVE  FoundInv'
  <1>1. TypeOK /\ KeptInv' /\ AnswerInv(t) /\ task[t] \in TaskStates /\ task[t].pc = "idle"
    BY KeptReplay DEF FoundInv, KeptInv, TypeOK, ReplayWal, At
  <1>2. /\ UNCHANGED <<disk, wal, written, deleted, damaged>>
        /\ ~serving /\ lost \subseteq lost'
        /\ \A s \in Slices : l1'[s] = "whole" \/ l1'[s] = l1[s]
    BY <1>1 DEF ReplayWal, logVars, TypeOK
  <1>3. /\ \A u \in Tasks \ {t} : task'[u] = task[u]
        /\ task'[t].pc \in {"idle", "drain"} /\ Arg(t)' = Arg(t)
        /\ task'[t].result = task[t].result
    BY <1>1, GotoMoves, ResultMoves DEF ReplayWal, Moved, Arg
  <1>4. AnswerInv(t)'
    BY <1>1, <1>2, <1>3 DEF AnswerInv, ReadPcs
  <1>5. Alone => SerialInv'
    BY <1>1, <1>2, <1>3 DEF Alone, FoundInv, SerialInv
  <1>6. Lasting => \A s \in written' \ deleted' : l1'[s] = "whole"
    BY <1>1, <1>2 DEF FoundInv, LastingInv, TypeOK
  <1>7. Lasting => wal' = {}
    BY <1>2 DEF FoundInv, LastingInv
  <1> QED
    BY <1>1, <1>2, <1>3, <1>4, <1>5, <1>6, <1>7, FoundStep

\* Eviction and the waiter of the Notify move no task.
LEMMA FoundQuiet ==
  ASSUME FoundInv, \/ \E s \in Slices : Evict(s)
                   \/ Notified
                   \/ UNCHANGED vars
  PROVE  FoundInv'
  <1>1. KeptInv' /\ TypeOK
    BY KeptNext DEF FoundInv, KeptInv, Next, Environment
  <1>2. /\ UNCHANGED <<task, dirty_data, disk, wal, serving, written, deleted, lost, damaged>>
        /\ \A s \in Slices : l1'[s] = l1[s] \/ (L1Evicts /\ l1'[s] = "absent")
    BY <1>1 DEF Evict, Notified, vars, tierVars, ramVars, logVars, histVars, TypeOK
  <1>3. \A u \in Tasks : AnswerInv(u)'
    BY <1>2 DEF FoundInv, AnswerInv, Arg
  <1>4. Alone => SerialInv'
    BY <1>2 DEF FoundInv, SerialInv, Arg
  <1>5. Lasting => LastingInv'
    BY <1>1, <1>2 DEF FoundInv, Lasting, LastingInv, Arg, TypeOK
  <1> QED
    BY <1>1, <1>3, <1>4, <1>5 DEF FoundInv

LEMMA FoundNext ==
  ASSUME FoundInv, Alone \/ Lasting, [Next]_vars
  PROVE  FoundInv'
  <1>1. ASSUME NEW t \in Tasks, StartCall(t) \/ CallStep(t) PROVE FoundInv'
    BY <1>1, FoundStartCall, FoundWrite, FoundLookup, FoundFill, FoundDelete, FoundFlush
    DEF CallStep
  <1>2. ASSUME Environment PROVE FoundInv'
    BY <1>2, FoundQuiet, FoundCrash, FoundReplay DEF Environment
  <1> QED
    BY <1>1, <1>2, FoundQuiet DEF Next

\* A cache with one caller, or with an L1 that never evicts and no crash:
\* a read of a slice neither deleted nor lost finds it, and finds it whole
\* unless its L2 file was left incomplete (cache.rs:219-242).
THEOREM ReadsFindSlices == Alone \/ Lasting => (Spec => []ReadsSucceed)
  <1>1. FoundInv => ReadsSucceed
    BY DEF FoundInv, AnswerInv, ReadsSucceed
  <1>2. ASSUME Alone \/ Lasting PROVE Spec => []ReadsSucceed
    <2>1. FoundInv /\ [Next]_vars => FoundInv'
      BY <1>2, FoundNext
    <2> QED
      BY <1>1, <2>1, FoundInit, PTL DEF Spec
  <1> QED
    BY <1>2

=============================================================================
