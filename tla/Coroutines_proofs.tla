-------------------------- MODULE Coroutines_proofs --------------------------
(***************************************************************************)
(* Proofs about Coroutines for any number of slots, ids and handles: type   *)
(* correctness, that the slot the scheduler works on stays its own, and     *)
(* what becomes of every coroutine and of its outcome.                      *)
(***************************************************************************)
EXTENDS Coroutines, TLAPS

(* A slot has an id exactly while it is in use. *)
UsedInv == \A i \in Slot : slots[i].state = "NOT_USED" <=> slots[i].id = 0

(* slotsLock keeps the slot of a KitsuneCancel in use. *)
CancelInv == cancel.at # "none" => Used(cancel.slot)

(* From lua_resume to the end of FinishCoroutine the scheduler has one slot, *)
(* and nobody else frees, reuses or ends it. *)
RunInv ==
  pc \in {"continue", "run", "handler", "release"} =>
    /\ runId # 0
    /\ slots[cur].id = runId
    /\ ~slots[cur].isInline
    /\ pc \in {"continue", "run"} => slots[cur].state \in {"WORKING", "ABORTED"}

(* While the scheduler is at a slot, cur is one. *)
CurInv == pc \in {"continue", "run", "handler", "release"} => cur \in Slot

TypeInv == TypeOK /\ CurInv
Inv == TypeInv /\ UsedInv /\ CancelInv /\ RunInv

------------------------------------------------------------------------------
(* The record of a slot. *)

(* A field may be set to any value of its type. *)
LEMMA FieldUpdates ==
  ASSUME NEW c \in Coroutine
  PROVE  /\ \A s \in States : [c EXCEPT !.state = s] \in Coroutine
         /\ \A b \in BOOLEAN : [c EXCEPT !.fireAndForget = b] \in Coroutine
         /\ \A b \in BOOLEAN : [c EXCEPT !.apiOwned = b] \in Coroutine
         /\ \A b \in BOOLEAN : [c EXCEPT !.isInline = b] \in Coroutine
         /\ \A b \in BOOLEAN : [c EXCEPT !.timed = b] \in Coroutine
         /\ \A b \in BOOLEAN : [c EXCEPT !.continuation = b] \in Coroutine
         /\ \A n \in 0..MaxRefs : [c EXCEPT !.luaRefCount = n] \in Coroutine
         /\ \A o \in Outcomes : [c EXCEPT !.outcome = o] \in Coroutine
         /\ \A n \in 0..MaxId : [c EXCEPT !.waitingForId = n] \in Coroutine
         /\ \A n \in 0..MaxId : [c EXCEPT !.id = n] \in Coroutine
  BY DEF Coroutine

(* What StopWaiting makes of a slot. *)
LEMMA StopWaitingType ==
  ASSUME TypeOK, NEW i \in Slot, NEW s \in States
  PROVE  /\ StopWaiting(i, s) \in Coroutine
         /\ StopWaiting(i, s).state = s
         /\ StopWaiting(i, s).id = slots[i].id
         /\ StopWaiting(i, s).isInline = slots[i].isInline
<1> DEFINE c1 == [slots[i] EXCEPT !.state = s]
           c2 == [c1 EXCEPT !.waitingForId = 0]
           c3 == [c2 EXCEPT !.timed = FALSE]
<1>0. 0 \in 0..MaxId
  BY BoundAssumption
<1>1. c1 \in Coroutine
  BY FieldUpdates DEF TypeOK
<1>2. c2 \in Coroutine
  BY <1>0, <1>1, FieldUpdates
<1>3. c3 \in Coroutine
  BY <1>2, FieldUpdates
<1>4. c3 = StopWaiting(i, s)
  BY DEF StopWaiting
<1>5. c3.state = s /\ c3.id = slots[i].id /\ c3.isInline = slots[i].isInline
  BY DEF TypeOK, Coroutine
<1> QED
  BY <1>3, <1>4, <1>5

(* A fresh slot, and one that was just acquired. *)
LEMMA FreshTypes ==
  /\ Zeroed \in Coroutine
  /\ Working \in Coroutine
<1>1. 0 \in 0..MaxId /\ 0 \in 0..MaxRefs
  BY BoundAssumption
<1>2. Zeroed \in Coroutine
  BY <1>1, Zenon DEF Coroutine, Zeroed, States, Outcomes
<1>3. Working \in Coroutine
  BY <1>2, FieldUpdates DEF Working, States
<1> QED
  BY <1>2, <1>3

(* What AcquireSlot does to the types. *)
LEMMA AcquireSlotType ==
  ASSUME TypeOK, NEW i \in Slot, NEW fields \in Coroutine, NEW f \in Fates,
         AcquireSlot(i, fields, f)
  PROVE  /\ slots' \in [Slot -> Coroutine]
         /\ fate' \in [Id -> Fates]
         /\ nextId' \in 0..MaxId
<1>1. nextId' = nextId + 1 /\ nextId' \in 0..MaxId
  BY BoundAssumption DEF AcquireSlot, TypeOK
<1>2. slots' \in [Slot -> Coroutine]
  BY <1>1, FieldUpdates DEF AcquireSlot, TypeOK
<1>3. Gone({i}) \in [Id -> Fates]
  BY DEF Gone, TypeOK, Fates
<1>4. fate' \in [Id -> Fates]
  BY <1>3 DEF AcquireSlot
<1> QED
  BY <1>1, <1>2, <1>4

(* The slots that host threads and Lua code acquire. *)
LEMMA AcquiredTypes ==
  /\ \A forget \in BOOLEAN :
       /\ [Working EXCEPT !.apiOwned = TRUE, !.fireAndForget = forget] \in Coroutine
       /\ [Zeroed EXCEPT !.apiOwned = TRUE, !.fireAndForget = forget, !.outcome = "error",
             !.state = IF forget THEN "RELEASED" ELSE "DONE"] \in Coroutine
  /\ [Working EXCEPT !.luaRefCount = 1] \in Coroutine
  /\ [Working EXCEPT !.isInline = TRUE] \in Coroutine
<1>1. 1 \in 0..MaxRefs
  BY BoundAssumption
<1>2. ASSUME NEW forget \in BOOLEAN
      PROVE  [Working EXCEPT !.apiOwned = TRUE, !.fireAndForget = forget] \in Coroutine
  <2>1. [Working EXCEPT !.apiOwned = TRUE] \in Coroutine
    BY FreshTypes, FieldUpdates
  <2> QED
    BY <2>1, FieldUpdates
<1>3. ASSUME NEW forget \in BOOLEAN
      PROVE  [Zeroed EXCEPT !.apiOwned = TRUE, !.fireAndForget = forget, !.outcome = "error",
                !.state = IF forget THEN "RELEASED" ELSE "DONE"] \in Coroutine
  <2> DEFINE c1 == [Zeroed EXCEPT !.apiOwned = TRUE]
             c2 == [c1 EXCEPT !.fireAndForget = forget]
             c3 == [c2 EXCEPT !.outcome = "error"]
  <2>1. c1 \in Coroutine
    BY FreshTypes, FieldUpdates
  <2>2. c2 \in Coroutine
    BY <2>1, FieldUpdates
  <2>3. c3 \in Coroutine
    BY <2>2, FieldUpdates DEF Outcomes
  <2>4. (IF forget THEN "RELEASED" ELSE "DONE") \in States
    BY DEF States
  <2>5. [c3 EXCEPT !.state = IF forget THEN "RELEASED" ELSE "DONE"] \in Coroutine
    BY <2>3, <2>4, FieldUpdates
  <2> QED
    BY <2>5
<1> QED
  BY <1>1, <1>2, <1>3, FreshTypes, FieldUpdates

------------------------------------------------------------------------------
(* Type correctness. *)

(* The pass moves on to the next index. *)
LEMMA NextSlotType ==
  ASSUME TypeOK, cur \in Slot, NextSlot
  PROVE  pc' \in Labels /\ cur' \in 1..MaxSlots + 1 /\ runId' \in 0..MaxId /\ CurInv'
  BY BoundAssumption DEF NextSlot, TypeOK, Slot, Labels, CurInv

(* The steps of the scheduler keep the types. *)
LEMMA SchedulerType == TypeInv /\ Scheduler => TypeInv'
<1> SUFFICES ASSUME TypeOK, CurInv, Scheduler PROVE TypeOK' /\ CurInv'
  BY DEF TypeInv
<1>1. CASE BeginPass
  BY <1>1, BoundAssumption DEF BeginPass, TypeOK, CurInv, Labels, history
<1>2. CASE EndPass
  BY <1>2, BoundAssumption DEF EndPass, TypeOK, CurInv, Labels, history
<1>3. CASE InterruptSlot
  <2>1. slots' \in [Slot -> Coroutine]
    <3>1. [StopWaiting(cur, "RELEASED") EXCEPT !.outcome = "error"] \in Coroutine
      BY <1>3, StopWaitingType, FieldUpdates DEF InterruptSlot, States, Outcomes
    <3> QED
      BY <1>3, <3>1 DEF InterruptSlot, TypeOK
  <2>2. fate' \in [Id -> Fates]
    BY <1>3 DEF InterruptSlot, Settle, TypeOK, Fates
  <2>3. cur' \in 1..MaxSlots + 1
    BY <1>3, BoundAssumption DEF InterruptSlot, Slot
  <2> QED
    BY <1>3, <2>1, <2>2, <2>3 DEF InterruptSlot, TypeOK, CurInv
<1>4. CASE VisitSkip
  BY <1>4, NextSlotType DEF VisitSkip, TypeOK
<1>5. CASE VisitAborted
  <2>1. slots' \in [Slot -> Coroutine]
    BY <1>5, FieldUpdates DEF VisitAborted, TypeOK, States, Outcomes
  <2> QED
    BY <1>5, <2>1, NextSlotType DEF VisitAborted, TypeOK
<1>6. CASE VisitResume
  <2>1. slots' \in [Slot -> Coroutine]
    BY <1>6, StopWaitingType DEF VisitResume, TypeOK, States
  <2>2. runId' \in 0..MaxId
    BY <1>6 DEF VisitResume, TypeOK, Coroutine
  <2> QED
    BY <1>6, <2>1, <2>2 DEF VisitResume, TypeOK, CurInv, Labels
<1>7. CASE SleepContinuation
  <2>1. slots' \in [Slot -> Coroutine]
    BY <1>7, FieldUpdates DEF SleepContinuation, TypeOK, CurInv, States
  <2> QED
    BY <1>7, <2>1 DEF SleepContinuation, TypeOK, CurInv, Labels, history
<1>8. CASE HandlerReturns
  BY <1>8 DEF HandlerReturns, TypeOK, CurInv, Labels, history
<1>9. CASE ReleaseIfForgotten
  <2>0. cur \in Slot
    BY <1>9 DEF ReleaseIfForgotten, CurInv
  <2>1. slots' \in [Slot -> Coroutine]
    <3>1. [slots EXCEPT ![cur].state = "RELEASED"] \in [Slot -> Coroutine]
      BY <2>0, FieldUpdates DEF TypeOK, States
    <3>2. slots' = [slots EXCEPT ![cur].state = "RELEASED"] \/ slots' = slots
      BY <1>9, Zenon DEF ReleaseIfForgotten
    <3> QED
      BY <3>1, <3>2 DEF TypeOK
  <2>2. fate' \in [Id -> Fates]
    BY <1>9 DEF ReleaseIfForgotten, TypeOK, Fates
  <2> QED
    BY <1>9, <2>0, <2>1, <2>2, NextSlotType DEF ReleaseIfForgotten, TypeOK
<1>10. CASE ClearInterrupt
  <2>1. interrupt' \in BOOLEAN
    BY <1>10, Zenon DEF ClearInterrupt
  <2> QED
    BY <1>10, <2>1 DEF ClearInterrupt, TypeOK, CurInv, Labels, history
<1>11. CASE Sweep
  <2>1. slots' \in [Slot -> Coroutine]
    BY <1>11, FreshTypes DEF Sweep, TypeOK
  <2>2. fate' \in [Id -> Fates]
    BY <1>11 DEF Sweep, Gone, TypeOK, Fates
  <2> QED
    BY <1>11, <2>1, <2>2 DEF Sweep, TypeOK, CurInv, Labels
<1> QED
  BY <1>1, <1>2, <1>3, <1>4, <1>5, <1>6, <1>7, <1>8, <1>9, <1>10, <1>11 DEF Scheduler

(* FinishCoroutine, which a coroutine reaches by a return or an error. *)
LEMMA FinishType ==
  ASSUME TypeOK, cur \in Slot, NEW o \in Outcomes, FinishCoroutine(o)
  PROVE  TypeOK' /\ CurInv'
<1>1. slots' \in [Slot -> Coroutine]
  BY FieldUpdates DEF FinishCoroutine, TypeOK, States
<1>2. fate' \in [Id -> Fates]
  BY DEF FinishCoroutine, TypeOK, Fates
<1> QED
  BY <1>1, <1>2 DEF FinishCoroutine, TypeOK, CurInv, Labels

(* The steps of the running coroutine keep the types. *)
LEMMA RunningType == TypeInv /\ Running => TypeInv'
<1> SUFFICES ASSUME TypeOK, CurInv, Running PROVE TypeOK' /\ CurInv'
  BY DEF TypeInv
<1>0. pc = "run" /\ cur \in Slot
  BY DEF Running, Yield, Sleep, Pause, Return, TickerRaises, Wait, CurInv
<1>1. CASE Yield
  BY <1>0, <1>1, NextSlotType DEF Yield, TypeOK
<1>2. CASE Sleep
  <2>1. slots' \in [Slot -> Coroutine]
    <3>1. PICK state \in {"WORKING", "SLEEPING"} :
            slots' = [slots EXCEPT ![cur].state = IF Aborted(cur) THEN @ ELSE state,
                                   ![cur].continuation = TRUE]
      BY <1>2 DEF Sleep
    <3>2. (IF Aborted(cur) THEN slots[cur].state ELSE state) \in States
      BY <1>0 DEF TypeOK, Coroutine, States
    <3> QED
      BY <1>0, <3>1, <3>2, FieldUpdates DEF TypeOK
  <2> QED
    BY <1>0, <1>2, <2>1, NextSlotType DEF Sleep, TypeOK
<1>3. CASE Pause
  <2>1. (IF Aborted(cur) THEN slots[cur].state ELSE "PAUSED") \in States
    BY <1>0 DEF TypeOK, Coroutine, States
  <2>2. slots' \in [Slot -> Coroutine]
    BY <1>0, <1>3, <2>1, FieldUpdates DEF Pause, TypeOK
  <2> QED
    BY <1>0, <1>3, <2>2, NextSlotType DEF Pause, TypeOK
<1>4. ASSUME NEW t \in Slot, NEW timeout \in BOOLEAN, Wait(t, timeout)
      PROVE  TypeOK' /\ CurInv'
  <2>1. slots[t].id \in 0..MaxId
    BY DEF TypeOK, Coroutine
  <2>2. slots' \in [Slot -> Coroutine]
    BY <1>0, <1>4, <2>1, FieldUpdates DEF Wait, TypeOK, States
  <2> QED
    BY <1>0, <1>4, <2>2, NextSlotType DEF Wait, TypeOK
<1>5. CASE Return
  BY <1>0, <1>5, FinishType DEF Return, Outcomes
<1>6. CASE TickerRaises
  BY <1>0, <1>6, FinishType DEF TickerRaises, Outcomes
<1> QED
  BY <1>1, <1>2, <1>3, <1>4, <1>5, <1>6 DEF Running

(* GetResult and ConsumeResult. *)
LEMMA TakeType ==
  ASSUME TypeOK, CurInv, NEW i \in Slot, Take(i)
  PROVE  TypeOK' /\ CurInv'
<1>1. (IF slots[i].outcome = "value" THEN "none" ELSE slots[i].outcome) \in Outcomes
  BY DEF TypeOK, Coroutine, Outcomes
<1>2. slots' \in [Slot -> Coroutine]
  BY <1>1, FieldUpdates DEF Take, TypeOK, States
<1>3. fate' \in [Id -> Fates]
  BY DEF Take, Settle, TypeOK, Fates
<1> QED
  BY <1>2, <1>3 DEF Take, TypeOK, CurInv

(* The operations of Lua code on a task keep the types. *)
LEMMA LuaCodeType ==
  ASSUME TypeInv, NEW i \in Slot, LuaCode(i)
  PROVE  TypeInv'
<1> SUFFICES TypeOK' /\ CurInv'
  BY DEF TypeInv
<1>0. TypeOK /\ CurInv
  BY DEF TypeInv
<1>1. CASE TasksNew(i)
  <2>1. /\ slots' \in [Slot -> Coroutine]
        /\ fate' \in [Id -> Fates]
        /\ nextId' \in 0..MaxId
    BY <1>0, <1>1, AcquiredTypes, AcquireSlotType DEF TasksNew, Fates
  <2> QED
    BY <1>0, <1>1, <2>1 DEF TasksNew, TypeOK, CurInv
<1>2. CASE TaskOpen(i)
  <2>1. slots[i].luaRefCount + 1 \in 0..MaxRefs
    BY <1>0, <1>2, BoundAssumption DEF TaskOpen, TypeOK, Coroutine
  <2>2. slots' \in [Slot -> Coroutine]
    BY <1>0, <1>2, <2>1, FieldUpdates DEF TaskOpen, TypeOK
  <2> QED
    BY <1>0, <1>2, <2>2 DEF TaskOpen, TypeOK, CurInv, history
<1>3. CASE TaskDispose(i)
  <2>1. slots' \in [Slot -> Coroutine]
    <3>1. CASE slots[i].luaRefCount > 1
      <4>1. slots[i].luaRefCount - 1 \in 0..MaxRefs
        BY <1>0, <3>1, BoundAssumption DEF TypeOK, Coroutine
      <4> QED
        BY <1>0, <1>3, <3>1, <4>1, FieldUpdates DEF TaskDispose, TypeOK
    <3>2. CASE ~(slots[i].luaRefCount > 1)
      <4> DEFINE to == IF Finished(i) THEN "RELEASED"
                       ELSE IF slots[i].state = "PAUSED" THEN "ABORTED"
                       ELSE slots[i].state
                 fnf == slots[i].fireAndForget \/ to \notin {"RELEASED", "ABORTED"}
                                               \/ slots[i].state = "ABORTED"
                 c1 == [slots[i] EXCEPT !.luaRefCount = 0]
                 c2 == [c1 EXCEPT !.state = to]
      <4>1. to \in States
        BY <1>0 DEF TypeOK, Coroutine, States
      <4>2. fnf \in BOOLEAN
        BY Zenon
      <4>3. 0 \in 0..MaxRefs
        BY BoundAssumption
      <4>4. c1 \in Coroutine
        BY <1>0, <4>3, FieldUpdates DEF TypeOK
      <4>5. c2 \in Coroutine
        BY <4>1, <4>4, FieldUpdates
      <4>6. [c2 EXCEPT !.fireAndForget = fnf] \in Coroutine
        BY <4>2, <4>5, FieldUpdates
      <4>7. slots' = [slots EXCEPT ![i] = [c2 EXCEPT !.fireAndForget = fnf]]
        BY <1>0, <1>3, <3>2 DEF TaskDispose, TypeOK
      <4> QED
        BY <1>0, <4>6, <4>7 DEF TypeOK
    <3> QED
      BY <3>1, <3>2
  <2>2. fate' \in [Id -> Fates]
    BY <1>0, <1>3 DEF TaskDispose, Settle, TypeOK, Fates
  <2> QED
    BY <1>0, <1>3, <2>1, <2>2 DEF TaskDispose, TypeOK, CurInv
<1>4. CASE TaskCancel(i)
  <2>1. slots' \in [Slot -> Coroutine]
    BY <1>0, <1>4, StopWaitingType DEF TaskCancel, TypeOK, States
  <2>2. fate' \in [Id -> Fates]
    BY <1>0, <1>4 DEF TaskCancel, Settle, TypeOK, Fates
  <2> QED
    BY <1>0, <1>4, <2>1, <2>2 DEF TaskCancel, TypeOK, CurInv
<1>5. CASE TaskConsumeResult(i)
  BY <1>0, <1>5, TakeType DEF TaskConsumeResult
<1>6. CASE Resume(i)
  <2>1. slots' \in [Slot -> Coroutine]
    BY <1>0, <1>6, StopWaitingType DEF Resume, TypeOK, States
  <2> QED
    BY <1>0, <1>6, <2>1 DEF Resume, TypeOK, CurInv, history
<1> QED
  BY <1>1, <1>2, <1>3, <1>4, <1>5, <1>6 DEF LuaCode

(* The operations of host threads keep the types. *)
LEMMA HostType ==
  ASSUME TypeInv, NEW i \in Slot, Host(i)
  PROVE  TypeInv'
<1> SUFFICES TypeOK' /\ CurInv'
  BY DEF TypeInv
<1>0. TypeOK /\ CurInv
  BY DEF TypeInv
<1>1. ASSUME NEW forget \in BOOLEAN, StartCoroutine(i, forget)
      PROVE  TypeOK' /\ CurInv'
  <2>1. /\ slots' \in [Slot -> Coroutine]
        /\ fate' \in [Id -> Fates]
        /\ nextId' \in 0..MaxId
    <3> DEFINE good == [Working EXCEPT !.apiOwned = TRUE, !.fireAndForget = forget]
               bad == [Zeroed EXCEPT !.apiOwned = TRUE, !.fireAndForget = forget,
                         !.outcome = "error",
                         !.state = IF forget THEN "RELEASED" ELSE "DONE"]
               badFate == IF forget THEN "settled" ELSE "ended"
    <3>1. good \in Coroutine /\ bad \in Coroutine
      BY AcquiredTypes
    <3>2. "live" \in Fates /\ badFate \in Fates
      BY DEF Fates
    <3>3. AcquireSlot(i, good, "live") \/ AcquireSlot(i, bad, badFate)
      BY <1>1 DEF StartCoroutine
    <3> HIDE DEF good, bad, badFate
    <3> QED
      BY <1>0, <3>1, <3>2, <3>3, AcquireSlotType
  <2> QED
    BY <1>0, <1>1, <2>1 DEF StartCoroutine, TypeOK, CurInv
<1>2. CASE InlineStart(i)
  <2>1. /\ slots' \in [Slot -> Coroutine]
        /\ fate' \in [Id -> Fates]
        /\ nextId' \in 0..MaxId
    BY <1>0, <1>2, AcquiredTypes, AcquireSlotType DEF InlineStart, Fates
  <2> QED
    BY <1>0, <1>2, <2>1 DEF InlineStart, TypeOK, CurInv
<1>3. CASE InlineEnd(i)
  <2>1. slots' \in [Slot -> Coroutine] /\ fate' \in [Id -> Fates]
    BY <1>0, <1>3, FreshTypes DEF InlineEnd, TypeOK, Fates
  <2> QED
    BY <1>0, <1>3, <2>1 DEF InlineEnd, TypeOK, CurInv
<1>4. CASE GetResult(i)
  BY <1>0, <1>4, TakeType DEF GetResult
<1>5. CASE ReleaseResult(i)
  <2>1. slots' \in [Slot -> Coroutine]
    BY <1>0, <1>5, FieldUpdates DEF ReleaseResult, TypeOK, States
  <2>2. fate' \in [Id -> Fates]
    BY <1>0, <1>5 DEF ReleaseResult, Settle, TypeOK, Fates
  <2> QED
    BY <1>0, <1>5, <2>1, <2>2 DEF ReleaseResult, TypeOK, CurInv
<1>6. CASE Cancel(i)
  <2>1. slots' \in [Slot -> Coroutine]
    <3>1. [slots EXCEPT ![i].state = "RELEASED"] \in [Slot -> Coroutine]
      BY <1>0, FieldUpdates DEF TypeOK, States
    <3>2. slots' = [slots EXCEPT ![i].state = "RELEASED"] \/ slots' = slots
      BY <1>6 DEF Cancel
    <3> QED
      BY <1>0, <3>1, <3>2 DEF TypeOK
  <2>2. fate' \in [Id -> Fates]
    BY <1>0, <1>6 DEF Cancel, Settle, TypeOK, Fates
  <2> QED
    BY <1>0, <1>6, <2>1, <2>2 DEF Cancel, TypeOK, CurInv
<1> QED
  BY <1>1, <1>2, <1>3, <1>4, <1>5, <1>6 DEF Host

(* Every step keeps the types. *)
LEMMA TypeNext == TypeInv /\ [Next]_vars => TypeInv'
<1> SUFFICES ASSUME TypeInv, [Next]_vars PROVE TypeInv'
  OBVIOUS
<1>0. TypeOK /\ CurInv
  BY DEF TypeInv
<1>1. CASE CancelMark
  <2>1. slots' \in [Slot -> Coroutine]
    BY <1>0, <1>1, FieldUpdates DEF CancelMark, TypeOK
  <2> QED
    BY <1>0, <1>1, <2>1 DEF CancelMark, TypeOK, TypeInv, CurInv, history
<1>2. CASE CancelStore
  <2>1. slots' \in [Slot -> Coroutine]
    BY <1>0, <1>2, StopWaitingType DEF CancelStore, TypeOK, States
  <2>2. 1 \in Slot
    BY BoundAssumption DEF Slot
  <2> QED
    BY <1>0, <1>2, <2>1, <2>2 DEF CancelStore, TypeOK, TypeInv, CurInv, history
<1>3. CASE KitsuneInterrupt
  <2>1. interrupt' \in BOOLEAN
    BY <1>3, Zenon DEF KitsuneInterrupt
  <2> QED
    BY <1>0, <1>3, <2>1 DEF KitsuneInterrupt, TypeOK, TypeInv, CurInv, history
<1>4. CASE UNCHANGED vars
  BY <1>0, <1>4 DEF vars, history, TypeOK, TypeInv, CurInv
<1> QED
  BY <1>1, <1>2, <1>3, <1>4, SchedulerType, RunningType, LuaCodeType, HostType DEF Next

(* The initial state: no slot is in use. *)
LEMMA InitType == Init => TypeInv
<1> SUFFICES ASSUME Init PROVE TypeInv
  OBVIOUS
<1>1. slots \in [Slot -> Coroutine]
  BY FreshTypes DEF Init
<1>2. 1 \in Slot /\ 1 \in 1..MaxSlots + 1 /\ 0 \in 0..MaxId
  BY BoundAssumption DEF Slot
<1>3. interrupt \in BOOLEAN
  BY Zenon DEF Init
<1> QED
  BY <1>1, <1>2, <1>3 DEF Init, TypeOK, TypeInv, CurInv, Labels, Fates

(* The fields of every slot, the ids and the place of the scheduler in its    *)
(* pass stay in their ranges, for any number of slots.                       *)
THEOREM TypeCorrect == Spec => []TypeOK
<1>1. TypeInv => TypeOK
  BY DEF TypeInv
<1> QED
  BY <1>1, InitType, TypeNext, PTL DEF Spec

------------------------------------------------------------------------------
(* The slot of the running coroutine. *)

(* A step that changes one slot, does not move the scheduler, and keeps a     *)
(* slot that is WORKING or ABORTED so, keeps the invariant.                   *)
LEMMA OneSlotStep ==
  ASSUME Inv, NEW i \in Slot, NEW c \in Coroutine,
         slots' = [slots EXCEPT ![i] = c],
         c.id = slots[i].id, c.isInline = slots[i].isInline,
         slots[i].id # 0, c.state # "NOT_USED",
         slots[i].state \in {"WORKING", "ABORTED"} => c.state \in {"WORKING", "ABORTED"},
         UNCHANGED <<pc, cur, runId>>,
         cancel' = cancel \/ cancel'.at = "none" \/ cancel'.slot = i
  PROVE  UsedInv' /\ CancelInv' /\ RunInv'
<1>0. slots \in [Slot -> Coroutine] /\ cancel.slot \in Slot
  BY DEF Inv, TypeInv, TypeOK
<1>1. \A j \in Slot : slots'[j].id = slots[j].id /\ slots'[j].isInline = slots[j].isInline
  BY <1>0
<1>2. UsedInv'
  BY <1>0, <1>1 DEF Inv, UsedInv
<1>3. CancelInv'
  BY <1>0, <1>1 DEF Inv, CancelInv, Used
<1>4. RunInv'
  <2> SUFFICES ASSUME pc' \in {"continue", "run", "handler", "release"} PROVE RunInv'
    BY DEF RunInv
  <2>1. cur \in Slot /\ cur' = cur /\ pc' = pc /\ runId' = runId
    BY DEF Inv, TypeInv, CurInv
  <2>2. slots'[cur].id = slots[cur].id /\ slots'[cur].isInline = slots[cur].isInline
    BY <1>1, <2>1
  <2>3. slots[cur].state \in {"WORKING", "ABORTED"} => slots'[cur].state \in {"WORKING", "ABORTED"}
    BY <1>0, <2>1
  <2> QED
    BY <2>1, <2>2, <2>3 DEF Inv, RunInv
<1> QED
  BY <1>2, <1>3, <1>4

(* A slot is acquired only from those that are unused or RELEASED, and not     *)
(* while an error handler runs.                                              *)
LEMMA AcquireSlotStep ==
  ASSUME Inv, NEW i \in Slot, NEW fields \in Coroutine, NEW f,
         AcquireSlot(i, fields, f), fields.state # "NOT_USED",
         pc \notin {"handler", "release"}, UNCHANGED <<pc, cur, cancel, runId>>
  PROVE  UsedInv' /\ CancelInv' /\ RunInv'
<1>0. slots \in [Slot -> Coroutine] /\ nextId \in 0..MaxId
  BY DEF Inv, TypeInv, TypeOK
<1>1. slots' = [slots EXCEPT ![i] = [fields EXCEPT !.id = nextId + 1]] /\ nextId + 1 # 0
  BY <1>0, BoundAssumption DEF AcquireSlot
<1>2. slots'[i].id # 0 /\ slots'[i].state # "NOT_USED"
  BY <1>0, <1>1 DEF Coroutine
<1>3. \A j \in Slot \ {i} : slots'[j] = slots[j]
  BY <1>0, <1>1
<1>4. UsedInv'
  BY <1>2, <1>3 DEF Inv, UsedInv
<1>5. CancelInv'
  BY DEF AcquireSlot, SlotsLockFree, CancelInv
<1>6. slots[i].id = 0 \/ slots[i].state = "RELEASED"
  BY DEF AcquireSlot, Acquirable, First, Used
<1>7. RunInv'
  <2> SUFFICES ASSUME pc \in {"continue", "run"} PROVE RunInv'
    BY DEF RunInv
  <2>1. cur \in Slot /\ cur # i
    BY <1>6 DEF Inv, TypeInv, CurInv, RunInv
  <2> QED
    BY <1>3, <2>1 DEF Inv, RunInv
<1> QED
  BY <1>4, <1>5, <1>7

(* Steps in which the pass moves on to the next slot. *)
LEMMA NextSlotStep ==
  ASSUME NextSlot PROVE RunInv'
  BY DEF NextSlot, RunInv

(* The steps of the scheduler keep the slot of the running coroutine. *)
LEMMA SchedulerStep ==
  ASSUME Inv, Scheduler
  PROVE  UsedInv' /\ CancelInv' /\ RunInv'
<1>0. /\ slots \in [Slot -> Coroutine] /\ cancel.slot \in Slot
      /\ UsedInv /\ CancelInv /\ RunInv /\ CurInv /\ TypeOK
  BY DEF Inv, TypeInv, TypeOK
<1>1. CASE BeginPass
  BY <1>0, <1>1 DEF BeginPass, UsedInv, CancelInv, RunInv, Used
<1>2. CASE EndPass
  BY <1>0, <1>2 DEF EndPass, UsedInv, CancelInv, RunInv, Used
<1>3. CASE InterruptSlot
  <2>1. \A j \in Slot : /\ slots'[j].id = slots[j].id
                        /\ slots'[j] = slots[j] \/ (slots[j].id # 0 /\ slots'[j].state # "NOT_USED")
    <3>1. CASE slots' = slots
      BY <3>1
    <3>2. CASE slots' # slots
      <4> DEFINE c == [StopWaiting(cur, "RELEASED") EXCEPT !.outcome = "error"]
      <4>1. slots' = [slots EXCEPT ![cur] = c] /\ cur \in Slot /\ Used(cur)
        BY <1>3, <3>2 DEF InterruptSlot
      <4>2. c.id = slots[cur].id /\ c.state = "RELEASED"
        BY <1>0, <4>1, StopWaitingType DEF States, Coroutine
      <4> QED
        BY <1>0, <4>1, <4>2 DEF Used
    <3> QED
      BY <3>1, <3>2
  <2> QED
    BY <1>0, <1>3, <2>1 DEF InterruptSlot, UsedInv, CancelInv, RunInv, Used
<1>4. CASE VisitSkip
  BY <1>0, <1>4, NextSlotStep DEF VisitSkip, UsedInv, CancelInv, Used
<1>5. CASE VisitAborted
  <2>1. /\ cur \in Slot /\ slots[cur].state = "ABORTED"
        /\ slots' = [slots EXCEPT ![cur].outcome = "error", ![cur].state = "RELEASED"]
    BY <1>5 DEF VisitAborted
  <2>2. \A j \in Slot : slots'[j].id = slots[j].id
    BY <1>0, <2>1 DEF Coroutine
  <2>3. slots'[cur].state = "RELEASED" /\ slots[cur].id # 0
    BY <1>0, <2>1 DEF Coroutine, UsedInv
  <2>4. \A j \in Slot \ {cur} : slots'[j] = slots[j]
    BY <1>0, <2>1
  <2> QED
    BY <1>0, <1>5, <2>1, <2>2, <2>3, <2>4, NextSlotStep DEF VisitAborted, UsedInv, CancelInv, Used
<1>6. CASE VisitResume
  <2>1. /\ cur \in Slot /\ ~slots[cur].isInline
        /\ slots' = [slots EXCEPT ![cur] = StopWaiting(cur, "WORKING")]
        /\ slots[cur].state \in {"WORKING", "SLEEPING", "WAITING"}
        /\ runId' = slots[cur].id /\ cur' = cur
    BY <1>6 DEF VisitResume, MayWake
  <2>2. \A j \in Slot : slots'[j].id = slots[j].id /\ slots'[j].isInline = slots[j].isInline
    BY <1>0, <2>1, StopWaitingType DEF States
  <2>3. slots'[cur].state = "WORKING" /\ slots[cur].id # 0
    BY <1>0, <2>1, StopWaitingType DEF States, UsedInv
  <2>4. \A j \in Slot \ {cur} : slots'[j] = slots[j]
    BY <1>0, <2>1
  <2>5. RunInv'
    BY <2>1, <2>2, <2>3 DEF RunInv
  <2> QED
    BY <1>0, <1>6, <2>1, <2>2, <2>3, <2>4, <2>5 DEF VisitResume, UsedInv, CancelInv, Used
<1>7. CASE SleepContinuation
  <2>1. /\ cur \in Slot /\ runId # 0 /\ slots[cur].id = runId /\ ~slots[cur].isInline
        /\ slots' = [slots EXCEPT ![cur].state = "WORKING", ![cur].continuation = FALSE]
        /\ runId' = runId /\ cur' = cur
    BY <1>0, <1>7 DEF SleepContinuation, RunInv, CurInv, history
  <2>2. \A j \in Slot : slots'[j].id = slots[j].id /\ slots'[j].isInline = slots[j].isInline
    BY <1>0, <2>1 DEF Coroutine
  <2>3. slots'[cur].state = "WORKING"
    BY <1>0, <2>1 DEF Coroutine
  <2>4. \A j \in Slot \ {cur} : slots'[j] = slots[j]
    BY <1>0, <2>1
  <2>5. RunInv'
    BY <2>1, <2>2, <2>3 DEF RunInv
  <2> QED
    BY <1>0, <1>7, <2>1, <2>2, <2>3, <2>4, <2>5 DEF SleepContinuation, UsedInv, CancelInv, Used
<1>8. CASE HandlerReturns
  BY <1>0, <1>8 DEF HandlerReturns, UsedInv, CancelInv, RunInv, Used, history
<1>9. CASE ReleaseIfForgotten
  <2>1. cur \in Slot /\ slots[cur].id # 0
    BY <1>0, <1>9 DEF ReleaseIfForgotten, RunInv, CurInv
  <2>2. slots' = [slots EXCEPT ![cur].state = "RELEASED"] \/ slots' = slots
    BY <1>9, Zenon DEF ReleaseIfForgotten
  <2>3. \A j \in Slot : /\ slots'[j].id = slots[j].id
                        /\ slots'[j] = slots[j] \/ (slots[j].id # 0 /\ slots'[j].state # "NOT_USED")
    BY <1>0, <2>1, <2>2 DEF Coroutine
  <2> QED
    BY <1>0, <1>9, <2>3, NextSlotStep DEF ReleaseIfForgotten, UsedInv, CancelInv, Used
<1>10. CASE ClearInterrupt
  BY <1>0, <1>10 DEF ClearInterrupt, UsedInv, CancelInv, RunInv, Used
<1>11. CASE Sweep
  <2>1. \A j \in Slot : slots'[j] = Zeroed \/ slots'[j] = slots[j]
    BY <1>0, <1>11 DEF Sweep
  <2>2. Zeroed.id = 0 /\ Zeroed.state = "NOT_USED"
    BY DEF Zeroed
  <2>3. UsedInv'
    BY <1>0, <2>1, <2>2 DEF UsedInv
  <2> QED
    BY <1>11, <2>3 DEF Sweep, SlotsLockFree, CancelInv, RunInv
<1> QED
  BY <1>1, <1>2, <1>3, <1>4, <1>5, <1>6, <1>7, <1>8, <1>9, <1>10, <1>11 DEF Scheduler

(* The steps of the running coroutine keep its slot, or end its turn. *)
LEMMA RunningStep ==
  ASSUME Inv, Running
  PROVE  UsedInv' /\ CancelInv' /\ RunInv'
<1>0. /\ slots \in [Slot -> Coroutine] /\ cancel.slot \in Slot
      /\ UsedInv /\ CancelInv /\ RunInv /\ CurInv /\ TypeOK
  BY DEF Inv, TypeInv, TypeOK
<1>1. pc = "run" /\ cancel' = cancel
  BY DEF Running, Yield, Sleep, Pause, Return, TickerRaises, Wait, FinishCoroutine
<1>2. /\ cur \in Slot /\ slots[cur].id = runId /\ runId # 0 /\ ~slots[cur].isInline
      /\ slots[cur].state \in {"WORKING", "ABORTED"}
  BY <1>0, <1>1 DEF CurInv, RunInv
<1>3. \A j \in Slot : /\ slots'[j].id = slots[j].id
                      /\ slots'[j].isInline = slots[j].isInline
                      /\ j # cur => slots'[j] = slots[j]
                      /\ slots'[cur].state # "NOT_USED"
  <2>1. CASE Yield
    BY <1>2, <2>1 DEF Yield
  <2>2. CASE Sleep
    <3>1. PICK state \in {"WORKING", "SLEEPING"} :
            slots' = [slots EXCEPT ![cur].state = IF Aborted(cur) THEN @ ELSE state,
                                   ![cur].continuation = TRUE]
      BY <2>2 DEF Sleep
    <3> QED
      BY <1>0, <1>2, <3>1 DEF Coroutine
  <2>3. CASE Pause
    BY <1>0, <1>2, <2>3 DEF Pause, Coroutine
  <2>4. ASSUME NEW t \in Slot, NEW timeout \in BOOLEAN, Wait(t, timeout)
        PROVE  \A j \in Slot : /\ slots'[j].id = slots[j].id
                               /\ slots'[j].isInline = slots[j].isInline
                               /\ j # cur => slots'[j] = slots[j]
                               /\ slots'[cur].state # "NOT_USED"
    BY <1>0, <1>2, <2>4 DEF Wait, Coroutine
  <2>5. CASE Return \/ TickerRaises
    <3>1. PICK o \in Outcomes : FinishCoroutine(o)
      BY <2>5 DEF Return, TickerRaises, Outcomes
    <3> QED
      BY <1>0, <1>2, <3>1 DEF FinishCoroutine, Coroutine
  <2> QED
    BY <2>1, <2>2, <2>3, <2>4, <2>5 DEF Running
<1>4. UsedInv'
  BY <1>0, <1>2, <1>3 DEF UsedInv
<1>5. CancelInv'
  BY <1>0, <1>1, <1>3 DEF CancelInv, Used
<1>6. NextSlot \/ (pc' \in {"handler", "release"} /\ cur' = cur /\ runId' = runId)
  BY DEF Running, Yield, Sleep, Pause, Return, TickerRaises, Wait, FinishCoroutine
<1>7. RunInv'
  BY <1>2, <1>3, <1>6, NextSlotStep DEF RunInv
<1> QED
  BY <1>4, <1>5, <1>7

(* GetResult and ConsumeResult take the result of a finished slot. *)
LEMMA TakeStep ==
  ASSUME Inv, NEW i \in Slot, Used(i), Finished(i), Take(i)
  PROVE  UsedInv' /\ CancelInv' /\ RunInv'
<1>0. TypeOK
  BY DEF Inv, TypeInv
<1> DEFINE o == IF slots[i].outcome = "value" THEN "none" ELSE slots[i].outcome
           c1 == [slots[i] EXCEPT !.state = "RELEASED"]
           c == [c1 EXCEPT !.outcome = o]
<1>1. o \in Outcomes
  BY <1>0 DEF TypeOK, Coroutine, Outcomes
<1>2. c \in Coroutine
  BY <1>0, <1>1, FieldUpdates DEF TypeOK, States
<1>3. slots' = [slots EXCEPT ![i] = c]
  BY <1>0 DEF Take, TypeOK
<1>4. /\ c.id = slots[i].id /\ c.isInline = slots[i].isInline /\ c.state = "RELEASED"
  BY <1>0 DEF TypeOK, Coroutine
<1>5. slots[i].id # 0 /\ slots[i].state \notin {"WORKING", "ABORTED"}
  BY DEF Used, Finished
<1>6. UNCHANGED <<pc, cur, cancel, runId>>
  BY DEF Take
<1> HIDE DEF c
<1> QED
  BY <1>2, <1>3, <1>4, <1>5, <1>6, OneSlotStep

(* A slot that is made to stop waiting, or released. *)
LEMMA StateStep ==
  ASSUME Inv, NEW i \in Slot, NEW s \in States, slots[i].id # 0, s # "NOT_USED",
         slots' = [slots EXCEPT ![i] = StopWaiting(i, s)]
           \/ slots' = [slots EXCEPT ![i].state = s],
         slots[i].state \in {"WORKING", "ABORTED"} => s \in {"WORKING", "ABORTED"},
         UNCHANGED <<pc, cur, runId>>,
         cancel' = cancel \/ cancel'.at = "none"
  PROVE  UsedInv' /\ CancelInv' /\ RunInv'
<1>0. TypeOK
  BY DEF Inv, TypeInv
<1>1. CASE slots' = [slots EXCEPT ![i] = StopWaiting(i, s)]
  <2> DEFINE c == StopWaiting(i, s)
  <2>1. c \in Coroutine /\ c.id = slots[i].id /\ c.isInline = slots[i].isInline /\ c.state = s
    BY <1>0, StopWaitingType
  <2> HIDE DEF c
  <2> QED
    BY <1>1, <2>1, OneSlotStep DEF c
<1>2. CASE slots' = [slots EXCEPT ![i].state = s]
  <2> DEFINE c == [slots[i] EXCEPT !.state = s]
  <2>1. c \in Coroutine /\ c.id = slots[i].id /\ c.isInline = slots[i].isInline /\ c.state = s
    BY <1>0, FieldUpdates DEF TypeOK, Coroutine
  <2>2. slots' = [slots EXCEPT ![i] = c]
    BY <1>0, <1>2 DEF TypeOK
  <2> HIDE DEF c
  <2> QED
    BY <2>1, <2>2, OneSlotStep
<1> QED
  BY <1>1, <1>2

(* Lua code does not touch the slot of the running coroutine, but for its     *)
(* references, and for a cancel that leaves it ABORTED.                      *)
LEMMA LuaCodeStep ==
  ASSUME Inv, ~HandlerStartsTasks, NEW i \in Slot, LuaCode(i)
  PROVE  UsedInv' /\ CancelInv' /\ RunInv'
<1>0. TypeOK /\ UsedInv
  BY DEF Inv, TypeInv
<1>1. CASE TasksNew(i)
  <2> DEFINE c == [Working EXCEPT !.luaRefCount = 1]
  <2>1. AcquireSlot(i, c, "live")
    BY <1>1 DEF TasksNew
  <2>2. c \in Coroutine /\ c.state = "WORKING"
    BY AcquiredTypes DEF Working, Zeroed
  <2>3. pc \notin {"handler", "release"} /\ UNCHANGED <<pc, cur, cancel, runId>>
    BY <1>1 DEF TasksNew, LuaRuns, AtPausePoint
  <2> HIDE DEF c
  <2> QED
    BY <2>1, <2>2, <2>3, AcquireSlotStep
<1>2. CASE TaskOpen(i)
  <2> DEFINE c1 == [slots[i] EXCEPT !.luaRefCount = slots[i].luaRefCount + 1]
             c == [c1 EXCEPT !.fireAndForget = FALSE]
  <2>1. slots[i].luaRefCount + 1 \in 0..MaxRefs
    BY <1>0, <1>2, BoundAssumption DEF TaskOpen, TypeOK, Coroutine
  <2>2. c \in Coroutine
    BY <1>0, <2>1, FieldUpdates DEF TypeOK
  <2>3. c.id = slots[i].id /\ c.isInline = slots[i].isInline /\ c.state = slots[i].state
    BY <1>0 DEF TypeOK, Coroutine
  <2>4. slots' = [slots EXCEPT ![i] = c]
    BY <1>0, <1>2 DEF TaskOpen, TypeOK
  <2>5. slots[i].id # 0 /\ slots[i].state # "NOT_USED" /\ UNCHANGED <<pc, cur, cancel, runId>>
    BY <1>0, <1>2 DEF TaskOpen, Used, UsedInv, history
  <2> HIDE DEF c
  <2> QED
    BY <2>2, <2>3, <2>4, <2>5, OneSlotStep
<1>3. CASE TaskDispose(i)
  <2>0. slots[i].id # 0 /\ slots[i].state # "NOT_USED" /\ UNCHANGED <<pc, cur, cancel, runId>>
    BY <1>0, <1>3 DEF TaskDispose, Used, UsedInv
  <2>1. CASE slots[i].luaRefCount > 1
    <3> DEFINE c == [slots[i] EXCEPT !.luaRefCount = slots[i].luaRefCount - 1]
    <3>1. slots[i].luaRefCount - 1 \in 0..MaxRefs
      BY <1>0, <2>1, BoundAssumption DEF TypeOK, Coroutine
    <3>2. c \in Coroutine
      BY <1>0, <3>1, FieldUpdates DEF TypeOK
    <3>3. c.id = slots[i].id /\ c.isInline = slots[i].isInline /\ c.state = slots[i].state
      BY <1>0 DEF TypeOK, Coroutine
    <3>4. slots' = [slots EXCEPT ![i] = c]
      BY <1>0, <1>3, <2>1 DEF TaskDispose, TypeOK
    <3> HIDE DEF c
    <3> QED
      BY <2>0, <3>2, <3>3, <3>4, OneSlotStep
  <2>2. CASE ~(slots[i].luaRefCount > 1)
    <3> DEFINE to == IF Finished(i) THEN "RELEASED"
                     ELSE IF slots[i].state = "PAUSED" THEN "ABORTED"
                     ELSE slots[i].state
               fnf == slots[i].fireAndForget \/ to \notin {"RELEASED", "ABORTED"}
                                             \/ slots[i].state = "ABORTED"
               c1 == [slots[i] EXCEPT !.luaRefCount = 0]
               c2 == [c1 EXCEPT !.state = to]
               c == [c2 EXCEPT !.fireAndForget = fnf]
    <3>1. /\ to \in States /\ to # "NOT_USED"
          /\ slots[i].state \in {"WORKING", "ABORTED"} => to = slots[i].state
      BY <1>0, <2>0 DEF TypeOK, Coroutine, States, Finished
    <3>2. fnf \in BOOLEAN
      BY Zenon
    <3>3. 0 \in 0..MaxRefs
      BY BoundAssumption
    <3>4. c1 \in Coroutine
      BY <1>0, <3>3, FieldUpdates DEF TypeOK
    <3>5. c2 \in Coroutine
      BY <3>1, <3>4, FieldUpdates
    <3>6. c \in Coroutine
      BY <3>2, <3>5, FieldUpdates
    <3>7. slots' = [slots EXCEPT ![i] = c]
      BY <1>0, <1>3, <2>2 DEF TaskDispose, TypeOK
    <3>8. c.id = slots[i].id /\ c.isInline = slots[i].isInline /\ c.state = to
      <4> HIDE DEF fnf, to
      <4> QED
        BY <1>0 DEF TypeOK, Coroutine
    <3> HIDE DEF c, to
    <3> QED
      BY <2>0, <3>1, <3>6, <3>7, <3>8, OneSlotStep
  <2> QED
    BY <2>1, <2>2
<1>4. CASE TaskCancel(i)
  BY <1>4, StateStep DEF TaskCancel, Used, States
<1>5. CASE TaskConsumeResult(i)
  BY <1>5, TakeStep DEF TaskConsumeResult
<1>6. CASE Resume(i)
  <2>1. slots[i].id # 0
    BY <1>0, <1>6 DEF Resume, UsedInv
  <2> QED
    BY <1>6, <2>1, StateStep DEF Resume, States, history
<1> QED
  BY <1>1, <1>2, <1>3, <1>4, <1>5, <1>6 DEF LuaCode

(* Nor do host threads. *)
LEMMA HostStep ==
  ASSUME Inv, NEW i \in Slot, Host(i)
  PROVE  UsedInv' /\ CancelInv' /\ RunInv'
<1>0. TypeOK /\ UsedInv /\ CurInv /\ RunInv
  BY DEF Inv, TypeInv
<1>1. ASSUME NEW forget \in BOOLEAN, StartCoroutine(i, forget)
      PROVE  UsedInv' /\ CancelInv' /\ RunInv'
  <2> DEFINE good == [Working EXCEPT !.apiOwned = TRUE, !.fireAndForget = forget]
             bad == [Zeroed EXCEPT !.apiOwned = TRUE, !.fireAndForget = forget,
                       !.outcome = "error",
                       !.state = IF forget THEN "RELEASED" ELSE "DONE"]
             badFate == IF forget THEN "settled" ELSE "ended"
  <2>1. good \in Coroutine /\ bad \in Coroutine
    BY AcquiredTypes
  <2>2. good.state = "WORKING" /\ bad.state # "NOT_USED"
    BY DEF Working, Zeroed
  <2>3. AcquireSlot(i, good, "live") \/ AcquireSlot(i, bad, badFate)
    BY <1>1 DEF StartCoroutine
  <2>4. pc \notin {"handler", "release"} /\ UNCHANGED <<pc, cur, cancel, runId>>
    BY <1>1 DEF StartCoroutine, AtPausePoint
  <2> HIDE DEF good, bad, badFate
  <2> QED
    BY <2>1, <2>2, <2>3, <2>4, AcquireSlotStep
<1>2. CASE InlineStart(i)
  <2> DEFINE c == [Working EXCEPT !.isInline = TRUE]
  <2>1. AcquireSlot(i, c, "live")
    BY <1>2 DEF InlineStart
  <2>2. c \in Coroutine /\ c.state = "WORKING"
    BY AcquiredTypes DEF Working, Zeroed
  <2>3. pc \notin {"handler", "release"} /\ UNCHANGED <<pc, cur, cancel, runId>>
    BY <1>2 DEF InlineStart, AtPausePoint
  <2> HIDE DEF c
  <2> QED
    BY <2>1, <2>2, <2>3, AcquireSlotStep
<1>3. CASE InlineEnd(i)
  <2>1. /\ slots' = [slots EXCEPT ![i] = Zeroed] /\ slots[i].isInline
        /\ UNCHANGED <<pc, cur, runId>> /\ cancel' = cancel /\ cancel.at = "none"
        /\ pc \notin {"handler", "release"}
    BY <1>3 DEF InlineEnd, SlotsLockFree, AtPausePoint
  <2>2. UsedInv'
    BY <1>0, <2>1 DEF UsedInv, TypeOK, Zeroed
  <2>3. pc \in {"continue", "run"} => cur \in Slot /\ cur # i
    BY <1>0, <2>1 DEF RunInv, CurInv
  <2>4. RunInv'
    BY <1>0, <2>1, <2>3 DEF RunInv, TypeOK
  <2> QED
    BY <2>1, <2>2, <2>4 DEF CancelInv
<1>4. CASE GetResult(i)
  BY <1>4, TakeStep DEF GetResult
<1>5. CASE ReleaseResult(i)
  BY <1>5, StateStep DEF ReleaseResult, Used, States
<1>6. CASE Cancel(i)
  <2>1. CASE slots[i].state = "DONE"
    BY <1>6, <2>1, StateStep DEF Cancel, Used, States
  <2>2. CASE slots[i].state # "DONE"
    <3>1. /\ slots' = slots /\ UNCHANGED <<pc, cur, runId>> /\ slots[i].id # 0
          /\ cancel' = [at |-> "loaded", slot |-> i]
      BY <1>6, <2>2 DEF Cancel, Used
    <3> QED
      BY <1>0, <3>1 DEF UsedInv, CancelInv, RunInv, Used
  <2> QED
    BY <2>1, <2>2
<1> QED
  BY <1>1, <1>2, <1>3, <1>4, <1>5, <1>6 DEF Host

(* Every step keeps the invariant, if error handlers start no tasks. *)
LEMMA InvNext == ~HandlerStartsTasks /\ Inv /\ [Next]_vars => Inv'
<1> SUFFICES ASSUME ~HandlerStartsTasks, Inv, [Next]_vars
             PROVE  UsedInv' /\ CancelInv' /\ RunInv'
  BY TypeNext DEF Inv
<1>0. TypeOK /\ UsedInv /\ CancelInv /\ RunInv
  BY DEF Inv, TypeInv
<1>1. CASE CancelMark
  <2> DEFINE i == cancel.slot
             c == [slots[i] EXCEPT !.fireAndForget = TRUE]
  <2>1. i \in Slot /\ slots[i].id # 0 /\ slots[i].state # "NOT_USED"
    BY <1>0, <1>1 DEF CancelMark, TypeOK, UsedInv, CancelInv, Used
  <2>2. c \in Coroutine
    BY <1>0, <2>1, FieldUpdates DEF TypeOK
  <2>3. c.id = slots[i].id /\ c.isInline = slots[i].isInline /\ c.state = slots[i].state
    BY <1>0, <2>1 DEF TypeOK, Coroutine
  <2>4. slots' = [slots EXCEPT ![i] = c]
    BY <1>0, <1>1, <2>1 DEF CancelMark, TypeOK
  <2>5. cancel'.slot = i /\ UNCHANGED <<pc, cur, runId>>
    BY <1>0, <1>1 DEF CancelMark, history, TypeOK
  <2> HIDE DEF c, i
  <2> QED
    BY <2>1, <2>2, <2>3, <2>4, <2>5, OneSlotStep
<1>2. CASE CancelStore
  <2>1. cancel.slot \in Slot /\ slots[cancel.slot].id # 0
    BY <1>0, <1>2 DEF CancelStore, TypeOK, CancelInv, Used
  <2> QED
    BY <1>2, <2>1, StateStep DEF CancelStore, States, history
<1>3. CASE KitsuneInterrupt
  BY <1>0, <1>3 DEF KitsuneInterrupt, history, UsedInv, CancelInv, RunInv, Used
<1>4. CASE UNCHANGED vars
  BY <1>0, <1>4 DEF vars, history, UsedInv, CancelInv, RunInv, Used
<1> QED
  BY <1>1, <1>2, <1>3, <1>4, SchedulerStep, RunningStep, LuaCodeStep, HostStep DEF Next

(* Initially no slot is in use and no KitsuneCancel in progress. *)
LEMMA InitInv == Init => Inv
  BY InitType DEF Init, Inv, UsedInv, CancelInv, RunInv, Zeroed

(* While the scheduler resumes a coroutine and finishes it, the slot is this  *)
(* coroutine's: no host thread and no Lua code frees or reuses it, or makes   *)
(* it anything but cancelled.  An error handler that starts a task when no    *)
(* slot is free may be given the slot that is being finished; the assumption  *)
(* excludes it.                                                              *)
THEOREM SlotKept == ~HandlerStartsTasks => (Spec => []RunningSlotKept)
<1> SUFFICES ASSUME ~HandlerStartsTasks PROVE Spec => []RunningSlotKept
  OBVIOUS
<1>1. Inv => RunningSlotKept
  BY DEF Inv, RunInv, RunningSlotKept
<1>2. Inv /\ [Next]_vars => Inv'
  BY InvNext
<1> QED
  BY <1>1, <1>2, InitInv, PTL DEF Spec

------------------------------------------------------------------------------
(* What becomes of every coroutine. *)

(* What the state and the outcome of a slot say of its coroutine's fate. *)
Fits(state, outcome, f) ==
  /\ f \in {"live", "ended", "taken", "settled"}
  /\ f = "live" => state \notin {"DONE", "RELEASED", "ABORTED"}
  /\ f = "ended" => state = "DONE" /\ outcome # "none"
  /\ f = "taken" => state = "RELEASED" /\ outcome # "value"

(* A KitsuneCancel in progress has settled the fate of its coroutine. *)
SlotFate(i) ==
  /\ Used(i) => Fits(slots[i].state, slots[i].outcome, fate[slots[i].id])
  /\ ~Used(i) => slots[i].outcome = "none"
  /\ cancel.at # "none" /\ cancel.slot = i => fate[slots[i].id] = "settled"

(* No two slots have the same id, and none has one that was not given out. *)
IdInv == \A i \in Slot : /\ slots[i].id <= nextId
                         /\ Used(i) => \A j \in Slot : slots[j].id = slots[i].id => j = i

Held == \A id \in Id : fate[id] \in {"live", "ended"} => \E i \in Slot : slots[i].id = id

FateInv == IdInv /\ Held /\ \A i \in Slot : SlotFate(i)

(* The step changes the state and the outcome of slot i, and no other slot. *)
Becomes(i, state, outcome) ==
  /\ slots'[i].id = slots[i].id /\ slots'[i].state = state /\ slots'[i].outcome = outcome
  /\ \A j \in Slot \ {i} : slots'[j] = slots[j]

(* The slot of an id, and the id of a slot. *)
LEMMA UsedId ==
  ASSUME Inv, NEW i \in Slot
  PROVE  /\ Used(i) <=> slots[i].state # "NOT_USED"
         /\ Used(i) => slots[i].id \in Id
         /\ slots[i] \in Coroutine /\ slots[i].id \in 0..MaxId
<1>1. slots[i] \in Coroutine
  BY DEF Inv, TypeInv, TypeOK
<1> QED
  BY <1>1, BoundAssumption DEF Inv, UsedInv, Used, Coroutine, Id

(* The frame: no slot and no fate changes, and no KitsuneCancel begins. *)
LEMMA FateKept ==
  ASSUME FateInv, UNCHANGED <<slots, nextId, fate>>, cancel' = cancel \/ cancel'.at = "none"
  PROVE  FateInv'
  BY DEF FateInv, IdInv, Held, SlotFate, Used

(* One slot changes, and the fate of its coroutine. *)
LEMMA OneSlotFate ==
  ASSUME Inv, FateInv, NEW i \in Slot, Used(i), NEW s, NEW o, NEW f,
         Becomes(i, s, o), Fits(s, o, f), nextId' = nextId,
         fate' = [fate EXCEPT ![slots[i].id] = f],
         cancel' = cancel \/ cancel'.at = "none" \/ (cancel'.slot = i /\ f = "settled"),
         cancel.at # "none" /\ cancel.slot = i => f = "settled"
  PROVE  FateInv'
<1> USE DEF Becomes
<1>1. fate \in [Id -> Fates] /\ slots[i].id \in Id
  BY UsedId DEF Inv, TypeInv, TypeOK
<1>2. fate'[slots[i].id] = f /\ \A id \in Id : id # slots[i].id => fate'[id] = fate[id]
  BY <1>1
<1>3. \A j \in Slot : slots'[j].id = slots[j].id
  OBVIOUS
<1>4. IdInv'
  BY <1>3 DEF FateInv, IdInv, Used
<1>5. Held'
  <2> SUFFICES ASSUME NEW id \in Id, fate'[id] \in {"live", "ended"}
               PROVE  \E j \in Slot : slots'[j].id = id
    BY DEF Held
  <2>1. CASE id = slots[i].id
    BY <1>3, <2>1
  <2>2. CASE id # slots[i].id
    BY <1>2, <1>3, <2>2 DEF FateInv, Held
  <2> QED
    BY <2>1, <2>2
<1>6. SlotFate(i)'
  <2>1. Used(i)'
    BY DEF Used
  <2>2. Fits(slots'[i].state, slots'[i].outcome, fate'[slots'[i].id])
    BY <1>2, <1>3
  <2>3. cancel'.at # "none" /\ cancel'.slot = i => f = "settled"
    OBVIOUS
  <2> QED
    BY <1>2, <1>3, <2>1, <2>2, <2>3 DEF SlotFate
<1>7. ASSUME NEW j \in Slot, j # i PROVE SlotFate(j)'
  <2>1. slots'[j] = slots[j] /\ SlotFate(j)
    BY <1>7 DEF FateInv
  <2>2. CASE Used(j)
    <3>1. slots[j].id \in Id /\ slots[j].id # slots[i].id
      BY <1>7, <2>2, UsedId DEF FateInv, IdInv
    <3>2. fate'[slots[j].id] = fate[slots[j].id]
      BY <1>2, <3>1
    <3> QED
      BY <1>7, <2>1, <2>2, <3>2 DEF SlotFate, Used
  <2>3. CASE ~Used(j)
    <3>1. ~(cancel'.at # "none" /\ cancel'.slot = j)
      BY <1>7, <2>3 DEF Inv, CancelInv
    <3> QED
      BY <2>1, <2>3, <3>1 DEF SlotFate, Used
  <2> QED
    BY <2>2, <2>3
<1> QED
  BY <1>4, <1>5, <1>6, <1>7 DEF FateInv

(* One slot changes, and the fate of its coroutine does not. *)
LEMMA OneSlotSame ==
  ASSUME Inv, FateInv, NEW i \in Slot, Used(i), NEW s, NEW o,
         Becomes(i, s, o), Fits(s, o, fate[slots[i].id]), UNCHANGED <<nextId, fate>>,
         \/ cancel' = cancel
         \/ cancel'.at = "none"
         \/ cancel'.slot = i /\ cancel.slot = i /\ cancel.at # "none"
  PROVE  FateInv'
<1> DEFINE f == fate[slots[i].id]
<1>1. fate' = [fate EXCEPT ![slots[i].id] = f]
  BY UsedId DEF Inv, TypeInv, TypeOK
<1>2. cancel.at # "none" /\ cancel.slot = i => f = "settled"
  BY DEF FateInv, SlotFate
<1> QED
  BY <1>1, <1>2, OneSlotFate

(* Slots are freed whose coroutines are neither live nor due. *)
LEMMA FreedFate ==
  ASSUME Inv, FateInv, NEW R \in SUBSET Slot, cancel'.at = "none", nextId' = nextId,
         \A j \in Slot : slots'[j] = IF j \in R THEN Zeroed ELSE slots[j],
         \A id \in Id : (\A j \in R : slots[j].id # id) => fate'[id] = fate[id],
         \A j \in R : Used(j) /\ fate'[slots[j].id] \notin {"live", "ended"}
  PROVE  FateInv'
<1>1. Zeroed.id = 0 /\ Zeroed.outcome = "none"
  BY DEF Zeroed
<1>2. IdInv'
  <2>1. nextId \in Nat
    BY BoundAssumption DEF Inv, TypeInv, TypeOK
  <2>2. ASSUME NEW j \in Slot PROVE slots'[j].id <= nextId
    BY <1>1, <2>1 DEF FateInv, IdInv
  <2>3. ASSUME NEW j \in Slot, Used(j)', NEW k \in Slot, slots'[k].id = slots'[j].id PROVE k = j
    <3>1. slots'[j] = slots[j] /\ slots'[k] = slots[k] /\ Used(j)
      BY <1>1, <2>3 DEF Used
    <3> QED
      BY <2>3, <3>1 DEF FateInv, IdInv
  <2> QED
    BY <2>2, <2>3 DEF IdInv
<1>3. Held'
  <2> SUFFICES ASSUME NEW id \in Id, fate'[id] \in {"live", "ended"}
               PROVE  \E j \in Slot : slots'[j].id = id
    BY DEF Held
  <2>1. \A j \in R : slots[j].id # id
    OBVIOUS
  <2>2. PICK j \in Slot : slots[j].id = id
    BY <2>1 DEF FateInv, Held
  <2> QED
    BY <2>1, <2>2
<1>4. ASSUME NEW j \in Slot PROVE SlotFate(j)'
  <2>1. CASE j \in R
    BY <1>1, <2>1 DEF SlotFate, Used
  <2>2. CASE j \notin R /\ Used(j)
    <3>1. slots[j].id \in Id /\ \A k \in R : slots[k].id # slots[j].id
      BY <2>2, UsedId DEF FateInv, IdInv
    <3>2. slots'[j] = slots[j] /\ fate'[slots[j].id] = fate[slots[j].id]
      BY <2>2, <3>1
    <3> QED
      BY <2>2, <3>2 DEF FateInv, SlotFate, Used
  <2>3. CASE j \notin R /\ ~Used(j)
    BY <2>3 DEF FateInv, SlotFate, Used
  <2> QED
    BY <2>1, <2>2, <2>3
<1> QED
  BY <1>2, <1>3, <1>4 DEF FateInv

(* A released slot's coroutine is neither live nor due. *)
LEMMA ReleasedFate ==
  ASSUME Inv, FateInv, NEW i \in Slot, slots[i].state = "RELEASED"
  PROVE  Used(i) /\ fate[slots[i].id] \in {"taken", "settled"}
  BY UsedId DEF FateInv, SlotFate, Fits

(* A slot is acquired: its last coroutine is gone, and a new one begins. *)
LEMMA AcquireSlotFate ==
  ASSUME Inv, FateInv, NEW i \in Slot, NEW fields \in Coroutine, NEW f,
         AcquireSlot(i, fields, f), Fits(fields.state, fields.outcome, f), cancel' = cancel
  PROVE  FateInv'
<1>1. /\ nextId \in Nat /\ nextId + 1 \in Id /\ nextId' = nextId + 1 /\ cancel.at = "none"
      /\ fate \in [Id -> Fates] /\ slots \in [Slot -> Coroutine]
  BY BoundAssumption DEF AcquireSlot, SlotsLockFree, Inv, TypeInv, TypeOK, Id
<1>2. PICK n \in Id : n = nextId + 1
  BY <1>1
<1>3. ~Used(i) \/ fate[slots[i].id] \in {"taken", "settled"}
  BY ReleasedFate DEF AcquireSlot, Acquirable, First
<1>4. /\ slots'[i].id = n /\ slots'[i].state = fields.state /\ slots'[i].outcome = fields.outcome
      /\ \A j \in Slot \ {i} : slots'[j] = slots[j]
  <2> DEFINE c == [fields EXCEPT !.id = n]
  <2>1. c.id = n /\ c.state = fields.state /\ c.outcome = fields.outcome
    BY DEF Coroutine
  <2>2. slots' = [slots EXCEPT ![i] = c]
    BY <1>2 DEF AcquireSlot
  <2> HIDE DEF c
  <2> QED
    BY <1>1, <2>1, <2>2
<1>5. fate'[n] = f /\ \A id \in Id : id # n /\ id # slots[i].id => fate'[id] = fate[id]
  <2>1. fate' = [Gone({i}) EXCEPT ![n] = f]
    BY <1>2 DEF AcquireSlot
  <2> QED
    BY <2>1 DEF Gone
<1>6. \A j \in Slot : slots[j].id < n
  <2>1. \A j \in Slot : slots[j].id \in Nat /\ slots[j].id <= nextId
    BY UsedId DEF FateInv, IdInv
  <2> QED
    BY <1>1, <1>2, <2>1
<1>7. n \in Nat /\ n # 0 /\ \A j \in Slot : slots[j].id \in Nat
  BY <1>1, <1>2, UsedId
<1>8. IdInv'
  <2>1. ASSUME NEW j \in Slot PROVE slots'[j].id <= nextId'
    BY <1>1, <1>2, <1>4, <1>6, <1>7
  <2>2. ASSUME NEW j \in Slot, Used(j)', NEW k \in Slot, slots'[k].id = slots'[j].id PROVE k = j
    <3>1. CASE j = i \/ k = i
      BY <1>4, <1>6, <1>7, <2>2, <3>1
    <3>2. CASE j # i /\ k # i
      BY <1>4, <2>2, <3>2 DEF FateInv, IdInv, Used
    <3> QED
      BY <3>1, <3>2
  <2> QED
    BY <2>1, <2>2 DEF IdInv
<1>9. Held'
  <2> SUFFICES ASSUME NEW id \in Id, fate'[id] \in {"live", "ended"}
               PROVE  \E j \in Slot : slots'[j].id = id
    BY DEF Held
  <2>1. CASE id = n
    BY <1>4, <2>1
  <2>2. CASE id # n /\ id = slots[i].id
    <3>1. fate[id] \in {"taken", "settled"}
      BY <1>3, <2>2, BoundAssumption DEF Used, Id
    <3>2. fate'[id] = "gone"
      BY <1>2, <2>2, <3>1 DEF AcquireSlot, Gone
    <3> QED
      BY <3>2
  <2>3. CASE id # n /\ id # slots[i].id
    <3>1. PICK j \in Slot : slots[j].id = id
      BY <1>5, <2>3 DEF FateInv, Held
    <3> QED
      BY <1>4, <2>3, <3>1
  <2> QED
    BY <2>1, <2>2, <2>3
<1>10. SlotFate(i)'
  BY <1>1, <1>4, <1>5, <1>7 DEF SlotFate, Used
<1>11. ASSUME NEW j \in Slot, j # i PROVE SlotFate(j)'
  <2>1. slots'[j] = slots[j] /\ SlotFate(j) /\ cancel'.at = "none"
    BY <1>1, <1>4, <1>11 DEF FateInv
  <2>2. CASE Used(j)
    <3>1. slots[j].id \in Id /\ slots[j].id # slots[i].id /\ slots[j].id # n
      BY <1>6, <1>7, <1>11, <2>2, UsedId DEF FateInv, IdInv
    <3>2. fate'[slots[j].id] = fate[slots[j].id]
      BY <1>5, <3>1
    <3> QED
      BY <2>1, <2>2, <3>2 DEF SlotFate, Used
  <2>3. CASE ~Used(j)
    BY <2>1, <2>3 DEF SlotFate, Used
  <2> QED
    BY <2>2, <2>3
<1> QED
  BY <1>8, <1>9, <1>10, <1>11 DEF FateInv

(* What a change of one slot's record does to its state and outcome. *)
LEMMA Shape ==
  ASSUME Inv, NEW i \in Slot, NEW c, slots' = [slots EXCEPT ![i] = c], c.id = slots[i].id
  PROVE  Becomes(i, c.state, c.outcome)
  BY DEF Inv, TypeInv, TypeOK, Becomes

(* StopWaiting leaves the outcome. *)
LEMMA Stopped ==
  ASSUME Inv, NEW i \in Slot, NEW s \in States, slots' = [slots EXCEPT ![i] = StopWaiting(i, s)]
  PROVE  Becomes(i, s, slots[i].outcome)
<1> DEFINE c == StopWaiting(i, s)
<1>1. c.state = s /\ c.id = slots[i].id
  BY StopWaitingType DEF Inv, TypeInv
<1>2. c.outcome = slots[i].outcome
  BY UsedId DEF StopWaiting, Coroutine
<1> HIDE DEF c
<1>3. slots' = [slots EXCEPT ![i] = c]
  BY DEF c
<1> QED
  BY <1>1, <1>2, <1>3, Shape

(* The fate of the coroutine in a slot. *)
LEMMA FateFacts ==
  ASSUME Inv, FateInv, NEW i \in Slot, Used(i)
  PROVE  /\ fate[slots[i].id] \in {"live", "ended", "taken", "settled"}
         /\ fate[slots[i].id] = "live" => slots[i].state \notin {"DONE", "RELEASED", "ABORTED"}
         /\ fate[slots[i].id] = "ended" => slots[i].state = "DONE" /\ slots[i].outcome # "none"
         /\ fate[slots[i].id] = "taken" => slots[i].state = "RELEASED" /\ slots[i].outcome # "value"
         /\ cancel.at # "none" /\ cancel.slot = i => fate[slots[i].id] = "settled"
  BY DEF FateInv, SlotFate, Fits

(* A coroutine that stays live, or whose fate is settled, may be in any state but these. *)
LEMMA SettledFits ==
  ASSUME NEW s, NEW o
  PROVE  Fits(s, o, "settled") /\ (s \notin {"DONE", "RELEASED", "ABORTED"} => Fits(s, o, "live"))
  BY DEF Fits

(* Settle, unless the value was taken. *)
LEMMA SettleFate ==
  ASSUME Inv, FateInv, NEW i \in Slot, Used(i), NEW s, NEW o, Becomes(i, s, o), Settle(i),
         nextId' = nextId, slots[i].state # "RELEASED",
         cancel' = cancel \/ cancel'.at = "none" \/ cancel'.slot = i
  PROVE  FateInv'
<1>1. fate' = [fate EXCEPT ![slots[i].id] = "settled"]
  BY FateFacts DEF Settle
<1> QED
  BY <1>1, SettledFits, OneSlotFate

(* The scheduler ends, releases and frees only what may go. *)
LEMMA SchedulerFate ==
  ASSUME Inv, FateInv, Scheduler
  PROVE  FateInv'
<1>0. /\ slots \in [Slot -> Coroutine] /\ RunInv /\ CurInv
  BY DEF Inv, TypeInv, TypeOK
<1>1. CASE BeginPass \/ EndPass \/ HandlerReturns \/ VisitSkip \/ ClearInterrupt
  BY <1>1, FateKept DEF BeginPass, EndPass, HandlerReturns, VisitSkip, ClearInterrupt, history
<1>2. CASE InterruptSlot
  <2>1. CASE Used(cur) /\ ~Finished(cur) /\ ~slots[cur].isInline
    <3> DEFINE c == [StopWaiting(cur, "RELEASED") EXCEPT !.outcome = "error"]
    <3>1. cur \in Slot /\ UNCHANGED <<nextId, cancel>> /\ Settle(cur) /\ slots[cur].state # "RELEASED"
      BY <1>2, <2>1 DEF InterruptSlot, Finished
    <3>2. c.id = slots[cur].id
      BY <1>0, <3>1, StopWaitingType DEF Inv, TypeInv, States, Coroutine
    <3>3. slots' = [slots EXCEPT ![cur] = c]
      BY <1>2, <2>1 DEF InterruptSlot
    <3> HIDE DEF c
    <3> QED
      BY <2>1, <3>1, <3>2, <3>3, Shape, SettleFate
  <2>2. CASE ~(Used(cur) /\ ~Finished(cur) /\ ~slots[cur].isInline)
    BY <1>2, <2>2, FateKept DEF InterruptSlot
  <2> QED
    BY <2>1, <2>2
<1>3. CASE VisitAborted
  <2> DEFINE c == [slots[cur] EXCEPT !.outcome = "error", !.state = "RELEASED"]
  <2>1. cur \in Slot /\ UNCHANGED <<nextId, cancel, fate>> /\ slots[cur].state = "ABORTED" /\ Used(cur)
    BY <1>3, UsedId DEF VisitAborted
  <2>2. c.id = slots[cur].id
    BY <1>0, <2>1 DEF Coroutine
  <2>3. slots' = [slots EXCEPT ![cur] = c]
    BY <1>0, <1>3, <2>1 DEF VisitAborted
  <2>4. Fits(c.state, c.outcome, fate[slots[cur].id])
    BY <2>1, FateFacts, SettledFits
  <2> HIDE DEF c
  <2>5. Becomes(cur, c.state, c.outcome)
    BY <2>1, <2>2, <2>3, Shape
  <2> QED
    BY <2>1, <2>4, <2>5, OneSlotSame
<1>4. CASE VisitResume
  <2>1. /\ cur \in Slot /\ UNCHANGED <<nextId, cancel, fate>>
        /\ slots' = [slots EXCEPT ![cur] = StopWaiting(cur, "WORKING")]
        /\ slots[cur].state \in {"WORKING", "SLEEPING", "WAITING"} /\ Used(cur)
    BY <1>4, UsedId DEF VisitResume, MayWake
  <2>2. fate[slots[cur].id] \in {"live", "settled"}
    BY <2>1, FateFacts
  <2> QED
    BY <2>1, <2>2, Stopped, SettledFits, OneSlotSame DEF States
<1>5. CASE SleepContinuation
  <2> DEFINE c == [slots[cur] EXCEPT !.state = "WORKING", !.continuation = FALSE]
  <2>1. /\ cur \in Slot /\ UNCHANGED <<nextId, cancel, fate>>
        /\ slots[cur].state \in {"WORKING", "ABORTED"} /\ Used(cur)
    BY <1>0, <1>5, UsedId DEF SleepContinuation, CurInv, RunInv, history
  <2>2. c.id = slots[cur].id /\ c.state = "WORKING" /\ c.outcome = slots[cur].outcome
    BY <1>0, <2>1 DEF Coroutine
  <2>3. slots' = [slots EXCEPT ![cur] = c]
    BY <1>0, <1>5, <2>1 DEF SleepContinuation
  <2>4. Fits("WORKING", slots[cur].outcome, fate[slots[cur].id])
    BY <2>1, FateFacts DEF Fits
  <2> HIDE DEF c
  <2> QED
    BY <2>1, <2>2, <2>3, <2>4, Shape, OneSlotSame
<1>6. CASE ReleaseIfForgotten
  <2>1. /\ cur \in Slot /\ UNCHANGED <<nextId, cancel>> /\ slots[cur].id = runId /\ runId # 0
        /\ Used(cur)
    BY <1>0, <1>6 DEF ReleaseIfForgotten, CurInv, RunInv, Used
  <2>2. CASE slots[cur].fireAndForget
    <3> DEFINE c == [slots[cur] EXCEPT !.state = "RELEASED"]
               f == IF fate[runId] = "taken" THEN "taken" ELSE "settled"
    <3>1. c.id = slots[cur].id /\ c.state = "RELEASED" /\ c.outcome = slots[cur].outcome
      BY <1>0, <2>1 DEF Coroutine
    <3>2. slots' = [slots EXCEPT ![cur] = c]
      BY <1>0, <1>6, <2>1, <2>2 DEF ReleaseIfForgotten
    <3>3. fate' = [fate EXCEPT ![slots[cur].id] = f]
      BY <1>6, <2>1, <2>2 DEF ReleaseIfForgotten
    <3>4. Fits("RELEASED", slots[cur].outcome, f)
      BY <2>1, FateFacts DEF Fits
    <3>5. cancel.at # "none" /\ cancel.slot = cur => f = "settled"
      BY <2>1, FateFacts
    <3> HIDE DEF c, f
    <3> QED
      BY <2>1, <3>1, <3>2, <3>3, <3>4, <3>5, Shape, OneSlotFate
  <2>3. CASE ~slots[cur].fireAndForget
    BY <1>6, <2>3, FateKept DEF ReleaseIfForgotten
  <2> QED
    BY <2>2, <2>3
<1>7. CASE Sweep
  <2> DEFINE R == {i \in Slot : slots[i].state = "RELEASED"}
  <2>1. cancel'.at = "none" /\ nextId' = nextId /\ fate' = Gone(R)
    BY <1>7 DEF Sweep, SlotsLockFree
  <2>2. \A j \in Slot : slots'[j] = IF j \in R THEN Zeroed ELSE slots[j]
    BY <1>7 DEF Sweep
  <2>3. \A id \in Id : (\A j \in R : slots[j].id # id) => fate'[id] = fate[id]
    BY <2>1 DEF Gone
  <2>4. ASSUME NEW j \in R PROVE Used(j) /\ fate'[slots[j].id] \notin {"live", "ended"}
    <3>1. Used(j) /\ fate[slots[j].id] \in {"taken", "settled"} /\ slots[j].id \in Id
      BY ReleasedFate, UsedId
    <3> QED
      BY <2>1, <3>1 DEF Gone
  <2> QED
    BY <2>1, <2>2, <2>3, <2>4, FreedFate
<1> QED
  BY <1>1, <1>2, <1>3, <1>4, <1>5, <1>6, <1>7 DEF Scheduler

(* A coroutine that runs is live, or was cancelled while it ran. *)
LEMMA RunningFate ==
  ASSUME Inv, FateInv, Running
  PROVE  FateInv'
<1>0. slots \in [Slot -> Coroutine] /\ fate \in [Id -> Fates] /\ RunInv /\ CurInv
  BY DEF Inv, TypeInv, TypeOK
<1>1. pc = "run" /\ UNCHANGED <<cancel, nextId>>
  BY DEF Running, Yield, Sleep, Pause, Return, TickerRaises, Wait, FinishCoroutine
<1>2. /\ cur \in Slot /\ slots[cur].id = runId /\ Used(cur)
      /\ slots[cur].state \in {"WORKING", "ABORTED"}
  BY <1>0, <1>1 DEF CurInv, RunInv, Used
<1>3. fate[slots[cur].id] \in {"live", "settled"}
  BY <1>2, FateFacts
<1>4. CASE Yield
  BY <1>1, <1>4, FateKept DEF Yield
<1>5. ASSUME NEW s, slots' = [slots EXCEPT ![cur] = [slots[cur] EXCEPT !.state = s]]
               \/ slots' = [slots EXCEPT ![cur] = [slots[cur] EXCEPT !.state = s,
                                                                     !.continuation = TRUE]],
             fate' = fate, s \in {"WORKING", "SLEEPING", "PAUSED"} \/ s = slots[cur].state
      PROVE  FateInv'
  <2>1. Becomes(cur, s, slots[cur].outcome)
    BY <1>0, <1>2, <1>5 DEF Becomes, Coroutine
  <2>2. Fits(s, slots[cur].outcome, fate[slots[cur].id])
    BY <1>2, <1>3, <1>5, FateFacts DEF Fits
  <2> QED
    BY <1>1, <1>2, <1>5, <2>1, <2>2, OneSlotSame
<1>6. CASE Sleep
  <2>1. PICK state \in {"WORKING", "SLEEPING"} :
          slots' = [slots EXCEPT ![cur].state = IF Aborted(cur) THEN @ ELSE state,
                                 ![cur].continuation = TRUE]
    BY <1>6 DEF Sleep
  <2> DEFINE s == IF Aborted(cur) THEN slots[cur].state ELSE state
  <2>2. slots' = [slots EXCEPT ![cur] = [slots[cur] EXCEPT !.state = s, !.continuation = TRUE]]
    BY <1>0, <1>2, <2>1
  <2> QED
    BY <1>5, <1>6, <2>2 DEF Sleep
<1>7. CASE Pause
  <2> DEFINE s == IF Aborted(cur) THEN slots[cur].state ELSE "PAUSED"
  <2>1. slots' = [slots EXCEPT ![cur] = [slots[cur] EXCEPT !.state = s]]
    BY <1>0, <1>2, <1>7 DEF Pause
  <2> QED
    BY <1>5, <1>7, <2>1 DEF Pause
<1>8. ASSUME NEW t \in Slot, NEW timeout \in BOOLEAN, Wait(t, timeout)
      PROVE  FateInv'
  <2>1. CASE Aborted(cur)
    BY <1>1, <1>8, <2>1, FateKept DEF Wait
  <2>2. CASE ~Aborted(cur)
    <3> DEFINE c == [slots[cur] EXCEPT !.waitingForId = slots[t].id, !.timed = timeout,
                                       !.state = "WAITING"]
    <3>1. c.id = slots[cur].id /\ c.state = "WAITING"
      BY <1>0, <1>2 DEF Coroutine
    <3>2. slots' = [slots EXCEPT ![cur] = c] /\ fate' = fate
      BY <1>0, <1>2, <1>8, <2>2 DEF Wait
    <3> HIDE DEF c
    <3> QED
      BY <1>1, <1>2, <1>3, <3>1, <3>2, Shape, SettledFits, OneSlotSame
  <2> QED
    BY <2>1, <2>2
<1>9. CASE Return \/ TickerRaises
  <2>1. PICK o \in {"value", "error"} : FinishCoroutine(o)
    BY <1>9 DEF Return, TickerRaises
  <2> DEFINE c == [slots[cur] EXCEPT !.outcome = o, !.state = "DONE"]
             f == IF fate[runId] = "live" THEN "ended" ELSE fate[runId]
  <2>2. c.id = slots[cur].id /\ c.state = "DONE" /\ c.outcome = o
    BY <1>0, <1>2 DEF Coroutine
  <2>3. slots' = [slots EXCEPT ![cur] = c] /\ fate' = [fate EXCEPT ![slots[cur].id] = f]
    BY <1>0, <1>2, <2>1 DEF FinishCoroutine
  <2>4. Fits("DONE", o, f) /\ (cancel.at # "none" /\ cancel.slot = cur => f = "settled")
    BY <1>2, <1>3, FateFacts DEF Fits
  <2> HIDE DEF c, f
  <2> QED
    BY <1>1, <1>2, <2>2, <2>3, <2>4, Shape, OneSlotFate
<1> QED
  BY <1>4, <1>6, <1>7, <1>8, <1>9 DEF Running

(* GetResult and ConsumeResult hand a value over once. *)
LEMMA TakeFate ==
  ASSUME Inv, FateInv, NEW i \in Slot, Used(i), Finished(i), SlotsLockFree, Take(i)
  PROVE  FateInv'
<1> DEFINE o == IF slots[i].outcome = "value" THEN "none" ELSE slots[i].outcome
           c == [slots[i] EXCEPT !.state = "RELEASED", !.outcome = o]
           f == IF slots[i].outcome = "value" \/ fate[slots[i].id] = "taken"
                THEN "taken" ELSE "settled"
<1>1. UNCHANGED <<nextId, cancel>> /\ cancel.at = "none"
  BY DEF Take, SlotsLockFree
<1>2. c.id = slots[i].id /\ c.state = "RELEASED" /\ c.outcome = o
  BY UsedId DEF Coroutine
<1>3. slots' = [slots EXCEPT ![i] = c]
  BY DEF Take, Inv, TypeInv, TypeOK
<1>4. fate' = [fate EXCEPT ![slots[i].id] = f]
  BY DEF Take, Settle
<1>5. Fits("RELEASED", o, f)
  BY FateFacts DEF Fits
<1> HIDE DEF c, f, o
<1> QED
  BY <1>1, <1>2, <1>3, <1>4, <1>5, Shape, OneSlotFate

(* What Lua code does with a task settles, starts or keeps its fate. *)
LEMMA LuaCodeFate ==
  ASSUME Inv, FateInv, NEW i \in Slot, LuaCode(i)
  PROVE  FateInv'
<1>0. slots \in [Slot -> Coroutine] /\ fate \in [Id -> Fates]
  BY DEF Inv, TypeInv, TypeOK
<1>1. CASE TasksNew(i)
  <2> DEFINE c == [Working EXCEPT !.luaRefCount = 1]
  <2>1. AcquireSlot(i, c, "live") /\ cancel' = cancel
    BY <1>1 DEF TasksNew
  <2>2. c \in Coroutine /\ c.state = "WORKING"
    BY AcquiredTypes DEF Working, Zeroed
  <2> HIDE DEF c
  <2> QED
    BY <2>1, <2>2, SettledFits, AcquireSlotFate
<1>2. CASE TaskOpen(i)
  <2> DEFINE c == [slots[i] EXCEPT !.luaRefCount = @ + 1, !.fireAndForget = FALSE]
  <2>1. Used(i) /\ UNCHANGED <<nextId, cancel, fate>>
    BY <1>2 DEF TaskOpen, history
  <2>2. c.id = slots[i].id /\ c.state = slots[i].state /\ c.outcome = slots[i].outcome
    BY <1>0 DEF Coroutine
  <2>3. slots' = [slots EXCEPT ![i] = c]
    BY <1>0, <1>2 DEF TaskOpen
  <2>4. Fits(slots[i].state, slots[i].outcome, fate[slots[i].id])
    BY <2>1 DEF FateInv, SlotFate
  <2> HIDE DEF c
  <2> QED
    BY <2>1, <2>2, <2>3, <2>4, Shape, OneSlotSame
<1>3. CASE TaskDispose(i)
  <2>0. Used(i) /\ UNCHANGED <<nextId, cancel>> /\ cancel.at = "none"
    BY <1>3 DEF TaskDispose, SlotsLockFree
  <2>1. CASE slots[i].luaRefCount > 1
    <3> DEFINE c == [slots[i] EXCEPT !.luaRefCount = @ - 1]
    <3>1. c.id = slots[i].id /\ c.state = slots[i].state /\ c.outcome = slots[i].outcome
      BY <1>0 DEF Coroutine
    <3>2. slots' = [slots EXCEPT ![i] = c] /\ fate' = fate
      BY <1>0, <1>3, <2>1 DEF TaskDispose
    <3>3. Fits(slots[i].state, slots[i].outcome, fate[slots[i].id])
      BY <2>0 DEF FateInv, SlotFate
    <3> HIDE DEF c
    <3> QED
      BY <2>0, <3>1, <3>2, <3>3, Shape, OneSlotSame
  <2>2. CASE ~(slots[i].luaRefCount > 1)
    <3> DEFINE to == IF Finished(i) THEN "RELEASED"
                     ELSE IF slots[i].state = "PAUSED" THEN "ABORTED"
                     ELSE slots[i].state
               fnf == slots[i].fireAndForget \/ to \notin {"RELEASED", "ABORTED"}
                                             \/ slots[i].state = "ABORTED"
               c == [slots[i] EXCEPT !.luaRefCount = 0, !.state = to, !.fireAndForget = fnf]
    <3>1. c.id = slots[i].id /\ c.state = to /\ c.outcome = slots[i].outcome
      <4> HIDE DEF fnf, to
      <4> QED
        BY <1>0 DEF Coroutine
    <3>2. slots' = [slots EXCEPT ![i] = c]
      BY <1>0, <1>3, <2>2 DEF TaskDispose
    <3>3. IF to = slots[i].state THEN fate' = fate ELSE Settle(i)
      BY <1>3, <2>2 DEF TaskDispose
    <3>4. CASE to = slots[i].state
      <4>1. Fits(slots[i].state, slots[i].outcome, fate[slots[i].id])
        BY <2>0 DEF FateInv, SlotFate
      <4> HIDE DEF c, to
      <4> QED
        BY <2>0, <3>1, <3>2, <3>3, <3>4, <4>1, Shape, OneSlotSame
    <3>5. CASE to # slots[i].state
      <4>1. slots[i].state # "RELEASED"
        BY <3>5 DEF Finished
      <4> HIDE DEF c, to
      <4> QED
        BY <2>0, <3>1, <3>2, <3>3, <3>5, <4>1, Shape, SettleFate
    <3> QED
      BY <3>4, <3>5
  <2> QED
    BY <2>1, <2>2
<1>4. CASE TaskCancel(i)
  BY <1>4, Stopped, SettleFate DEF TaskCancel, Finished, States
<1>5. CASE TaskConsumeResult(i)
  BY <1>5, TakeFate DEF TaskConsumeResult
<1>6. CASE Resume(i)
  <2>1. /\ Used(i) /\ UNCHANGED <<nextId, cancel, fate>>
        /\ slots' = [slots EXCEPT ![i] = StopWaiting(i, "WORKING")]
        /\ slots[i].state \in {"PAUSED", "SLEEPING", "WAITING"}
    BY <1>6, UsedId DEF Resume, history
  <2>2. Fits("WORKING", slots[i].outcome, fate[slots[i].id])
    BY <2>1, FateFacts DEF Fits
  <2> QED
    BY <2>1, <2>2, Stopped, OneSlotSame DEF States
<1> QED
  BY <1>1, <1>2, <1>3, <1>4, <1>5, <1>6 DEF LuaCode

(* So does what host threads do. *)
LEMMA HostFate ==
  ASSUME Inv, FateInv, NEW i \in Slot, Host(i)
  PROVE  FateInv'
<1>0. slots \in [Slot -> Coroutine] /\ fate \in [Id -> Fates]
  BY DEF Inv, TypeInv, TypeOK
<1>1. ASSUME NEW forget \in BOOLEAN, StartCoroutine(i, forget)
      PROVE  FateInv'
  <2> DEFINE good == [Working EXCEPT !.apiOwned = TRUE, !.fireAndForget = forget]
             bad == [Zeroed EXCEPT !.apiOwned = TRUE, !.fireAndForget = forget,
                       !.outcome = "error",
                       !.state = IF forget THEN "RELEASED" ELSE "DONE"]
             badFate == IF forget THEN "settled" ELSE "ended"
  <2>1. good \in Coroutine /\ bad \in Coroutine /\ cancel' = cancel
    BY <1>1, AcquiredTypes DEF StartCoroutine
  <2>2. Fits(good.state, good.outcome, "live") /\ Fits(bad.state, bad.outcome, badFate)
    BY DEF Working, Zeroed, Fits
  <2>3. AcquireSlot(i, good, "live") \/ AcquireSlot(i, bad, badFate)
    BY <1>1 DEF StartCoroutine
  <2> HIDE DEF good, bad, badFate
  <2> QED
    BY <2>1, <2>2, <2>3, AcquireSlotFate
<1>2. CASE InlineStart(i)
  <2> DEFINE c == [Working EXCEPT !.isInline = TRUE]
  <2>1. AcquireSlot(i, c, "live") /\ cancel' = cancel
    BY <1>2 DEF InlineStart
  <2>2. c \in Coroutine /\ c.state = "WORKING"
    BY AcquiredTypes DEF Working, Zeroed
  <2> HIDE DEF c
  <2> QED
    BY <2>1, <2>2, SettledFits, AcquireSlotFate
<1>3. CASE InlineEnd(i)
  <2>1. /\ slots' = [slots EXCEPT ![i] = Zeroed] /\ slots[i].isInline
        /\ UNCHANGED <<cancel, nextId>> /\ cancel.at = "none"
        /\ fate' = [fate EXCEPT ![slots[i].id] = "gone"]
    BY <1>3 DEF InlineEnd, SlotsLockFree
  <2>2. CASE Used(i)
    <3>1. slots[i].id \in Id
      BY <2>2, UsedId
    <3>2. \A j \in Slot : slots'[j] = IF j \in {i} THEN Zeroed ELSE slots[j]
      BY <1>0, <2>1
    <3>3. /\ \A id \in Id : id # slots[i].id => fate'[id] = fate[id]
          /\ fate'[slots[i].id] = "gone"
      BY <1>0, <2>1, <3>1
    <3> QED
      BY <2>1, <2>2, <3>2, <3>3, FreedFate
  <2>3. CASE ~Used(i)
    <3>1. fate' = fate
      BY <1>0, <2>1, <2>3, BoundAssumption DEF Used, Id
    <3>2. Zeroed.id = 0 /\ Zeroed.outcome = "none"
      BY DEF Zeroed
    <3>3. \A j \in Slot : slots'[j].id = slots[j].id
      BY <1>0, <2>1, <2>3, <3>2 DEF Used
    <3>4. IdInv' /\ Held'
      BY <2>1, <3>1, <3>3 DEF FateInv, IdInv, Held, Used
    <3>5. ASSUME NEW j \in Slot PROVE SlotFate(j)'
      BY <1>0, <2>1, <2>3, <3>1, <3>2 DEF FateInv, SlotFate, Used
    <3> QED
      BY <3>4, <3>5 DEF FateInv
  <2> QED
    BY <2>2, <2>3
<1>4. CASE GetResult(i)
  BY <1>4, TakeFate DEF GetResult
<1>5. CASE ReleaseResult(i)
  <2> DEFINE c == [slots[i] EXCEPT !.state = "RELEASED"]
  <2>1. c.id = slots[i].id
    BY <1>0 DEF Coroutine
  <2>2. slots' = [slots EXCEPT ![i] = c]
    BY <1>0, <1>5 DEF ReleaseResult
  <2> HIDE DEF c
  <2> QED
    BY <1>5, <2>1, <2>2, Shape, SettleFate DEF ReleaseResult
<1>6. CASE Cancel(i)
  <2>1. CASE slots[i].state = "DONE"
    <3> DEFINE c == [slots[i] EXCEPT !.state = "RELEASED"]
    <3>1. c.id = slots[i].id
      BY <1>0 DEF Coroutine
    <3>2. slots' = [slots EXCEPT ![i] = c] /\ cancel' = cancel
      BY <1>0, <1>6, <2>1 DEF Cancel
    <3> HIDE DEF c
    <3> QED
      BY <1>6, <2>1, <3>1, <3>2, Shape, SettleFate DEF Cancel
  <2>2. CASE slots[i].state # "DONE"
    <3>1. slots' = [slots EXCEPT ![i] = slots[i]] /\ cancel'.slot = i /\ Settle(i)
      BY <1>0, <1>6, <2>2 DEF Cancel
    <3>2. Used(i) /\ slots[i].state # "RELEASED" /\ nextId' = nextId
      BY <1>6 DEF Cancel
    <3> QED
      BY <3>1, <3>2, Shape, SettleFate
  <2> QED
    BY <2>1, <2>2
<1> QED
  BY <1>1, <1>2, <1>3, <1>4, <1>5, <1>6 DEF Host

(* Every step keeps the fates. *)
LEMMA NextFate ==
  ASSUME Inv, FateInv, [Next]_vars
  PROVE  FateInv'
<1>0. slots \in [Slot -> Coroutine] /\ cancel.slot \in Slot
  BY DEF Inv, TypeInv, TypeOK
<1>1. CASE CancelMark
  <2> DEFINE i == cancel.slot
             c == [slots[i] EXCEPT !.fireAndForget = TRUE]
  <2>1. Used(i) /\ cancel.at # "none" /\ cancel'.slot = i /\ UNCHANGED <<nextId, fate>>
    BY <1>1 DEF CancelMark, Inv, CancelInv, TypeInv, TypeOK, history
  <2>2. c.id = slots[i].id /\ c.state = slots[i].state /\ c.outcome = slots[i].outcome
    BY <1>0 DEF Coroutine
  <2>3. slots' = [slots EXCEPT ![i] = c]
    BY <1>0, <1>1 DEF CancelMark
  <2>4. Fits(slots[i].state, slots[i].outcome, fate[slots[i].id])
    BY <1>0, <2>1 DEF FateInv, SlotFate
  <2> HIDE DEF c
  <2> QED
    BY <1>0, <2>1, <2>2, <2>3, <2>4, Shape, OneSlotSame
<1>2. CASE CancelStore
  <2> DEFINE i == cancel.slot
  <2>1. /\ Used(i) /\ cancel.at # "none" /\ UNCHANGED <<nextId, fate>> /\ cancel'.at = "none"
        /\ slots' = [slots EXCEPT ![i] = StopWaiting(i, "ABORTED")]
    BY <1>2 DEF CancelStore, Inv, CancelInv, history
  <2>2. Fits("ABORTED", slots[i].outcome, fate[slots[i].id])
    BY <1>0, <2>1, FateFacts, SettledFits
  <2>3. Becomes(i, "ABORTED", slots[i].outcome)
    BY <1>0, <2>1, Stopped DEF States
  <2> QED
    BY <1>0, <2>1, <2>2, <2>3, OneSlotSame
<1>3. CASE KitsuneInterrupt \/ UNCHANGED vars
  BY <1>3, FateKept DEF KitsuneInterrupt, vars, history
<1> QED
  BY <1>1, <1>2, <1>3, SchedulerFate, RunningFate, LuaCodeFate, HostFate DEF Next

(* Initially nothing has an id. *)
LEMMA InitFate == Init => FateInv
<1> SUFFICES ASSUME Init PROVE FateInv
  OBVIOUS
<1>1. \A i \in Slot : slots[i].id = 0 /\ slots[i].outcome = "none"
  BY DEF Init, Zeroed
<1>2. cancel.at = "none" /\ nextId = 0 /\ \A id \in Id : fate[id] = "new"
  BY DEF Init
<1> QED
  BY <1>1, <1>2 DEF FateInv, IdInv, Held, SlotFate, Used

(* The two invariants together hold throughout. *)
LEMMA FateInvariant == ~HandlerStartsTasks => (Spec => [](Inv /\ FateInv))
<1> SUFFICES ASSUME ~HandlerStartsTasks PROVE Spec => [](Inv /\ FateInv)
  OBVIOUS
<1>1. Inv /\ FateInv /\ [Next]_vars => Inv' /\ FateInv'
  BY InvNext, NextFate
<1> QED
  BY <1>1, InitInv, InitFate, PTL DEF Spec

(* A coroutine that has not ended, and that nobody cancelled or interrupted, has its slot: no
   acquisition of a slot at capacity and no sweep drops it. *)
THEOREM NoneLost == ~HandlerStartsTasks => (Spec => []NoCoroutineLost)
<1> SUFFICES ASSUME ~HandlerStartsTasks PROVE Spec => []NoCoroutineLost
  OBVIOUS
<1>1. Inv /\ FateInv => NoCoroutineLost
  <2> SUFFICES ASSUME Inv, FateInv, NEW id \in Id, fate[id] = "live"
               PROVE  \E i \in Slot : slots[i].id = id /\ slots[i].state # "RELEASED"
    BY DEF NoCoroutineLost
  <2>1. PICK i \in Slot : slots[i].id = id
    BY DEF FateInv, Held
  <2>2. Used(i)
    BY <2>1, BoundAssumption DEF Used, Id
  <2> QED
    BY <2>1, <2>2, FateFacts
<1> QED
  BY <1>1, FateInvariant, PTL

(* The outcome of a coroutine that ended by itself stays in its slot until it is taken or given
   up. *)
THEOREM OutcomesKept == ~HandlerStartsTasks => (Spec => []OutcomeKept)
<1> SUFFICES ASSUME ~HandlerStartsTasks PROVE Spec => []OutcomeKept
  OBVIOUS
<1>1. Inv /\ FateInv => OutcomeKept
  <2> SUFFICES ASSUME Inv, FateInv, NEW id \in Id, fate[id] = "ended"
               PROVE  \E i \in Slot : /\ slots[i].id = id /\ slots[i].state = "DONE"
                                      /\ slots[i].outcome # "none"
    BY DEF OutcomeKept
  <2>1. PICK i \in Slot : slots[i].id = id
    BY DEF FateInv, Held
  <2>2. Used(i)
    BY <2>1, BoundAssumption DEF Used, Id
  <2> QED
    BY <2>1, <2>2, FateFacts
<1> QED
  BY <1>1, FateInvariant, PTL

(* A value is handed over once: what KitsuneGetResult or ConsumeResult took is not in the slot any
   more. *)
THEOREM ValuesDeliveredOnce == ~HandlerStartsTasks => (Spec => []DeliveredOnce)
<1> SUFFICES ASSUME ~HandlerStartsTasks PROVE Spec => []DeliveredOnce
  OBVIOUS
<1>1. Inv /\ FateInv => DeliveredOnce
  <2> SUFFICES ASSUME Inv, FateInv, NEW i \in Slot, slots[i].outcome = "value"
               PROVE  fate[slots[i].id] # "taken"
    BY DEF DeliveredOnce
  <2>1. Used(i)
    BY DEF FateInv, SlotFate
  <2> QED
    BY <2>1, FateFacts
<1> QED
  BY <1>1, FateInvariant, PTL
===============================================================================
