-------------------------- MODULE AsyncLaunch_proofs --------------------------
(***************************************************************************)
(* Proofs about AsyncLaunch and KitsuneWait for any number of slots, ids    *)
(* and handles: what KitsuneWait has waited for when it returns, and whose  *)
(* id an asynchronous start may get wrong.                                  *)
(***************************************************************************)
EXTENDS AsyncLaunch, Coroutines_proofs

(* Ids are given out in order, a coroutine stays in its slot until the slot  *)
(* is freed, and what has ended for good does not come back.                 *)
Due(id) == fate[id] \in {"live", "ended"}
Acquired(id) == nextId' = nextId + 1 /\ id = nextId + 1
Onwards ==
  /\ nextId' \in {nextId, nextId + 1}
  /\ \A i \in Slot : slots'[i].id \in {slots[i].id, 0} \/ Acquired(slots'[i].id)
  /\ \A id \in Id : Due(id)' => Due(id) \/ Acquired(id)

------------------------------------------------------------------------------
(* The steps of the slots. *)

(* No slot changes hands, and one fate at most changes, for good or to ended. *)
LEMMA SameIds ==
  ASSUME TypeOK, \A i \in Slot : slots'[i].id = slots[i].id, nextId' = nextId,
         NEW f, NEW id, fate' = fate \/ fate' = [fate EXCEPT ![id] = f],
         f \in {"live", "ended"} => Due(id)
  PROVE  Onwards
  BY DEF TypeOK, Onwards, Due

(* The same with all fates as they were. *)
LEMMA SameFates ==
  ASSUME \A i \in Slot : slots'[i].id = slots[i].id, UNCHANGED <<nextId, fate>>
  PROVE  Onwards
  BY DEF Onwards, Due

(* Neither a slot nor a fate changes. *)
LEMMA SameSlots ==
  ASSUME UNCHANGED <<slots, nextId, fate>> PROVE Onwards
  BY DEF Onwards, Due

(* What Settle does is for good. *)
LEMMA SettleIds ==
  ASSUME TypeOK, \A i \in Slot : slots'[i].id = slots[i].id, nextId' = nextId,
         NEW i \in Slot, Settle(i)
  PROVE  Onwards
<1> DEFINE f == IF fate[slots[i].id] = "taken" THEN fate[slots[i].id] ELSE "settled"
<1>1. fate' = [fate EXCEPT ![slots[i].id] = f] /\ f \notin {"live", "ended"}
  BY DEF Settle, TypeOK
<1> HIDE DEF f
<1> QED
  BY <1>1, SameIds

(* AcquireSlot gives out the next id. *)
LEMMA AcquireIds ==
  ASSUME TypeOK, NEW i \in Slot, NEW fields \in Coroutine, NEW f, AcquireSlot(i, fields, f)
  PROVE  Onwards
<1>1. nextId' = nextId + 1
  BY DEF AcquireSlot
<1>2. \A j \in Slot : slots'[j].id = slots[j].id \/ slots'[j].id = nextId + 1
  BY DEF AcquireSlot, TypeOK, Coroutine
<1>3. \A id \in Id : Due(id)' => Due(id) \/ id = nextId + 1
  <2>1. fate' = [Gone({i}) EXCEPT ![nextId + 1] = f]
    BY DEF AcquireSlot
  <2>2. \A id \in Id : id # nextId + 1 => fate'[id] = Gone({i})[id]
    BY <2>1 DEF Gone
  <2> QED
    BY <2>2 DEF Gone, Due
<1> QED
  BY <1>1, <1>2, <1>3 DEF Onwards, Acquired

(* The steps of the scheduler free slots, and end coroutines. *)
LEMMA SchedulerIds ==
  ASSUME Inv, Scheduler PROVE Onwards
<1>0. TypeOK /\ CurInv
  BY DEF Inv, TypeInv
<1>1. CASE BeginPass \/ EndPass \/ VisitSkip \/ HandlerReturns \/ ClearInterrupt
  BY <1>1, SameSlots DEF BeginPass, EndPass, VisitSkip, HandlerReturns, ClearInterrupt, history
<1>2. CASE InterruptSlot
  <2>1. \A i \in Slot : slots'[i].id = slots[i].id
    <3>1. StopWaiting(cur, "RELEASED") \in Coroutine
          /\ StopWaiting(cur, "RELEASED").id = slots[cur].id
      BY <1>0, <1>2, StopWaitingType DEF InterruptSlot, States
    <3> QED
      BY <1>0, <1>2, <3>1 DEF InterruptSlot, TypeOK, Coroutine
  <2> QED
    BY <1>0, <1>2, <2>1, SettleIds, SameIds DEF InterruptSlot
<1>3. CASE VisitAborted
  <2>1. \A i \in Slot : slots'[i].id = slots[i].id
    BY <1>0, <1>3 DEF VisitAborted, TypeOK, Coroutine
  <2> QED
    BY <1>3, <2>1, SameFates DEF VisitAborted
<1>4. CASE VisitResume
  <2>1. StopWaiting(cur, "WORKING").id = slots[cur].id /\ cur \in Slot
    BY <1>0, <1>4, StopWaitingType DEF VisitResume, States
  <2>2. \A i \in Slot : slots'[i].id = slots[i].id
    BY <1>0, <1>4, <2>1 DEF VisitResume, TypeOK
  <2> QED
    BY <1>4, <2>2, SameFates DEF VisitResume
<1>5. CASE SleepContinuation
  <2>1. \A i \in Slot : slots'[i].id = slots[i].id
    BY <1>0, <1>5 DEF SleepContinuation, TypeOK, Coroutine, CurInv
  <2> QED
    BY <1>5, <2>1, SameFates DEF SleepContinuation, history
<1>6. CASE ReleaseIfForgotten
  <2>1. \A i \in Slot : slots'[i].id = slots[i].id
    BY <1>0, <1>6 DEF ReleaseIfForgotten, TypeOK, Coroutine
  <2>2. fate' = fate \/ \E f : /\ f \notin {"live", "ended"}
                               /\ fate' = [fate EXCEPT ![runId] = f]
    <3>1. CASE fate[runId] = "taken"
      BY <1>6, <3>1 DEF ReleaseIfForgotten
    <3>2. CASE fate[runId] # "taken"
      BY <1>6, <3>2 DEF ReleaseIfForgotten
    <3> QED
      BY <3>1, <3>2
  <2>3. nextId' = nextId
    BY <1>6 DEF ReleaseIfForgotten
  <2> QED
    BY <1>0, <2>1, <2>2, <2>3, SameIds, SameFates
<1>7. CASE Sweep
  <2>1. \A i \in Slot : slots'[i].id \in {slots[i].id, 0}
    BY <1>7 DEF Sweep, Zeroed
  <2>2. \A id \in Id : fate'[id] \in {fate[id], "gone"}
    BY <1>7 DEF Sweep, Gone
  <2> QED
    BY <1>7, <2>1, <2>2 DEF Sweep, Onwards, Due
<1> QED
  BY <1>1, <1>2, <1>3, <1>4, <1>5, <1>6, <1>7 DEF Scheduler

(* The running coroutine may end. *)
LEMMA RunningIds ==
  ASSUME Inv, Running PROVE Onwards
<1>0. TypeOK /\ pc = "run" /\ cur \in Slot
  BY DEF Inv, TypeInv, CurInv, Running, Yield, Sleep, Pause, Return, TickerRaises, Wait
<1>1. CASE Yield
  BY <1>1, SameSlots DEF Yield
<1>2. CASE Sleep
  <2>1. \A i \in Slot : slots'[i].id = slots[i].id
    BY <1>0, <1>2 DEF Sleep, TypeOK, Coroutine
  <2> QED
    BY <1>2, <2>1, SameFates DEF Sleep
<1>3. CASE Pause
  <2>1. \A i \in Slot : slots'[i].id = slots[i].id
    BY <1>0, <1>3 DEF Pause, TypeOK, Coroutine
  <2> QED
    BY <1>3, <2>1, SameFates DEF Pause
<1>4. ASSUME NEW t \in Slot, NEW timeout \in BOOLEAN, Wait(t, timeout) PROVE Onwards
  <2>1. \A i \in Slot : slots'[i].id = slots[i].id
    BY <1>0, <1>4 DEF Wait, TypeOK, Coroutine
  <2> QED
    BY <1>4, <2>1, SameFates DEF Wait
<1>5. ASSUME NEW o, FinishCoroutine(o) PROVE Onwards
  <2> DEFINE f == IF fate[runId] = "live" THEN "ended" ELSE fate[runId]
  <2>1. \A i \in Slot : slots'[i].id = slots[i].id
    BY <1>0, <1>5 DEF FinishCoroutine, TypeOK, Coroutine
  <2>2. fate' = [fate EXCEPT ![runId] = f] /\ (f \in {"live", "ended"} => Due(runId))
    BY <1>5 DEF FinishCoroutine, Due
  <2> HIDE DEF f
  <2> QED
    BY <1>0, <1>5, <2>1, <2>2, SameIds DEF FinishCoroutine
<1> QED
  BY <1>1, <1>2, <1>3, <1>4, <1>5 DEF Running, Return, TickerRaises

(* An outcome that was taken is not due any more. *)
LEMMA TakeIds ==
  ASSUME TypeOK, NEW i \in Slot, Take(i) PROVE Onwards
<1>1. \A j \in Slot : slots'[j].id = slots[j].id
  BY DEF Take, TypeOK, Coroutine
<1>2. CASE slots[i].outcome = "value"
  <2>1. PICK f \in {"taken"} : fate' = [fate EXCEPT ![slots[i].id] = f] /\ nextId' = nextId
    BY <1>2 DEF Take
  <2>2. f \notin {"live", "ended"}
    OBVIOUS
  <2> QED
    BY <1>1, <2>1, <2>2, SameIds
<1>3. CASE slots[i].outcome # "value"
  BY <1>1, <1>3, SettleIds DEF Take
<1> QED
  BY <1>2, <1>3

(* Lua code starts, cancels and gives up coroutines. *)
LEMMA LuaCodeIds ==
  ASSUME Inv, NEW i \in Slot, LuaCode(i) PROVE Onwards
<1>0. TypeOK
  BY DEF Inv, TypeInv
<1>1. CASE TasksNew(i)
  BY <1>0, <1>1, AcquiredTypes, AcquireIds DEF TasksNew
<1>2. CASE TaskOpen(i)
  <2>1. \A j \in Slot : slots'[j].id = slots[j].id
    BY <1>0, <1>2 DEF TaskOpen, TypeOK, Coroutine
  <2> QED
    BY <1>2, <2>1, SameFates DEF TaskOpen, history
<1>3. CASE TaskDispose(i)
  <2>1. \A j \in Slot : slots'[j].id = slots[j].id
    BY <1>0, <1>3 DEF TaskDispose, TypeOK, Coroutine
  <2>2. nextId' = nextId /\ (UNCHANGED fate \/ Settle(i))
    BY <1>3 DEF TaskDispose
  <2> QED
    BY <1>0, <2>1, <2>2, SameIds, SettleIds
<1>4. CASE TaskCancel(i)
  <2>1. StopWaiting(i, "ABORTED").id = slots[i].id
    BY <1>0, StopWaitingType DEF States
  <2>2. \A j \in Slot : slots'[j].id = slots[j].id
    BY <1>0, <1>4, <2>1 DEF TaskCancel, TypeOK
  <2> QED
    BY <1>0, <1>4, <2>2, SettleIds DEF TaskCancel
<1>5. CASE TaskConsumeResult(i)
  BY <1>0, <1>5, TakeIds DEF TaskConsumeResult
<1>6. CASE Resume(i)
  <2>1. StopWaiting(i, "WORKING").id = slots[i].id
    BY <1>0, StopWaitingType DEF States
  <2>2. \A j \in Slot : slots'[j].id = slots[j].id
    BY <1>0, <1>6, <2>1 DEF Resume, TypeOK
  <2> QED
    BY <1>6, <2>2, SameFates DEF Resume, history
<1> QED
  BY <1>1, <1>2, <1>3, <1>4, <1>5, <1>6 DEF LuaCode

(* So do host threads, and they free inline slots. *)
LEMMA HostIds ==
  ASSUME Inv, NEW i \in Slot, Host(i) PROVE Onwards
<1>0. TypeOK
  BY DEF Inv, TypeInv
<1>1. ASSUME NEW forget \in BOOLEAN, StartCoroutine(i, forget) PROVE Onwards
  BY <1>0, <1>1, AcquiredTypes, AcquireIds DEF StartCoroutine
<1>2. CASE InlineStart(i)
  BY <1>0, <1>2, AcquiredTypes, AcquireIds DEF InlineStart
<1>3. CASE InlineEnd(i)
  <2>1. \A j \in Slot : slots'[j].id \in {slots[j].id, 0}
    BY <1>0, <1>3 DEF InlineEnd, TypeOK, Zeroed
  <2> QED
    BY <1>0, <1>3, <2>1 DEF InlineEnd, Onwards, Due, TypeOK
<1>4. CASE GetResult(i)
  BY <1>0, <1>4, TakeIds DEF GetResult
<1>5. CASE ReleaseResult(i)
  <2>1. \A j \in Slot : slots'[j].id = slots[j].id
    BY <1>0, <1>5 DEF ReleaseResult, TypeOK, Coroutine
  <2> QED
    BY <1>0, <1>5, <2>1, SettleIds DEF ReleaseResult
<1>6. CASE Cancel(i)
  <2>1. \A j \in Slot : slots'[j].id = slots[j].id
    BY <1>0, <1>6 DEF Cancel, TypeOK, Coroutine
  <2> QED
    BY <1>0, <1>6, <2>1, SettleIds DEF Cancel
<1> QED
  BY <1>1, <1>2, <1>3, <1>4, <1>5, <1>6 DEF Host

(* Every step goes onwards. *)
LEMMA NextIds == Inv /\ [Next]_vars => Onwards
<1> SUFFICES ASSUME Inv, [Next]_vars PROVE Onwards
  OBVIOUS
<1>0. TypeOK /\ cancel.slot \in Slot
  BY DEF Inv, TypeInv, TypeOK
<1>1. CASE CancelMark
  <2>1. \A j \in Slot : slots'[j].id = slots[j].id
    BY <1>0, <1>1 DEF CancelMark, TypeOK, Coroutine
  <2> QED
    BY <1>1, <2>1, SameFates DEF CancelMark, history
<1>2. CASE CancelStore
  <2>1. StopWaiting(cancel.slot, "ABORTED").id = slots[cancel.slot].id
    BY <1>0, StopWaitingType DEF States
  <2>2. \A j \in Slot : slots'[j].id = slots[j].id
    BY <1>0, <1>2, <2>1 DEF CancelStore, TypeOK
  <2> QED
    BY <1>2, <2>2, SameFates DEF CancelStore, history
<1>3. CASE KitsuneInterrupt \/ UNCHANGED vars
  BY <1>3, SameSlots DEF KitsuneInterrupt, vars, history
<1> QED
  BY <1>1, <1>2, <1>3, SchedulerIds, RunningIds, LuaCodeIds, HostIds DEF Next

------------------------------------------------------------------------------
(* The waiting thread and its asynchronous starts. *)

(* What has been given out, and is neither live nor due, stays so. *)
Over(id) == id \in 1..nextId /\ fate[id] \notin {"live", "ended"}

WaitInv ==
  /\ waitedFor \in 0..nextId
  /\ waiter = "returned" => \A id \in 1..waitedFor : Over(id)

(* The slot of the start in progress is its coroutine's, or that one is over. *)
StartInv ==
  launch # NoLaunch =>
    /\ launch.slot \in Slot /\ launch.id \in 1..nextId
    /\ slots[launch.slot].id # launch.id => Over(launch.id)

ReturnedInv == returned.got # returned.acquired => Over(returned.acquired)

LaunchInv == WaitInv /\ StartInv /\ ReturnedInv

LAll == Inv /\ FateInv /\ LaunchInv

(* At first nothing is in progress. *)
LEMMA LaunchInitial == LaunchInit => LAll
<1> SUFFICES ASSUME LaunchInit PROVE LaunchInv
  BY InitInv, InitFate DEF LAll, LaunchInit, WaitInit
<1> QED
  BY DEF LaunchInv, WaitInv, StartInv, ReturnedInv, LaunchInit, WaitInit, Init, NoLaunch

(* A step of the composition is a step of the slots, or leaves them alone. *)
LEMMA LaunchSteps == [LaunchNext]_launchVars => [Next]_vars
<1> SUFFICES ASSUME [LaunchNext]_launchVars PROVE [Next]_vars
  OBVIOUS
<1>1. CASE Launch
  BY <1>1 DEF Launch, Next, Host
<1>2. CASE CommitAndLaunchAsync
  BY <1>2 DEF CommitAndLaunchAsync, waitVars
<1>3. CASE ElsewhereOrWaiting
  BY <1>3 DEF ElsewhereOrWaiting, WaitNext, EngineStep, BeginWait, LookAtSlots, FallAsleep,
     ReturnFromWait
<1>4. CASE UNCHANGED launchVars
  BY <1>4 DEF launchVars, waitVars
<1> QED
  BY <1>1, <1>2, <1>3, <1>4 DEF LaunchNext

(* What is over stays over. *)
LEMMA OverKept ==
  ASSUME Inv, Inv', Onwards, NEW id, Over(id) PROVE Over(id)'
<1>1. nextId \in Nat /\ nextId <= MaxId /\ MaxId \in Nat
  BY BoundAssumption DEF Inv, TypeInv, TypeOK
<1>2. id \in Id /\ id # nextId + 1 /\ id \in 1..nextId'
  BY <1>1 DEF Over, Onwards, Id
<1> QED
  BY <1>1, <1>2 DEF Over, Onwards, Due, Acquired

(* A slot that gives a coroutine away gives it away when it is over. *)
LEMMA LaunchedKept ==
  ASSUME Inv, Inv', FateInv, FateInv', Onwards, NEW i \in Slot, NEW id \in 1..nextId,
         slots[i].id # id => Over(id)
  PROVE  slots'[i].id # id => Over(id)'
<1> SUFFICES ASSUME slots'[i].id # id PROVE Over(id)'
  OBVIOUS
<1>1. nextId \in Nat /\ nextId <= MaxId /\ MaxId \in Nat
  BY BoundAssumption DEF Inv, TypeInv, TypeOK
<1>2. id \in Id /\ id # nextId + 1 /\ id # 0 /\ id \in 1..nextId'
  BY <1>1 DEF Onwards, Id
<1>3. CASE slots[i].id # id
  BY <1>3, OverKept
<1>4. CASE slots[i].id = id
  <2> SUFFICES ASSUME fate'[id] \in {"live", "ended"} PROVE FALSE
    BY <1>2 DEF Over
  <2>1. PICK j \in Slot : slots'[j].id = id
    BY <1>2 DEF FateInv, Held
  <2>2. slots[j].id = id
    BY <1>2, <2>1 DEF Onwards, Acquired
  <2>3. j = i
    BY <1>2, <1>4, <2>2 DEF FateInv, IdInv, Used
  <2> QED
    BY <2>1, <2>3
<1> QED
  BY <1>3, <1>4

(* When all used slots are RELEASED, every coroutine there was is over. *)
LEMMA ReleasedOver ==
  ASSUME Inv, FateInv, AllReleased, NEW id \in 1..nextId PROVE Over(id)
<1>1. id \in Id /\ id # 0
  BY BoundAssumption DEF Inv, TypeInv, TypeOK, Id
<1> SUFFICES ASSUME fate[id] \in {"live", "ended"} PROVE FALSE
  BY DEF Over
<1>2. PICK i \in Slot : slots[i].id = id
  BY <1>1 DEF FateInv, Held
<1>3. slots[i].state = "RELEASED"
  BY <1>1, <1>2 DEF AllReleased, Used
<1> QED
  BY <1>2, <1>3, ReleasedFate

(* The slot of a new coroutine has the next id. *)
LEMMA LaunchedId ==
  ASSUME Inv, NEW i \in Slot, NEW forget \in BOOLEAN, StartCoroutine(i, forget)
  PROVE  nextId' = nextId + 1 /\ slots'[i].id = nextId + 1
<1>1. PICK fields, f : fields \in Coroutine /\ AcquireSlot(i, fields, f)
  BY AcquiredTypes DEF StartCoroutine
<1>2. slots' = [slots EXCEPT ![i] = [fields EXCEPT !.id = nextId + 1]] /\ nextId' = nextId + 1
  BY <1>1 DEF AcquireSlot
<1>3. [fields EXCEPT !.id = nextId + 1].id = nextId + 1
  BY DEF Coroutine
<1> QED
  BY <1>2, <1>3 DEF Inv, TypeInv, TypeOK

(* The invariant is inductive. *)
LEMMA LaunchNextInv == ~HandlerStartsTasks /\ LAll /\ [LaunchNext]_launchVars => LAll'
<1> SUFFICES ASSUME ~HandlerStartsTasks, LAll, [LaunchNext]_launchVars PROVE LAll'
  OBVIOUS
<1>0. Inv /\ FateInv /\ Inv' /\ FateInv' /\ Onwards /\ [Next]_vars
  BY LaunchSteps, InvNext, NextFate, NextIds DEF LAll
<1>1. nextId \in Nat /\ nextId' \in Nat /\ nextId <= nextId'
  <2>1. nextId \in Nat
    BY <1>0, BoundAssumption DEF Inv, TypeInv, TypeOK
  <2> QED
    BY <1>0, <2>1 DEF Onwards
<1>2. waitedFor' \in 0..nextId'
  <2>1. waitedFor' \in {waitedFor, nextId}
    BY DEF LaunchNext, Launch, CommitAndLaunchAsync, ElsewhereOrWaiting, WaitNext, EngineStep,
       BeginWait, LookAtSlots, FallAsleep, ReturnFromWait, launchVars, waitVars
  <2> QED
    BY <1>1, <2>1 DEF LAll, LaunchInv, WaitInv
<1>3. waiter' = "returned" => \A id \in 1..waitedFor' : Over(id)'
  <2> SUFFICES ASSUME waiter' = "returned", NEW id \in 1..waitedFor' PROVE Over(id)'
    OBVIOUS
  <2>1. waitedFor' = waitedFor /\ (waiter = "returned" \/ (LookAtSlots /\ AllReleased))
    BY DEF LaunchNext, Launch, CommitAndLaunchAsync, ElsewhereOrWaiting, WaitNext, EngineStep,
       NotifyAll, BeginWait, LookAtSlots, FallAsleep, ReturnFromWait, launchVars, waitVars
  <2>2. CASE waiter = "returned"
    BY <1>0, <2>1, <2>2, OverKept DEF LAll, LaunchInv, WaitInv
  <2>3. CASE LookAtSlots /\ AllReleased
    <3>1. id \in 1..nextId
      BY <1>1, <2>1 DEF LAll, LaunchInv, WaitInv
    <3> QED
      BY <1>0, <2>3, <3>1, ReleasedOver, OverKept
  <2> QED
    BY <2>1, <2>2, <2>3
<1>4. StartInv'
  <2>1. CASE Launch
    <3>1. PICK i \in Slot, forget \in BOOLEAN :
             StartCoroutine(i, forget) /\ launch' = [slot |-> i, id |-> nextId']
      BY <2>1 DEF Launch
    <3>2. nextId' = nextId + 1 /\ slots'[i].id = nextId + 1
      BY <1>0, <3>1, LaunchedId
    <3> QED
      BY <1>1, <3>1, <3>2 DEF StartInv
  <2>2. CASE launch' = launch
    <3>1. CASE launch = NoLaunch
      BY <2>2, <3>1 DEF StartInv
    <3>2. CASE launch # NoLaunch
      <4>1. PICK i \in Slot, id \in 1..nextId :
               i = launch.slot /\ id = launch.id /\ (slots[i].id # id => Over(id))
        BY <3>2 DEF LAll, LaunchInv, StartInv
      <4>2. slots'[i].id # id => Over(id)'
        BY <1>0, <4>1, LaunchedKept
      <4>3. id \in 1..nextId'
        BY <1>1
      <4>4. launch'.slot = i /\ launch'.id = id
        BY <2>2, <4>1
      <4> QED
        BY <4>2, <4>3, <4>4 DEF StartInv, Over
    <3> QED
      BY <3>1, <3>2
  <2>3. CASE launch' = NoLaunch
    BY <2>3 DEF StartInv, NoLaunch
  <2> QED
    BY <2>1, <2>2, <2>3 DEF LaunchNext, CommitAndLaunchAsync, ElsewhereOrWaiting, launchVars
<1>5. ReturnedInv'
  <2>1. CASE CommitAndLaunchAsync
    <3>1. PICK i, id : /\ i = launch.slot /\ id = launch.id
                       /\ returned' = [acquired |-> id, got |-> slots[i].id]
      BY <2>1 DEF CommitAndLaunchAsync
    <3>2. slots[i].id # id => Over(id)
      BY <2>1, <3>1 DEF CommitAndLaunchAsync, LAll, LaunchInv, StartInv
    <3>3. slots[i].id # id => Over(id)'
      BY <1>0, <3>2, OverKept
    <3> QED
      BY <3>1, <3>3 DEF ReturnedInv, Over
  <2>2. CASE returned' = returned
    <3>1. PICK id : id = returned.acquired
      OBVIOUS
    <3>2. Over(id) => Over(id)'
      BY <1>0, OverKept
    <3> QED
      BY <2>2, <3>1, <3>2 DEF LAll, LaunchInv, ReturnedInv, Over
  <2> QED
    BY <2>1, <2>2 DEF LaunchNext, Launch, ElsewhereOrWaiting, launchVars
<1>6. WaitInv'
  BY <1>2, <1>3 DEF WaitInv, Over
<1> QED
  BY <1>0, <1>4, <1>5, <1>6 DEF LAll, LaunchInv

(* The id that an asynchronous start returns is the one of its coroutine,    *)
(* unless the coroutine is over and nothing of it is due.                     *)
THEOREM IdOfOwnCoroutine == ~HandlerStartsTasks => (LaunchSpec => []IdWhileKept)
<1> SUFFICES ASSUME ~HandlerStartsTasks PROVE LaunchSpec => []IdWhileKept
  OBVIOUS
<1>1. LAll => IdWhileKept
  BY DEF LAll, LaunchInv, ReturnedInv, Over, IdWhileKept
<1>2. LAll /\ [LaunchNext]_launchVars => LAll'
  BY LaunchNextInv
<1> QED
  BY <1>1, <1>2, LaunchInitial, PTL DEF LaunchSpec

(* When KitsuneWait returns, all coroutines from before the call have ended   *)
(* and their outcomes were taken or given up.                                *)
THEOREM WaitIsThorough == ~HandlerStartsTasks => (LaunchSpec => []WaitedForAll)
<1> SUFFICES ASSUME ~HandlerStartsTasks PROVE LaunchSpec => []WaitedForAll
  OBVIOUS
<1>1. LAll => WaitedForAll
  BY DEF LAll, LaunchInv, WaitInv, Over, WaitedForAll
<1>2. LAll /\ [LaunchNext]_launchVars => LAll'
  BY LaunchNextInv
<1> QED
  BY <1>1, <1>2, LaunchInitial, PTL DEF LaunchSpec

(* Neither composition adds a step to the slots: a step of the calling thread *)
(* is one of the slots or leaves them alone, so that whatever is proved of    *)
(* the slots holds in both.                                                   *)
THEOREM CompositionsKeepSlots == (LaunchSpec => Spec) /\ (WaitSpec => Spec)
<1>1. [WaitNext]_waitVars => [Next]_vars
  BY DEF WaitNext, EngineStep, BeginWait, LookAtSlots, FallAsleep, ReturnFromWait, waitVars
<1>2. Launch => Next
  BY DEF Launch, Next, Host
<1>3. [LaunchNext]_launchVars => [Next]_vars
  BY <1>1, <1>2 DEF LaunchNext, CommitAndLaunchAsync, ElsewhereOrWaiting, launchVars, waitVars
<1>4. WaitInit => Init
  BY DEF WaitInit
<1>5. LaunchInit => Init
  BY <1>4 DEF LaunchInit
<1> QED
  BY <1>1, <1>3, <1>4, <1>5, PTL DEF LaunchSpec, WaitSpec, Spec

==============================================================================
