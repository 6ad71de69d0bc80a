------------------------------ MODULE Coroutines ------------------------------
(***************************************************************************)
(* The coroutine slots of KitsuneEngine.cpp: how they are acquired, run by  *)
(* the scheduler, put to sleep, paused, made to wait, cancelled, finished,  *)
(* collected and freed.                                                    *)
(*                                                                         *)
(* Host threads reach the slots in two ways.  Operations on the Lua state   *)
(* happen while the scheduler is parked (LuaAccess), so they interleave     *)
(* with it only at its pause points.  KitsuneCancel, KitsuneGetResult,      *)
(* KitsuneReleaseResult and KitsuneInterrupt take slotsLock or no lock at    *)
(* all, and the scheduler writes slot->state without slotsLock: they may    *)
(* fall between any two of its steps.                                       *)
(***************************************************************************)
EXTENDS Naturals, FiniteSets

CONSTANTS
  MaxSlots,            (* KITSUNE_MAX_COROUTINES *)
  MaxId,               (* bound: the last id handed out *)
  MaxRefs,             (* bound: Task handles of Lua code per slot *)
  HandlerStartsTasks   (* TRUE: error handlers call Tasks.New *)

ASSUME BoundAssumption ==
  MaxSlots \in Nat \ {0} /\ MaxId \in Nat /\ MaxRefs \in Nat \ {0}
ASSUME HandlerAssumption == HandlerStartsTasks \in BOOLEAN

VARIABLES
  slots,      (* slots[i]: the fields of KitsuneCoroutine that decide its life *)
  nextId,
  interrupt,
  pc,         (* where the scheduler is in its pass *)
  cur,        (* the index of the slot the pass is at *)
  cancel,     (* the KitsuneCancel in progress: its slot and how far it is *)
  (* history *)
  runId,      (* the id of the slot that the pass resumed, until it leaves it *)
  fate        (* what became of each id *)

history == <<runId, fate>>
vars == <<slots, nextId, interrupt, pc, cur, cancel, history>>

Slot == 1..MaxSlots
Id == 1..MaxId
States == {"NOT_USED", "WORKING", "DONE", "RELEASED", "ABORTED", "SLEEPING",
           "PAUSED", "WAITING"}
Outcomes == {"none", "value", "error"}
(* live: it has not ended.  ended: it returned or failed by itself, and its  *)
(* outcome is still due.  taken: its value was handed over.  settled: its    *)
(* outcome was given up, or it was cancelled or interrupted.  gone: taken or *)
(* settled, and its slot was freed.                                          *)
Fates == {"new", "live", "ended", "taken", "settled", "gone"}

(* outcome: error if there is one, else result.  continuation: suspended in  *)
(* Sleep, so SleepContinuation runs first.  timed: Wait was given a timeout. *)
(* waitingForId and timed are read only while WAITING, and reset on leaving. *)
Coroutine ==
  [id : 0..MaxId, state : States, isInline : BOOLEAN, fireAndForget : BOOLEAN,
   apiOwned : BOOLEAN, luaRefCount : 0..MaxRefs, outcome : Outcomes,
   waitingForId : 0..MaxId, timed : BOOLEAN, continuation : BOOLEAN]

(* new (slot) KitsuneCoroutine() *)
Zeroed ==
  [id |-> 0, state |-> "NOT_USED", isInline |-> FALSE, fireAndForget |-> FALSE,
   apiOwned |-> FALSE, luaRefCount |-> 0, outcome |-> "none",
   waitingForId |-> 0, timed |-> FALSE, continuation |-> FALSE]

Labels == {"top", "interrupt", "visit", "continue", "run", "handler", "release",
           "clear", "sweep"}

TypeOK ==
  /\ slots \in [Slot -> Coroutine]
  /\ nextId \in 0..MaxId
  /\ interrupt \in BOOLEAN
  /\ pc \in Labels
  /\ cur \in 1..MaxSlots + 1
  /\ cancel \in [at : {"none", "loaded", "marked"}, slot : Slot]
  /\ runId \in 0..MaxId
  /\ fate \in [Id -> Fates]

Init ==
  /\ slots = [i \in Slot |-> Zeroed]
  /\ nextId = 0
  /\ interrupt = FALSE
  /\ pc = "top" /\ cur = 1
  /\ cancel = [at |-> "none", slot |-> 1]
  /\ runId = 0
  /\ fate = [id \in Id |-> "new"]

Used(i) == slots[i].id # 0
Finished(i) == slots[i].state \in {"DONE", "RELEASED"}
SlotsLockFree == cancel.at = "none"

(* Cancelled, interrupted or given up: there is no outcome to wait for. A    *)
(* value that was handed over stays so. *)
Settle(i) == fate' = [fate EXCEPT ![slots[i].id] = IF @ = "taken" THEN @ ELSE "settled"]
StopWaiting(i, state) ==
  [slots[i] EXCEPT !.state = state, !.waitingForId = 0, !.timed = FALSE]
RunningCount == Cardinality({i \in Slot : Used(i)})

(* Lua code runs, or may run, on behalf of: a coroutine of the scheduler, a  *)
(* host thread at a pause point, an error handler. *)
AtPausePoint == pc \in {"top", "visit", "run"}
LuaRuns == AtPausePoint \/ pc = "handler"

------------------------------------------------------------------------------
(* Acquiring and freeing. *)

(* What freeing the slots S does to the fates: a coroutine that is live, or  *)
(* whose outcome is due, has no right to go.                                 *)
Gone(S) == [id \in Id |->
  IF fate[id] \in {"taken", "settled"} /\ \E i \in S : slots[i].id = id
  THEN "gone" ELSE fate[id]]

First(S) == {i \in S : \A j \in S : i <= j}

(* Mutant: at capacity the slot of a paused coroutine is reclaimed too *)
Acquirable_PausedToo ==
  LET unused == {i \in Slot : ~Used(i)}
  IN IF unused # {} THEN First(unused)
     ELSE First({i \in Slot : slots[i].state \in {"RELEASED", "PAUSED"}})

(* The slot AcquireSlot takes: the first unused one; at capacity the first   *)
(* one that is RELEASED *)
Acquirable == LET unused == {i \in Slot : ~Used(i)}
              IN IF unused # {} THEN First(unused)
                 ELSE First({i \in Slot : slots[i].state = "RELEASED"})

(* fields: what the caller of AcquireSlot sets before it gives up Lua access *)
AcquireSlot(i, fields, newFate) ==
  /\ SlotsLockFree
  /\ i \in Acquirable
  /\ nextId < MaxId
  /\ nextId' = nextId + 1
  /\ slots' = [slots EXCEPT ![i] = [fields EXCEPT !.id = nextId + 1]]
  /\ fate' = [Gone({i}) EXCEPT ![nextId + 1] = newFate]

Working == [Zeroed EXCEPT !.state = "WORKING"]

(* KitsuneExecute...Async.  A script that does not load, or a function that  *)
(* is not found, leaves the slot failed (FailAsyncSlot).  Until then it is    *)
(* WORKING, but the caller has Lua access and has told nobody the id: only   *)
(* KitsuneWait looks at such a slot.  The stores are one step here. *)
StartCoroutine(i, forget) ==
  /\ AtPausePoint
  /\ \/ AcquireSlot(i, [Working EXCEPT !.apiOwned = TRUE, !.fireAndForget = forget],
                     "live")
     \/ AcquireSlot(i, [Zeroed EXCEPT !.apiOwned = TRUE, !.fireAndForget = forget,
                          !.outcome = "error",
                          !.state = IF forget THEN "RELEASED" ELSE "DONE"],
                     IF forget THEN "settled" ELSE "ended")
  /\ UNCHANGED <<interrupt, pc, cur, cancel, runId>>

(* Tasks.New *)
TasksNew(i) ==
  /\ LuaRuns
  /\ pc = "handler" => HandlerStartsTasks
  /\ AcquireSlot(i, [Working EXCEPT !.luaRefCount = 1], "live")
  /\ UNCHANGED <<interrupt, pc, cur, cancel, runId>>

(* A synchronous KitsuneExecute: the calling thread runs the slot; between two of its     *)
(* lua_resume calls the scheduler goes on *)
InlineStart(i) ==
  /\ AtPausePoint
  /\ AcquireSlot(i, [Working EXCEPT !.isInline = TRUE], "live")
  /\ UNCHANGED <<interrupt, pc, cur, cancel, runId>>

(* The script ended or was found ABORTED; CleanupInlineSlot frees the slot *)
InlineEnd(i) ==
  /\ AtPausePoint
  /\ SlotsLockFree
  /\ slots[i].isInline
  /\ slots' = [slots EXCEPT ![i] = Zeroed]
  /\ fate' = [fate EXCEPT ![slots[i].id] = "gone"]
  /\ UNCHANGED <<nextId, interrupt, pc, cur, cancel, runId>>

------------------------------------------------------------------------------
(* The scheduler: one pass over the slots, then steps 3 and 4. *)

NextSlot == pc' = "visit" /\ cur' = cur + 1 /\ runId' = 0

BeginPass ==
  /\ pc = "top"
  /\ pc' = IF interrupt THEN "interrupt" ELSE "visit"
  /\ UNCHANGED <<slots, nextId, interrupt, cur, cancel, history>>

EndPass ==
  /\ pc \in {"visit", "interrupt"}
  /\ cur = MaxSlots + 1
  /\ pc' = "clear" /\ cur' = 1
  /\ UNCHANGED <<slots, nextId, interrupt, cancel, history>>

(* Step 2 when interrupted: every coroutine that is not done is released *)
InterruptSlot ==
  /\ pc = "interrupt" /\ cur \in Slot
  /\ IF Used(cur) /\ ~Finished(cur) /\ ~slots[cur].isInline
     THEN /\ slots' = [slots EXCEPT ![cur] =
                         [StopWaiting(cur, "RELEASED") EXCEPT !.outcome = "error"]]
          /\ Settle(cur)
     ELSE UNCHANGED <<slots, fate>>
  /\ cur' = cur + 1
  /\ UNCHANGED <<nextId, interrupt, pc, cancel, runId>>

(* Mutant: a target whose slot was freed does not count as done *)
TargetDone_StillThere(i) ==
  \E t \in Slot : slots[t].id = slots[i].waitingForId /\ Finished(t)

(* The target of Wait is gone or done *)
TargetDone(i) ==
  \A t \in Slot : slots[t].id = slots[i].waitingForId => Finished(t)

(* SLEEPING: the deadline passed or the token died, at any time.  WAITING:   *)
(* the target is done, or the timeout passed. *)
MayWake(i) == \/ slots[i].state = "SLEEPING"
              \/ slots[i].state = "WAITING" /\ (TargetDone(i) \/ slots[i].timed)
MaySleepOn(i) == \/ slots[i].state = "SLEEPING"
                 \/ slots[i].state = "WAITING" /\ ~TargetDone(i)

VisitSkip ==
  /\ pc = "visit" /\ cur \in Slot
  /\ \/ ~Used(cur) \/ slots[cur].isInline
     \/ slots[cur].state \in {"DONE", "RELEASED", "PAUSED"}
     \/ MaySleepOn(cur)
  /\ NextSlot
  /\ UNCHANGED <<slots, nextId, interrupt, cancel, fate>>

(* Mutant: a cancelled coroutine is left for somebody to collect *)
VisitAborted_Done ==
  /\ pc = "visit" /\ cur \in Slot
  /\ slots[cur].state = "ABORTED" /\ ~slots[cur].isInline
  /\ slots' = [slots EXCEPT ![cur].outcome = "error", ![cur].state = "DONE"]
  /\ NextSlot
  /\ UNCHANGED <<nextId, interrupt, cancel, fate>>

VisitAborted ==
  /\ pc = "visit" /\ cur \in Slot
  /\ slots[cur].state = "ABORTED" /\ ~slots[cur].isInline
  /\ slots' = [slots EXCEPT ![cur].outcome = "error", ![cur].state = "RELEASED"]
  /\ NextSlot
  /\ UNCHANGED <<nextId, interrupt, cancel, fate>>

(* lua_resume *)
VisitResume ==
  /\ pc = "visit" /\ cur \in Slot
  /\ ~slots[cur].isInline
  /\ slots[cur].state = "WORKING" \/ MayWake(cur)
  /\ slots' = [slots EXCEPT ![cur] = StopWaiting(cur, "WORKING")]
  /\ runId' = slots[cur].id
  /\ pc' = IF slots[cur].continuation THEN "continue" ELSE "run"
  /\ UNCHANGED <<nextId, interrupt, cur, cancel, fate>>

(* SleepContinuation stores WORKING whatever the state is *)
SleepContinuation ==
  /\ pc = "continue"
  /\ slots' = [slots EXCEPT ![cur].state = "WORKING", ![cur].continuation = FALSE]
  /\ pc' = "run"
  /\ UNCHANGED <<nextId, interrupt, cur, cancel, history>>

(* FinishCoroutine up to the store of DONE; a handler is called for an error *)
FinishCoroutine(outcome) ==
  /\ slots' = [slots EXCEPT ![cur].outcome = outcome, ![cur].state = "DONE"]
  /\ fate' = [fate EXCEPT ![runId] = IF @ = "live" THEN "ended" ELSE @]
  /\ \/ outcome = "error" /\ pc' = "handler"
     \/ pc' = "release"
  /\ UNCHANGED <<nextId, interrupt, cur, cancel, runId>>

HandlerReturns ==
  /\ pc = "handler"
  /\ pc' = "release"
  /\ UNCHANGED <<slots, nextId, interrupt, cur, cancel, history>>

(* Mutant: every coroutine that ends is released *)
ReleaseIfForgotten_Always ==
  /\ pc = "release"
  /\ slots' = [slots EXCEPT ![cur].state = "RELEASED"]
  /\ fate' = [fate EXCEPT ![runId] = IF slots[cur].fireAndForget /\ @ # "taken"
                                     THEN "settled" ELSE @]
  /\ NextSlot
  /\ UNCHANGED <<nextId, interrupt, cancel>>

(* if (slot->fireAndForget) slot->state = RELEASED, the end of FinishCoroutine *)
ReleaseIfForgotten ==
  /\ pc = "release"
  /\ IF slots[cur].fireAndForget
     THEN /\ slots' = [slots EXCEPT ![cur].state = "RELEASED"]
          /\ fate' = [fate EXCEPT ![runId] = IF @ = "taken" THEN @ ELSE "settled"]
     ELSE UNCHANGED <<slots, fate>>
  /\ NextSlot
  /\ UNCHANGED <<nextId, interrupt, cancel>>

(* Step 3 *)
ClearInterrupt ==
  /\ pc = "clear"
  /\ interrupt' = (interrupt /\ RunningCount # 0)
  /\ pc' = "sweep"
  /\ UNCHANGED <<slots, nextId, cur, cancel, history>>

(* Mutant: a slot that a handle refers to is not freed *)
Sweep_Unreferenced ==
  /\ pc = "sweep"
  /\ SlotsLockFree
  /\ LET released == {i \in Slot : slots[i].state = "RELEASED" /\ slots[i].luaRefCount = 0}
     IN /\ slots' = [i \in Slot |-> IF i \in released THEN Zeroed ELSE slots[i]]
        /\ fate' = Gone(released)
  /\ pc' = "top"
  /\ UNCHANGED <<nextId, interrupt, cur, cancel, runId>>

(* Step 4; FreeSlot *)
Sweep ==
  /\ pc = "sweep"
  /\ SlotsLockFree
  /\ LET released == {i \in Slot : slots[i].state = "RELEASED"}
     IN /\ slots' = [i \in Slot |-> IF i \in released THEN Zeroed ELSE slots[i]]
        /\ fate' = Gone(released)
  /\ pc' = "top"
  /\ UNCHANGED <<nextId, interrupt, cur, cancel, runId>>

Scheduler == \/ BeginPass \/ EndPass \/ InterruptSlot \/ VisitSkip \/ VisitAborted
             \/ VisitResume \/ SleepContinuation \/ HandlerReturns
             \/ ReleaseIfForgotten \/ ClearInterrupt \/ Sweep

------------------------------------------------------------------------------
(* The coroutine that runs. *)

Aborted(i) == slots[i].state = "ABORTED"

(* Yield(), and the Ticker when another slot is in use *)
Yield ==
  /\ pc = "run"
  /\ NextSlot
  /\ UNCHANGED <<slots, nextId, interrupt, cancel, fate>>

(* Sleep(ms), Sleep(token): the compare_exchange keeps an ABORTED that came  *)
(* in.  Sleep(0) has nothing to wait for and stays WORKING.                  *)
Sleep ==
  /\ pc = "run"
  /\ \E state \in {"WORKING", "SLEEPING"} :
       slots' = [slots EXCEPT ![cur].state = IF Aborted(cur) THEN @ ELSE state,
                              ![cur].continuation = TRUE]
  /\ NextSlot
  /\ UNCHANGED <<nextId, interrupt, cancel, fate>>

Pause ==
  /\ pc = "run"
  /\ SlotsLockFree
  /\ slots' = [slots EXCEPT ![cur].state = IF Aborted(cur) THEN @ ELSE "PAUSED"]
  /\ NextSlot
  /\ UNCHANGED <<nextId, interrupt, cancel, fate>>

(* task:Wait(timeout); a finished target returns at once *)
Wait(target, timeout) ==
  /\ pc = "run"
  /\ SlotsLockFree
  /\ Used(target) /\ ~Finished(target)
  /\ slots' = IF Aborted(cur) THEN slots
              ELSE [slots EXCEPT ![cur].waitingForId = slots[target].id,
                                 ![cur].timed = timeout, ![cur].state = "WAITING"]
  /\ NextSlot
  /\ UNCHANGED <<nextId, interrupt, cancel, fate>>

(* The function returns or raises an error *)
Return == pc = "run" /\ \E e \in {"value", "error"} : FinishCoroutine(e)

(* The Ticker raises "interrupted" or "cancelled" *)
TickerRaises ==
  /\ pc = "run"
  /\ interrupt \/ Aborted(cur)
  /\ FinishCoroutine("error")

------------------------------------------------------------------------------
(* Lua code that holds a handle of a task. *)

(* Tasks.Open(id) *)
TaskOpen(i) ==
  /\ LuaRuns /\ SlotsLockFree
  /\ Used(i) /\ slots[i].state # "RELEASED"
  /\ slots[i].luaRefCount < MaxRefs
  /\ slots' = [slots EXCEPT ![i].luaRefCount = @ + 1, ![i].fireAndForget = FALSE]
  /\ UNCHANGED <<nextId, interrupt, pc, cur, cancel, history>>

(* Mutant: Dispose does not clear the id of the handle, and __gc follows it *)
TaskDispose_Twice(i) ==
  /\ LuaRuns /\ SlotsLockFree
  /\ Used(i) /\ ~slots[i].apiOwned
  /\ slots' = [slots EXCEPT ![i].luaRefCount = @ - 1]
  /\ UNCHANGED <<nextId, interrupt, pc, cur, cancel, history>>

(* task:Dispose(), also its __gc; the handle of an API slot does not count *)
TaskDispose(i) ==
  /\ LuaRuns /\ SlotsLockFree
  /\ Used(i) /\ slots[i].luaRefCount > 0 /\ ~slots[i].apiOwned
  /\ IF slots[i].luaRefCount > 1
     THEN /\ slots' = [slots EXCEPT ![i].luaRefCount = @ - 1]
          /\ UNCHANGED fate
     ELSE LET to == IF Finished(i) THEN "RELEASED"
                    ELSE IF slots[i].state = "PAUSED" THEN "ABORTED"
                    ELSE slots[i].state
          IN /\ slots' = [slots EXCEPT ![i].luaRefCount = 0, ![i].state = to,
                             ![i].fireAndForget = @ \/ to \notin {"RELEASED", "ABORTED"}
                                                    \/ slots[i].state = "ABORTED"]
             /\ IF to = slots[i].state THEN UNCHANGED fate ELSE Settle(i)
  /\ UNCHANGED <<nextId, interrupt, pc, cur, cancel, runId>>

(* task:Cancel() *)
TaskCancel(i) ==
  /\ LuaRuns /\ SlotsLockFree
  /\ Used(i) /\ slots[i].luaRefCount > 0 /\ ~Finished(i)
  /\ slots' = [slots EXCEPT ![i] = StopWaiting(i, "ABORTED")]
  /\ Settle(i)
  /\ UNCHANGED <<nextId, interrupt, pc, cur, cancel, runId>>

(* Mutant: the value is copied, as KitsuneGetResult did not zero the slot's *)
Take_Copied(i) ==
  /\ slots' = [slots EXCEPT ![i].state = "RELEASED"]
  /\ IF slots[i].outcome = "value"
     THEN fate' = [fate EXCEPT ![slots[i].id] = "taken"]
     ELSE Settle(i)
  /\ UNCHANGED <<nextId, interrupt, pc, cur, cancel, runId>>

(* A value is moved out of the slot; an error is copied *)
Take(i) ==
  /\ slots' = [slots EXCEPT ![i].state = "RELEASED",
                            ![i].outcome = IF @ = "value" THEN "none" ELSE @]
  /\ IF slots[i].outcome = "value"
     THEN fate' = [fate EXCEPT ![slots[i].id] = "taken"]
     ELSE Settle(i)
  /\ UNCHANGED <<nextId, interrupt, pc, cur, cancel, runId>>

(* task:ConsumeResult() *)
TaskConsumeResult(i) ==
  /\ LuaRuns /\ SlotsLockFree
  /\ Used(i) /\ slots[i].luaRefCount > 0 /\ Finished(i)
  /\ Take(i)

(* task:Resume(value) and KitsuneResume *)
Resume(i) ==
  /\ LuaRuns /\ SlotsLockFree
  /\ slots[i].state \in {"PAUSED", "SLEEPING", "WAITING"}
  /\ slots' = [slots EXCEPT ![i] = StopWaiting(i, "WORKING")]
  /\ UNCHANGED <<nextId, interrupt, pc, cur, cancel, history>>

------------------------------------------------------------------------------
(* Host threads, without Lua access. *)

GetResult(i) ==
  /\ SlotsLockFree
  /\ Used(i) /\ Finished(i)
  /\ Take(i)

(* Mutant: ReleaseResult does not look at the state *)
ReleaseResult_Unchecked(i) ==
  /\ SlotsLockFree
  /\ Used(i)
  /\ slots' = [slots EXCEPT ![i].state = "RELEASED"]
  /\ Settle(i)
  /\ UNCHANGED <<nextId, interrupt, pc, cur, cancel, runId>>

ReleaseResult(i) ==
  /\ SlotsLockFree
  /\ Used(i) /\ slots[i].state = "DONE"
  /\ slots' = [slots EXCEPT ![i].state = "RELEASED"]
  /\ Settle(i)
  /\ UNCHANGED <<nextId, interrupt, pc, cur, cancel, runId>>

(* KitsuneCancel(id) holds slotsLock from its load of the state to its last  *)
(* store; the scheduler does not take slotsLock to store a state. *)
Cancel(i) ==
  /\ SlotsLockFree
  /\ Used(i) /\ slots[i].state # "RELEASED"
  /\ IF slots[i].state = "DONE"
     THEN /\ slots' = [slots EXCEPT ![i].state = "RELEASED"]
          /\ UNCHANGED cancel
     ELSE /\ cancel' = [at |-> "loaded", slot |-> i]
          /\ UNCHANGED slots
  /\ Settle(i)
  /\ UNCHANGED <<nextId, interrupt, pc, cur, runId>>

CancelMark ==
  /\ cancel.at = "loaded"
  /\ slots' = [slots EXCEPT ![cancel.slot].fireAndForget = TRUE]
  /\ cancel' = [cancel EXCEPT !.at = "marked"]
  /\ UNCHANGED <<nextId, interrupt, pc, cur, history>>

CancelStore ==
  /\ cancel.at = "marked"
  /\ slots' = [slots EXCEPT ![cancel.slot] = StopWaiting(cancel.slot, "ABORTED")]
  /\ cancel' = [at |-> "none", slot |-> 1]
  /\ UNCHANGED <<nextId, interrupt, pc, cur, history>>

KitsuneInterrupt ==
  /\ interrupt' = TRUE
  /\ UNCHANGED <<slots, nextId, pc, cur, cancel, history>>

------------------------------------------------------------------------------

Running == Yield \/ Sleep \/ Pause \/ Return \/ TickerRaises
           \/ \E t \in Slot, timeout \in BOOLEAN : Wait(t, timeout)
LuaCode(i) == TasksNew(i) \/ TaskOpen(i) \/ TaskDispose(i) \/ TaskCancel(i)
              \/ TaskConsumeResult(i) \/ Resume(i)
Host(i) == \/ \E f \in BOOLEAN : StartCoroutine(i, f)
           \/ InlineStart(i) \/ InlineEnd(i)
           \/ GetResult(i) \/ ReleaseResult(i) \/ Cancel(i)

Next == \/ Scheduler \/ Running
        \/ \E i \in Slot : LuaCode(i) \/ Host(i)
        \/ CancelMark \/ CancelStore \/ KitsuneInterrupt

Spec == Init /\ [][Next]_vars

(* The scheduler thread goes on.  A coroutine that does not give up control  *)
(* is preempted by the Ticker while another slot is in use.  A host thread   *)
(* that has slotsLock goes on, and no host calls KitsuneCancel for ever: a   *)
(* KitsuneCancel that comes at the right moment of every pass turns RELEASED *)
(* into ABORTED each time.                                                   *)
CancelsStop == <>[][\A i \in Slot : ~Cancel(i)]_vars

SchedulerFairness ==
  /\ CancelsStop
  /\ WF_vars(Scheduler)
  /\ WF_vars(Yield /\ RunningCount > 1)
  /\ WF_vars(CancelMark \/ CancelStore)

------------------------------------------------------------------------------
(* Properties. *)

(* The slot the scheduler works on is not freed or given to another coroutine *)
(* under it, and a coroutine runs only while it is WORKING or has just been   *)
(* cancelled: whatever other threads do to sleeping, paused, waiting and done *)
(* coroutines, none of them is resumed.                                       *)
RunningSlotKept ==
  pc \in {"continue", "run", "handler", "release"} =>
    /\ slots[cur].id = runId
    /\ pc \in {"continue", "run"} =>
         slots[cur].state \in {"WORKING", "ABORTED"} /\ ~slots[cur].isInline

(* A coroutine loses its slot only after it ended, was cancelled or was      *)
(* interrupted: none is dropped before it has run to its end.                *)
NoCoroutineLost ==
  \A id \in Id :
    fate[id] = "live" => \E i \in Slot : slots[i].id = id /\ slots[i].state # "RELEASED"

(* The outcome of a coroutine that ended stays in its slot until somebody    *)
(* takes it or gives it up.                                                  *)
OutcomeKept ==
  \A id \in Id :
    fate[id] = "ended" =>
      \E i \in Slot : /\ slots[i].id = id /\ slots[i].state = "DONE"
                      /\ slots[i].outcome # "none"

(* The value a coroutine returned is handed over once, be it to a host       *)
(* thread by KitsuneGetResult or to Lua by ConsumeResult: the references it  *)
(* is made of have one owner.                                                *)
DeliveredOnce ==
  \A i \in Slot : slots[i].outcome = "value" => fate[slots[i].id] # "taken"

Holds(id, S) == \E i \in Slot : slots[i].id = id /\ slots[i].state \in S

(* A RELEASED slot is freed: KitsuneWait and new coroutines can count on it. *)
ReleasedIsFreed ==
  \A id \in Id : Holds(id, {"RELEASED"}) ~> ~Holds(id, States)

(* A coroutine that is cancelled while it does not run is gone some time     *)
(* later. *)
CancelledIsFreed ==
  \A id \in Id :
    (/\ \E i \in Slot : slots[i].id = id /\ Aborted(i) /\ ~slots[i].isInline
     /\ ~(pc \in {"continue", "run"} /\ runId = id)) ~> ~Holds(id, States)

(* Wait wakes up: a coroutine does not go on waiting for a task that is done *)
(* or gone. *)
WaiterWakes ==
  \A id \in Id :
    (\E i \in Slot : /\ slots[i].id = id /\ slots[i].state = "WAITING"
                     /\ ~Holds(slots[i].waitingForId, States \ {"DONE", "RELEASED"}))
      ~> ~Holds(id, {"WAITING"})
==============================================================================
