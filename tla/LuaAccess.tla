------------------------------ MODULE LuaAccess ------------------------------
(***************************************************************************)
(* The handshake by which host threads borrow the Lua state from the       *)
(* scheduler thread of KitsuneEngine.cpp, and KitsuneCleanup, which ends    *)
(* it.  A host thread locks accessLock, raises pauseFlag and waits for      *)
(* pausedEvent; the scheduler serves the request at three places: at the    *)
(* top of its loop, before each slot of a pass, and in the Ticker, the      *)
(* instruction-count hook that runs inside lua_resume.  It then waits for   *)
(* resumeEvent.  Both events are auto-reset.                                *)
(*                                                                         *)
(* workEvent is left out: SchedulerProc waits for it for at most 10 ms, so *)
(* it shortens a wait and decides nothing.                                 *)
(***************************************************************************)
EXTENDS Naturals

CONSTANTS
  Callers,         (* host threads that call the API *)
  Nobody,          (* accessLock is free *)
  SchedulerThread, (* the engine's own thread *)
  CleanupThread    (* the host thread that calls KitsuneCleanup *)

ASSUME ThreadAssumption ==
  /\ Nobody \notin Callers
  /\ CleanupThread \notin Callers \union {Nobody}
  /\ SchedulerThread \notin Callers \union {Nobody, CleanupThread}

VARIABLES
  accessLock,     (* owner of the mutex, or Nobody *)
  pauseFlag, pausedEvent, resumeEvent,
  interrupt,      (* raised by KitsuneInterrupt and KitsuneCleanup *)
  slotsInUse,     (* some slot holds a coroutine of the scheduler *)
  schedulerStop, schedulerDone,
  gState,         (* TRUE while g_state points at the engine *)
  sched,          (* where the scheduler thread is in SchedulerProc *)
  site,           (* which of the three pause points it is at, or was last *)
  caller,         (* where each host thread is in Acquire/ReleaseLuaAccess *)
  call,           (* the API call a host thread is in *)
  cleaner         (* where the cleanup thread is in KitsuneCleanup *)

events == <<pauseFlag, pausedEvent, resumeEvent>>
shutdown == <<schedulerStop, schedulerDone, gState, cleaner>>
schedVars == <<sched, site, slotsInUse>>
callerVars == <<accessLock, caller, call>>
vars == <<events, shutdown, schedVars, callerVars, interrupt>>

SchedLabels == {"loop", "test", "set", "wait", "stopq", "pass", "visit",
                "run", "raise", "finish", "sweep", "idle", "exit", "done"}
Sites == {"top", "slot", "tick"}
CallerLabels == {"out", "lock", "flag", "stopq", "wait", "in", "hook",
                 "clear", "resume", "unlock"}
(* A bridge call uses the Lua state once; an inline call, which runs a       *)
(* script, gives the state back each time the script yields.                *)
Calls == {"none", "bridge", "inline", "yielding"}
CleanerLabels == {"off", "interrupt", "stop", "resume", "await", "lock",
                  "unlock", "close", "closed"}

Ranges ==
  /\ accessLock \in Callers \union {Nobody, CleanupThread}
  /\ pauseFlag \in BOOLEAN /\ pausedEvent \in BOOLEAN /\ resumeEvent \in BOOLEAN
  /\ interrupt \in BOOLEAN /\ slotsInUse \in BOOLEAN
  /\ schedulerStop \in BOOLEAN /\ schedulerDone \in BOOLEAN /\ gState \in BOOLEAN
  /\ sched \in SchedLabels /\ site \in Sites
  /\ caller \in [Callers -> CallerLabels]
  /\ call \in [Callers -> Calls]
  /\ cleaner \in CleanerLabels

(* A thread owns accessLock from Lock to Unlock, in the yield windows of an  *)
(* inline call nobody does, and the scheduler never.                         *)
OwnsLock ==
  /\ \A c \in Callers : accessLock = c <=> caller[c] \notin {"out", "lock"}
  /\ accessLock = CleanupThread <=> cleaner = "unlock"

TypeOK == Ranges /\ OwnsLock

Init ==
  /\ accessLock = Nobody
  /\ pauseFlag = FALSE /\ pausedEvent = FALSE /\ resumeEvent = FALSE
  /\ interrupt = FALSE /\ slotsInUse = FALSE
  /\ schedulerStop = FALSE /\ schedulerDone = FALSE /\ gState = TRUE
  /\ sched = "loop" /\ site = "top"
  /\ caller = [c \in Callers |-> "out"]
  /\ call = [c \in Callers |-> "none"]
  /\ cleaner = "off"

------------------------------------------------------------------------------
(* The scheduler thread. *)

SchedUnchanged == UNCHANGED <<shutdown, callerVars, slotsInUse>>

(* while (!schedulerStop), and after the last pass schedulerDoneEvent.Set() *)
Loop ==
  /\ sched = "loop"
  /\ IF schedulerStop THEN sched' = "exit" /\ UNCHANGED site
                      ELSE sched' = "test" /\ site' = "top"
  /\ SchedUnchanged /\ UNCHANGED <<events, interrupt>>

Exit ==
  /\ sched = "exit"
  /\ sched' = "done"
  /\ schedulerDone' = TRUE
  /\ UNCHANGED <<events, interrupt, site, slotsInUse, callerVars, schedulerStop,
                 gState, cleaner>>

(* Mutant: the Ticker does not look at pauseFlag *)
ParkTest_NotInTicker ==
  /\ sched = "test"
  /\ sched' = IF site = "tick" THEN "run" ELSE IF pauseFlag THEN "set" ELSE "stopq"
  /\ SchedUnchanged /\ UNCHANGED <<site, events, interrupt>>

(* while (pauseFlag), respectively if (pauseFlag) in the Ticker *)
ParkTest ==
  /\ sched = "test"
  /\ sched' = IF pauseFlag THEN "set" ELSE IF site = "tick" THEN "run" ELSE "stopq"
  /\ SchedUnchanged /\ UNCHANGED <<site, events, interrupt>>

ParkSet ==
  /\ sched = "set"
  /\ pausedEvent' = TRUE
  /\ sched' = "wait"
  /\ SchedUnchanged /\ UNCHANGED <<site, pauseFlag, resumeEvent, interrupt>>

(* Mutant: the Ticker tests pauseFlag again like the other pause points *)
ParkWake_TickRetests ==
  /\ sched = "wait"
  /\ resumeEvent
  /\ resumeEvent' = FALSE
  /\ sched' = "test"
  /\ SchedUnchanged /\ UNCHANGED <<site, pauseFlag, pausedEvent, interrupt>>

(* resumeEvent.Wait() returns.  The two pause points of SchedulerProc test   *)
(* pauseFlag again; the Ticker does not, and raises "interrupted" if need be. *)
ParkWake ==
  /\ sched = "wait"
  /\ resumeEvent
  /\ resumeEvent' = FALSE
  /\ sched' = IF site # "tick" THEN "test" ELSE IF interrupt THEN "raise" ELSE "run"
  /\ SchedUnchanged /\ UNCHANGED <<site, pauseFlag, pausedEvent, interrupt>>

(* if (schedulerStop) break; at the top of the loop the break leaves it, in  *)
(* the slot loop it goes on to steps 3 to 5 *)
StopTest ==
  /\ sched = "stopq"
  /\ sched' = IF schedulerStop
              THEN IF site = "top" THEN "exit" ELSE "sweep"
              ELSE IF site = "top" THEN "pass" ELSE "visit"
  /\ SchedUnchanged /\ UNCHANGED <<site, events, interrupt>>

NextSlot == \/ sched' = "test" /\ site' = "slot"
            \/ sched' = "sweep" /\ UNCHANGED site

(* Drain the deferred variables, then step 2 in one of its two forms *)
Pass ==
  /\ sched = "pass"
  /\ IF interrupt THEN sched' = "sweep" /\ UNCHANGED site ELSE NextSlot
  /\ SchedUnchanged /\ UNCHANGED <<events, interrupt>>

(* One slot: nothing to resume, or lua_resume *)
Visit ==
  /\ sched = "visit"
  /\ \/ NextSlot
     \/ slotsInUse /\ sched' = "run" /\ UNCHANGED site
  /\ SchedUnchanged /\ UNCHANGED <<events, interrupt>>

(* The coroutine yields, finishes, or reaches the Ticker *)
Run ==
  /\ sched = "run"
  /\ \/ NextSlot
     \/ sched' = "finish" /\ UNCHANGED site
     \/ IF interrupt THEN sched' = "raise" /\ UNCHANGED site
                     ELSE sched' = "test" /\ site' = "tick"
  /\ SchedUnchanged /\ UNCHANGED <<events, interrupt>>

(* luaL_error(L, "interrupted"); a script may catch it with pcall *)
Raise ==
  /\ sched = "raise"
  /\ sched' \in {"finish", "run"}
  /\ SchedUnchanged /\ UNCHANGED <<site, events, interrupt>>

Finish ==
  /\ sched = "finish"
  /\ NextSlot
  /\ SchedUnchanged /\ UNCHANGED <<events, interrupt>>

(* An inline call has a slot while its script is unfinished *)
InlineSlotInUse(c) == \/ call[c] = "yielding"
                      \/ call[c] = "inline" /\ caller[c] \in {"in", "hook"}

(* Step 3 clears interrupt if runningCount is 0, step 4 frees slots *)
Sweep ==
  /\ sched = "sweep"
  /\ sched' = "idle"
  /\ interrupt' = (interrupt /\ (slotsInUse \/ \E c \in Callers : InlineSlotInUse(c)))
  /\ slotsInUse' \in {slotsInUse, FALSE}
  /\ UNCHANGED <<shutdown, callerVars, site, events>>

(* Step 5 *)
Idle ==
  /\ sched = "idle"
  /\ sched' = "loop"
  /\ SchedUnchanged /\ UNCHANGED <<site, events, interrupt>>

Scheduler == \/ Loop \/ Exit \/ ParkTest \/ ParkSet \/ ParkWake \/ StopTest
             \/ Pass \/ Visit \/ Run \/ Raise \/ Finish \/ Sweep \/ Idle

------------------------------------------------------------------------------
(* A host thread c. *)

CallerUnchanged == UNCHANGED <<shutdown, schedVars, interrupt>>
LuaUnchanged == UNCHANGED <<shutdown, sched, site, interrupt>>

Step(c, from, to) == caller[c] = from /\ caller' = [caller EXCEPT ![c] = to]

(* An API function reads g_state and goes on to AcquireLuaAccess *)
Enter(c) ==
  /\ gState
  /\ Step(c, "out", "lock")
  /\ \E k \in {"bridge", "inline"} : call' = [call EXCEPT ![c] = k]
  /\ CallerUnchanged /\ UNCHANGED <<accessLock, events>>

Lock(c) ==
  /\ Step(c, "lock", "flag")
  /\ accessLock = Nobody
  /\ accessLock' = c
  /\ CallerUnchanged /\ UNCHANGED <<call, events>>

RaiseFlag(c) ==
  /\ Step(c, "flag", "stopq")
  /\ pauseFlag' = TRUE
  /\ CallerUnchanged /\ UNCHANGED <<accessLock, call, pausedEvent, resumeEvent>>

(* Mutant: no wait when nothing is running, the bug that the comment in      *)
(* AcquireLuaAccess warns of *)
SelfSignal_SkipWhenIdle(c) ==
  /\ Step(c, "stopq", IF slotsInUse THEN "wait" ELSE "in")
  /\ pausedEvent' = (pausedEvent \/ schedulerStop)
  /\ CallerUnchanged /\ UNCHANGED <<accessLock, call, pauseFlag, resumeEvent>>

(* if (schedulerStop) pausedEvent.Set() *)
SelfSignal(c) ==
  /\ Step(c, "stopq", "wait")
  /\ pausedEvent' = (pausedEvent \/ schedulerStop)
  /\ CallerUnchanged /\ UNCHANGED <<accessLock, call, pauseFlag, resumeEvent>>

(* Mutant: pausedEvent stays set, as a manual-reset event would *)
Granted_ManualReset(c) ==
  /\ Step(c, "wait", "in")
  /\ pausedEvent
  /\ call' = [call EXCEPT ![c] = IF @ = "yielding" THEN "inline" ELSE @]
  /\ CallerUnchanged /\ UNCHANGED <<accessLock, events>>

Granted(c) ==
  /\ Step(c, "wait", "in")
  /\ pausedEvent
  /\ pausedEvent' = FALSE
  /\ call' = [call EXCEPT ![c] = IF @ = "yielding" THEN "inline" ELSE @]
  /\ CallerUnchanged /\ UNCHANGED <<accessLock, pauseFlag, resumeEvent>>

(* The call is over: the bridge operation is done, or the inline script      *)
(* ended.  Either may have started a coroutine for the scheduler to run.     *)
Leave(c) ==
  /\ Step(c, "in", "clear")
  /\ slotsInUse' \in {slotsInUse, TRUE}
  /\ LuaUnchanged /\ UNCHANGED <<accessLock, call, events>>

(* The inline script yields: RunInline gives the Lua state back and sleeps *)
InlineYield(c) ==
  /\ call[c] = "inline"
  /\ Step(c, "in", "clear")
  /\ call' = [call EXCEPT ![c] = "yielding"]
  /\ slotsInUse' \in {slotsInUse, TRUE}
  /\ LuaUnchanged /\ UNCHANGED <<accessLock, events>>

(* The inline script reaches the Ticker *)
InlineTick(c) ==
  /\ call[c] = "inline"
  /\ Step(c, "in", "hook")
  /\ CallerUnchanged /\ UNCHANGED <<accessLock, call, events>>

(* thread_local g_inlineExecution, set around lua_resume in RunInline *)
InlineExecution(c) == call[c] = "inline"

(* if (interrupt && !g_inlineExecution) luaL_error(...); the pause request   *)
(* is the thread's own, and skipped for the same reason *)
InlineTickTest(c) ==
  /\ Step(c, "hook", IF interrupt /\ ~InlineExecution(c) THEN "clear" ELSE "in")
  /\ CallerUnchanged /\ UNCHANGED <<accessLock, call, events>>

(* ReleaseLuaAccess; pauseFlag is TRUE since the thread raised it *)
ClearFlag(c) ==
  /\ IF pauseFlag THEN Step(c, "clear", "resume") ELSE Step(c, "clear", "unlock")
  /\ pauseFlag' = FALSE
  /\ CallerUnchanged /\ UNCHANGED <<accessLock, call, pausedEvent, resumeEvent>>

SignalResume(c) ==
  /\ Step(c, "resume", "unlock")
  /\ resumeEvent' = TRUE
  /\ CallerUnchanged /\ UNCHANGED <<accessLock, call, pauseFlag, pausedEvent>>

(* Mutant: the yield window of an inline call only lets the scheduler go on  *)
Unlock_NotInWindow(c) ==
  /\ Step(c, "unlock", IF call[c] = "yielding" THEN "lock" ELSE "out")
  /\ accessLock' = IF call[c] = "yielding" THEN accessLock ELSE Nobody
  /\ call' = [call EXCEPT ![c] = IF @ = "yielding" THEN @ ELSE "none"]
  /\ CallerUnchanged /\ UNCHANGED events

(* After the yield window RunInline acquires the Lua state again *)
Unlock(c) ==
  /\ Step(c, "unlock", IF call[c] = "yielding" THEN "lock" ELSE "out")
  /\ accessLock' = Nobody
  /\ call' = [call EXCEPT ![c] = IF @ = "yielding" THEN @ ELSE "none"]
  /\ CallerUnchanged /\ UNCHANGED events

(* The steps of AcquireLuaAccess and ReleaseLuaAccess *)
Protocol(c) == \/ Lock(c) \/ RaiseFlag(c) \/ SelfSignal(c) \/ Granted(c)
               \/ ClearFlag(c) \/ SignalResume(c) \/ Unlock(c)

HostThread(c) == \/ Enter(c) \/ Protocol(c) \/ Leave(c) \/ InlineYield(c)
                 \/ InlineTick(c) \/ InlineTickTest(c)

------------------------------------------------------------------------------
(* KitsuneInterrupt and KitsuneCleanup. *)

KitsuneInterrupt ==
  /\ gState
  /\ interrupt' = TRUE
  /\ UNCHANGED <<events, shutdown, schedVars, callerVars>>

CleanerStep(from, to) == cleaner = from /\ cleaner' = to

BeginCleanup ==
  /\ CleanerStep("off", "interrupt")
  /\ gState' = FALSE
  /\ UNCHANGED <<events, schedVars, callerVars, interrupt, schedulerStop, schedulerDone>>

(* Mutant: the running coroutine is not interrupted *)
RaiseInterrupt_Skipped ==
  /\ CleanerStep("interrupt", "stop")
  /\ UNCHANGED <<events, schedVars, callerVars, interrupt, schedulerStop,
                 schedulerDone, gState>>

RaiseInterrupt ==
  /\ CleanerStep("interrupt", "stop")
  /\ interrupt' = TRUE
  /\ UNCHANGED <<events, schedVars, callerVars, schedulerStop, schedulerDone, gState>>

RaiseStop ==
  /\ CleanerStep("stop", "resume")
  /\ schedulerStop' = TRUE
  /\ UNCHANGED <<events, schedVars, callerVars, interrupt, schedulerDone, gState>>

(* resumeEvent.Set(): unblock the scheduler if it is in the pause handler *)
UnblockScheduler ==
  /\ CleanerStep("resume", "await")
  /\ resumeEvent' = TRUE
  /\ UNCHANGED <<pauseFlag, pausedEvent, schedVars, callerVars, interrupt,
                 schedulerStop, schedulerDone, gState>>

AwaitScheduler ==
  /\ CleanerStep("await", "lock")
  /\ schedulerDone
  /\ UNCHANGED <<events, schedVars, callerVars, interrupt, schedulerStop,
                 schedulerDone, gState>>

LockAccess ==
  /\ CleanerStep("lock", "unlock")
  /\ accessLock = Nobody
  /\ accessLock' = CleanupThread
  /\ UNCHANGED <<events, schedVars, caller, call, interrupt, schedulerStop,
                 schedulerDone, gState>>

UnlockAccess ==
  /\ CleanerStep("unlock", "close")
  /\ accessLock' = Nobody
  /\ UNCHANGED <<events, schedVars, caller, call, interrupt, schedulerStop,
                 schedulerDone, gState>>

(* Free the slots, lua_close, delete state *)
CloseState ==
  /\ CleanerStep("close", "closed")
  /\ UNCHANGED <<events, schedVars, callerVars, interrupt, schedulerStop,
                 schedulerDone, gState>>

KitsuneCleanup ==
  \/ BeginCleanup \/ RaiseInterrupt \/ RaiseStop \/ UnblockScheduler
  \/ AwaitScheduler \/ LockAccess \/ UnlockAccess \/ CloseState

------------------------------------------------------------------------------

Next == \/ Scheduler
        \/ \E c \in Callers : HostThread(c)
        \/ KitsuneInterrupt
        \/ KitsuneCleanup

Spec == Init /\ [][Next]_vars

(* Every thread keeps running; a cleanup that began goes on.  std::mutex is  *)
(* not fair, so a thread that waits for accessLock is promised nothing more  *)
(* than WF gives it: its turn if the mutex stays free.                       *)
ThreadFairness ==
  /\ WF_vars(Scheduler)
  /\ \A c \in Callers : WF_vars(Protocol(c) \/ InlineTickTest(c))
  /\ \A c \in Callers : WF_vars(call[c] = "bridge" /\ Leave(c))
  /\ WF_vars(KitsuneCleanup /\ cleaner # "off")

(* An inline script that runs on ends or yields at last.  Strong fairness,   *)
(* because on its way it goes through the Ticker again and again.  And no   *)
(* coroutine catches the error of the Ticker for ever.                       *)
ScriptFairness ==
  /\ \A c \in Callers : SF_vars(Leave(c) \/ InlineYield(c))
  /\ SF_vars(Raise /\ sched' = "finish")

FairSpec == Spec /\ ThreadFairness /\ ScriptFairness

------------------------------------------------------------------------------
(* Properties. *)

CallerInLua(c) == caller[c] \in {"in", "hook", "clear", "resume"}

SchedulerInLua == \/ sched \in {"pass", "visit", "run", "raise", "finish", "sweep"}
                  \/ sched \in {"test", "set"} /\ site = "tick"

CleanerInLua == cleaner = "close"

(* No two threads use the Lua state at the same time. *)
MutualExclusion ==
  /\ \A c, d \in Callers : CallerInLua(c) /\ CallerInLua(d) => c = d
  /\ \A c \in Callers : CallerInLua(c) => ~SchedulerInLua /\ ~CleanerInLua
  /\ CleanerInLua => ~SchedulerInLua

(* No host thread is in an API call. *)
AllOut == \A c \in Callers : caller[c] = "out"

(* The Lua state has one user at a time until a shutdown is requested, and   *)
(* afterwards whenever the API calls that were in progress are over.  This   *)
(* is the single serialisation point AcquireLuaAccess claims to be.          *)
ExclusiveAccess == (~schedulerStop \/ AllOut) => MutualExclusion

(* An event of the handshake is set only for the thread that waits for it:   *)
(* no phantom pausedEvent is left over for a later AcquireLuaAccess, and no  *)
(* resumeEvent that would let the scheduler run through its next pause.      *)
NoPhantomSignal ==
  ~schedulerStop =>
    /\ pausedEvent => \E c \in Callers : caller[c] \in {"stopq", "wait"}
    /\ pausedEvent => sched = "wait"
    /\ resumeEvent => sched = "wait" /\ \A c \in Callers : ~CallerInLua(c)

(* A host thread that reached pausedEvent.Wait() before any shutdown is let  *)
(* in: the scheduler comes to a pause point and no signal is lost.           *)
AccessGranted ==
  \A c \in Callers : (caller[c] = "wait" /\ gState)
                        ~> (CallerInLua(c) \/ ~gState)

(* A coroutine parked inside lua_resume by the Ticker runs again: unlike the *)
(* other two pause points the Ticker never gives a second host thread its    *)
(* turn before it goes on.                                                   *)
ParkedCoroutineResumes == (sched = "wait" /\ site = "tick") ~> (sched \in {"run", "raise"})

(* KitsuneCleanup ends if the host has no other call in progress when it     *)
(* starts: the scheduler sees schedulerStop whatever it waits for, and       *)
(* accessLock becomes free.                                                  *)
CleanupCompletes == (cleaner = "interrupt" /\ AllOut) ~> (cleaner = "closed")

(* The handshake implements the abstract lock.  Nothing is claimed of the    *)
(* host's calls that overlap its shutdown: meanwhile the lock counts as free. *)
Overlap == schedulerStop /\ ~AllOut

LuaHolder == IF Overlap THEN Nobody
             ELSE IF \E c \in Callers : CallerInLua(c)
             THEN CHOOSE c \in Callers : CallerInLua(c)
             ELSE IF SchedulerInLua THEN SchedulerThread
             ELSE IF CleanerInLua THEN CleanupThread
             ELSE Nobody
Abstract == INSTANCE LuaLock WITH
              Threads <- Callers \union {SchedulerThread, CleanupThread},
              holder <- LuaHolder
ImplementsLock == Abstract!LockSpec
==============================================================================
