--------------------------- MODULE LuaAccess_proofs ---------------------------
(***************************************************************************)
(* Proofs about LuaAccess for any set of host threads: type correctness,   *)
(* that the Lua state has one user at a time, that no signal is left over, *)
(* and that the handshake implements the abstract lock.                    *)
(***************************************************************************)
EXTENDS LuaAccess, TLAPS

InLua == {"in", "hook", "clear", "resume"}

(* Who owns accessLock, and who raised pauseFlag. *)
OwnerInv ==
  /\ OwnsLock
  /\ pauseFlag => \E c \in Callers :
                     caller[c] \in {"stopq", "wait", "in", "hook", "clear"}

(* How far the shutdown has come. *)
ShutdownInv ==
  /\ gState <=> cleaner = "off"
  /\ schedulerStop <=> cleaner \notin {"off", "interrupt", "stop"}
  /\ schedulerDone <=> sched = "done"
  /\ cleaner \in {"lock", "unlock", "close", "closed"} => schedulerDone

(* Who the scheduler waits for, and which signals are on their way. *)
SignalInv ==
  ~schedulerStop =>
    /\ \A c \in Callers :
          caller[c] \in InLua => sched = "wait" /\ ~resumeEvent /\ ~pausedEvent
    /\ sched = "set" =>
          /\ ~pausedEvent
          /\ \E c \in Callers : caller[c] \in {"stopq", "wait"}
    /\ pausedEvent =>
          /\ sched = "wait" /\ ~resumeEvent
          /\ \E c \in Callers : caller[c] \in {"stopq", "wait"}
    /\ resumeEvent => sched = "wait"

Inv == Ranges /\ OwnerInv /\ ShutdownInv /\ SignalInv

USE DEF InLua

------------------------------------------------------------------------------
(* The initial state satisfies the invariant: nobody has asked for anything. *)
LEMMA InitInv == Init => Inv
BY ThreadAssumption DEF Init, Inv, Ranges, OwnerInv, OwnsLock, ShutdownInv, SignalInv,
   SchedLabels, Sites, CallerLabels, Calls, CleanerLabels

(* Every step of every thread keeps the types. *)
LEMMA TypeNext == Ranges /\ [Next]_vars => Ranges'
<1> USE DEF Ranges, SchedLabels, Sites, CallerLabels, Calls, CleanerLabels
<1> SUFFICES ASSUME Ranges, [Next]_vars PROVE Ranges'
  OBVIOUS
<1>1. CASE Scheduler
  <2> USE DEF SchedUnchanged, NextSlot, shutdown, callerVars, events
  <2>1. CASE Loop
    BY <2>1 DEF Loop
  <2>2. CASE Exit
    BY <2>2 DEF Exit
  <2>3. CASE ParkTest
    BY <2>3 DEF ParkTest
  <2>4. CASE ParkSet
    BY <2>4 DEF ParkSet
  <2>5. CASE ParkWake
    <3>1. resumeEvent' \in BOOLEAN
      BY <2>5, Zenon DEF ParkWake
    <3> QED
      BY <2>5, <3>1 DEF ParkWake
  <2>6. CASE StopTest
    BY <2>6 DEF StopTest
  <2>7. CASE Pass
    BY <2>7 DEF Pass
  <2>8. CASE Visit
    BY <2>8 DEF Visit
  <2>9. CASE Run
    BY <2>9 DEF Run
  <2>10. CASE Raise
    BY <2>10 DEF Raise
  <2>11. CASE Finish
    BY <2>11 DEF Finish
  <2>12. CASE Sweep
    <3>1. interrupt' \in BOOLEAN
      BY <2>12, Zenon DEF Sweep
    <3>2. slotsInUse' \in BOOLEAN
      BY <2>12, Zenon DEF Sweep
    <3> QED
      BY <2>12, <3>1, <3>2 DEF Sweep
  <2>13. CASE Idle
    BY <2>13 DEF Idle
  <2> QED
    BY <1>1, <2>1, <2>2, <2>3, <2>4, <2>5, <2>6, <2>7, <2>8, <2>9, <2>10, <2>11, <2>12, <2>13 DEF Scheduler
<1>2. ASSUME NEW c \in Callers, HostThread(c)
      PROVE Ranges'
  <2> USE DEF Step, CallerUnchanged, LuaUnchanged, shutdown, schedVars, events
  <2>1. CASE Enter(c)
    BY <2>1 DEF Enter
  <2>2. CASE Lock(c)
    BY <2>2 DEF Lock
  <2>3. CASE RaiseFlag(c)
    BY <2>3 DEF RaiseFlag
  <2>4. CASE SelfSignal(c)
    BY <2>4 DEF SelfSignal
  <2>5. CASE Granted(c)
    <3>1. pausedEvent' \in BOOLEAN
      BY <2>5, Zenon DEF Granted
    <3> QED
      BY <2>5, <3>1 DEF Granted
  <2>6. CASE ClearFlag(c)
    <3>1. pauseFlag' \in BOOLEAN
      BY <2>6, Zenon DEF ClearFlag
    <3> QED
      BY <2>6, <3>1 DEF ClearFlag
  <2>7. CASE SignalResume(c)
    BY <2>7 DEF SignalResume
  <2>8. CASE Unlock(c)
    BY <2>8 DEF Unlock
  <2>9. CASE Leave(c)
    <3>1. slotsInUse' \in BOOLEAN
      BY <2>9, Zenon DEF Leave
    <3> QED
      BY <2>9, <3>1 DEF Leave
  <2>10. CASE InlineYield(c)
    <3>1. slotsInUse' \in BOOLEAN
      BY <2>10, Zenon DEF InlineYield
    <3> QED
      BY <2>10, <3>1 DEF InlineYield
  <2>11. CASE InlineTick(c)
    BY <2>11 DEF InlineTick
  <2>12. CASE InlineTickTest(c)
    BY <2>12 DEF InlineTickTest
  <2> QED
    BY <1>2, <2>1, <2>2, <2>3, <2>4, <2>5, <2>6, <2>7, <2>8, <2>9, <2>10, <2>11, <2>12 DEF HostThread, Protocol
<1>3. CASE KitsuneInterrupt
  BY <1>3 DEF KitsuneInterrupt, events, shutdown, schedVars, callerVars
<1>4. CASE KitsuneCleanup
  <2> USE DEF CleanerStep, events, schedVars, callerVars
  <2>1. CASE BeginCleanup
    <3>1. gState' \in BOOLEAN
      BY <2>1, Zenon DEF BeginCleanup
    <3> QED
      BY <2>1, <3>1 DEF BeginCleanup
  <2>2. CASE RaiseInterrupt
    BY <2>2 DEF RaiseInterrupt
  <2>3. CASE RaiseStop
    BY <2>3 DEF RaiseStop
  <2>4. CASE UnblockScheduler
    BY <2>4 DEF UnblockScheduler
  <2>5. CASE AwaitScheduler
    BY <2>5 DEF AwaitScheduler
  <2>6. CASE LockAccess
    BY <2>6 DEF LockAccess
  <2>7. CASE UnlockAccess
    BY <2>7 DEF UnlockAccess
  <2>8. CASE CloseState
    BY <2>8 DEF CloseState
  <2> QED
    BY <1>4, <2>1, <2>2, <2>3, <2>4, <2>5, <2>6, <2>7, <2>8 DEF KitsuneCleanup
<1>5. CASE UNCHANGED vars
  BY <1>5 DEF vars, events, shutdown, schedVars, callerVars
<1> QED
  BY <1>1, <1>2, <1>3, <1>4, <1>5 DEF Next

(* A thread that owns accessLock keeps it until it unlocks it. *)
LEMMA OwnerNext ==
  Ranges /\ OwnerInv /\ [Next]_vars => OwnerInv'
<1> USE DEF Ranges, SchedLabels, Sites, CallerLabels, Calls, CleanerLabels,
            OwnerInv, OwnsLock
<1> SUFFICES ASSUME Ranges, OwnerInv, [Next]_vars
             PROVE OwnerInv'
  OBVIOUS
<1>0. Ranges'
  BY TypeNext
<1>1. CASE Scheduler
  <2>1. UNCHANGED <<accessLock, caller, pauseFlag, cleaner>>
    BY <1>1, Zenon DEF Scheduler, Loop, Exit, ParkTest, ParkSet, ParkWake, StopTest,
       Pass, Visit, Run, Raise, Finish, Sweep, Idle, SchedUnchanged, shutdown,
       callerVars, events
  <2> QED
    BY <2>1
<1>2. ASSUME NEW c \in Callers, HostThread(c)
      PROVE OwnerInv'
  <2> USE DEF Step, CallerUnchanged, LuaUnchanged, shutdown, schedVars, events
  <2>1. CASE Enter(c)
    BY <1>0, <2>1, ThreadAssumption DEF Enter
  <2>2. CASE Lock(c)
    BY <1>0, <2>2, ThreadAssumption DEF Lock
  <2>3. CASE RaiseFlag(c)
    BY <1>0, <2>3, ThreadAssumption DEF RaiseFlag
  <2>4. CASE SelfSignal(c)
    BY <1>0, <2>4, ThreadAssumption DEF SelfSignal
  <2>5. CASE Granted(c)
    BY <1>0, <2>5, ThreadAssumption DEF Granted
  <2>6. CASE ClearFlag(c)
    BY <1>0, <2>6, ThreadAssumption DEF ClearFlag
  <2>7. CASE SignalResume(c)
    BY <1>0, <2>7, ThreadAssumption DEF SignalResume
  <2>8. CASE Unlock(c)
    BY <1>0, <2>8, ThreadAssumption DEF Unlock
  <2>9. CASE Leave(c)
    BY <1>0, <2>9, ThreadAssumption DEF Leave
  <2>10. CASE InlineYield(c)
    BY <1>0, <2>10, ThreadAssumption DEF InlineYield
  <2>11. CASE InlineTick(c)
    BY <1>0, <2>11, ThreadAssumption DEF InlineTick
  <2>12. CASE InlineTickTest(c)
    BY <1>0, <2>12, ThreadAssumption DEF InlineTickTest
  <2> QED
    BY <1>2, <2>1, <2>2, <2>3, <2>4, <2>5, <2>6, <2>7, <2>8, <2>9, <2>10, <2>11, <2>12 DEF HostThread, Protocol
<1>3. CASE KitsuneInterrupt
  BY <1>3 DEF KitsuneInterrupt, events, shutdown, schedVars, callerVars
<1>4. CASE KitsuneCleanup
  <2> USE DEF CleanerStep, events, schedVars, callerVars
  <2>1. CASE BeginCleanup
    BY <1>0, <2>1, ThreadAssumption DEF BeginCleanup
  <2>2. CASE RaiseInterrupt
    BY <1>0, <2>2, ThreadAssumption DEF RaiseInterrupt
  <2>3. CASE RaiseStop
    BY <1>0, <2>3, ThreadAssumption DEF RaiseStop
  <2>4. CASE UnblockScheduler
    BY <1>0, <2>4, ThreadAssumption DEF UnblockScheduler
  <2>5. CASE AwaitScheduler
    BY <1>0, <2>5, ThreadAssumption DEF AwaitScheduler
  <2>6. CASE LockAccess
    BY <1>0, <2>6, ThreadAssumption DEF LockAccess
  <2>7. CASE UnlockAccess
    BY <1>0, <2>7, ThreadAssumption DEF UnlockAccess
  <2>8. CASE CloseState
    BY <1>0, <2>8, ThreadAssumption DEF CloseState
  <2> QED
    BY <1>4, <2>1, <2>2, <2>3, <2>4, <2>5, <2>6, <2>7, <2>8 DEF KitsuneCleanup
<1>5. CASE UNCHANGED vars
  BY <1>5 DEF vars, events, shutdown, schedVars, callerVars
<1> QED
  BY <1>1, <1>2, <1>3, <1>4, <1>5 DEF Next

(* The shutdown goes through its stages in order. *)
LEMMA ShutdownNext ==
  Ranges /\ ShutdownInv /\ [Next]_vars => ShutdownInv'
<1> USE DEF Ranges, SchedLabels, Sites, CallerLabels, Calls, CleanerLabels,
            ShutdownInv
<1> SUFFICES ASSUME Ranges, ShutdownInv, [Next]_vars
             PROVE ShutdownInv'
  OBVIOUS
<1>0. Ranges'
  BY TypeNext
<1>1. CASE Scheduler
  <2> USE DEF SchedUnchanged, NextSlot, shutdown, callerVars, events
  <2>1. CASE Loop
    BY <1>0, <2>1 DEF Loop
  <2>2. CASE Exit
    BY <1>0, <2>2 DEF Exit
  <2>3. CASE ParkTest
    BY <1>0, <2>3 DEF ParkTest
  <2>4. CASE ParkSet
    BY <1>0, <2>4 DEF ParkSet
  <2>5. CASE ParkWake
    BY <1>0, <2>5 DEF ParkWake
  <2>6. CASE StopTest
    BY <1>0, <2>6 DEF StopTest
  <2>7. CASE Pass
    BY <1>0, <2>7 DEF Pass
  <2>8. CASE Visit
    BY <1>0, <2>8 DEF Visit
  <2>9. CASE Run
    BY <1>0, <2>9 DEF Run
  <2>10. CASE Raise
    BY <1>0, <2>10 DEF Raise
  <2>11. CASE Finish
    BY <1>0, <2>11 DEF Finish
  <2>12. CASE Sweep
    BY <1>0, <2>12 DEF Sweep
  <2>13. CASE Idle
    BY <1>0, <2>13 DEF Idle
  <2> QED
    BY <1>1, <2>1, <2>2, <2>3, <2>4, <2>5, <2>6, <2>7, <2>8, <2>9, <2>10, <2>11, <2>12, <2>13 DEF Scheduler
<1>2. ASSUME NEW c \in Callers, HostThread(c)
      PROVE ShutdownInv'
  <2> USE DEF Step, CallerUnchanged, LuaUnchanged, shutdown, schedVars, events
  <2>1. CASE Enter(c)
    BY <1>0, <2>1, ThreadAssumption DEF Enter
  <2>2. CASE Lock(c)
    BY <1>0, <2>2, ThreadAssumption DEF Lock
  <2>3. CASE RaiseFlag(c)
    BY <1>0, <2>3, ThreadAssumption DEF RaiseFlag
  <2>4. CASE SelfSignal(c)
    BY <1>0, <2>4, ThreadAssumption DEF SelfSignal
  <2>5. CASE Granted(c)
    BY <1>0, <2>5, ThreadAssumption DEF Granted
  <2>6. CASE ClearFlag(c)
    BY <1>0, <2>6, ThreadAssumption DEF ClearFlag
  <2>7. CASE SignalResume(c)
    BY <1>0, <2>7, ThreadAssumption DEF SignalResume
  <2>8. CASE Unlock(c)
    BY <1>0, <2>8, ThreadAssumption DEF Unlock
  <2>9. CASE Leave(c)
    BY <1>0, <2>9, ThreadAssumption DEF Leave
  <2>10. CASE InlineYield(c)
    BY <1>0, <2>10, ThreadAssumption DEF InlineYield
  <2>11. CASE InlineTick(c)
    BY <1>0, <2>11, ThreadAssumption DEF InlineTick
  <2>12. CASE InlineTickTest(c)
    BY <1>0, <2>12, ThreadAssumption DEF InlineTickTest
  <2> QED
    BY <1>2, <2>1, <2>2, <2>3, <2>4, <2>5, <2>6, <2>7, <2>8, <2>9, <2>10, <2>11, <2>12 DEF HostThread, Protocol
<1>3. CASE KitsuneInterrupt
  BY <1>3 DEF KitsuneInterrupt, events, shutdown, schedVars, callerVars
<1>4. CASE KitsuneCleanup
  <2> USE DEF CleanerStep, events, schedVars, callerVars
  <2>1. CASE BeginCleanup
    BY <1>0, <2>1, ThreadAssumption DEF BeginCleanup
  <2>2. CASE RaiseInterrupt
    BY <1>0, <2>2, ThreadAssumption DEF RaiseInterrupt
  <2>3. CASE RaiseStop
    BY <1>0, <2>3, ThreadAssumption DEF RaiseStop
  <2>4. CASE UnblockScheduler
    BY <1>0, <2>4, ThreadAssumption DEF UnblockScheduler
  <2>5. CASE AwaitScheduler
    BY <1>0, <2>5, ThreadAssumption DEF AwaitScheduler
  <2>6. CASE LockAccess
    BY <1>0, <2>6, ThreadAssumption DEF LockAccess
  <2>7. CASE UnlockAccess
    BY <1>0, <2>7, ThreadAssumption DEF UnlockAccess
  <2>8. CASE CloseState
    BY <1>0, <2>8, ThreadAssumption DEF CloseState
  <2> QED
    BY <1>4, <2>1, <2>2, <2>3, <2>4, <2>5, <2>6, <2>7, <2>8 DEF KitsuneCleanup
<1>5. CASE UNCHANGED vars
  BY <1>5 DEF vars, events, shutdown, schedVars, callerVars
<1> QED
  BY <1>1, <1>2, <1>3, <1>4, <1>5 DEF Next

(* No signal goes astray, and the scheduler waits while a host thread is in  *)
(* Lua. *)
LEMMA SignalNext ==
  Ranges /\ OwnerInv /\ ShutdownInv /\ SignalInv /\ [Next]_vars => SignalInv'
<1> USE DEF Ranges, SchedLabels, Sites, CallerLabels, Calls, CleanerLabels,
            OwnerInv, OwnsLock, ShutdownInv, SignalInv
<1> SUFFICES ASSUME Ranges, OwnerInv, ShutdownInv, SignalInv, [Next]_vars
             PROVE SignalInv'
  OBVIOUS
<1>0. Ranges'
  BY TypeNext
<1>1. CASE Scheduler
  <2> USE DEF SchedUnchanged, NextSlot, shutdown, callerVars, events
  <2>1. CASE Loop
    BY <1>0, <2>1 DEF Loop
  <2>2. CASE Exit
    BY <1>0, <2>2 DEF Exit
  <2>3. CASE ParkTest
    BY <1>0, <2>3 DEF ParkTest
  <2>4. CASE ParkSet
    BY <1>0, <2>4 DEF ParkSet
  <2>5. CASE ParkWake
    BY <1>0, <2>5 DEF ParkWake
  <2>6. CASE StopTest
    BY <1>0, <2>6 DEF StopTest
  <2>7. CASE Pass
    BY <1>0, <2>7 DEF Pass
  <2>8. CASE Visit
    BY <1>0, <2>8 DEF Visit
  <2>9. CASE Run
    BY <1>0, <2>9 DEF Run
  <2>10. CASE Raise
    BY <1>0, <2>10 DEF Raise
  <2>11. CASE Finish
    BY <1>0, <2>11 DEF Finish
  <2>12. CASE Sweep
    BY <1>0, <2>12 DEF Sweep
  <2>13. CASE Idle
    BY <1>0, <2>13 DEF Idle
  <2> QED
    BY <1>1, <2>1, <2>2, <2>3, <2>4, <2>5, <2>6, <2>7, <2>8, <2>9, <2>10, <2>11, <2>12, <2>13 DEF Scheduler
<1>2. ASSUME NEW c \in Callers, HostThread(c)
      PROVE SignalInv'
  <2> USE DEF Step, CallerUnchanged, LuaUnchanged, shutdown, schedVars, events
  <2>1. CASE Enter(c)
    BY <1>0, <2>1, ThreadAssumption DEF Enter
  <2>2. CASE Lock(c)
    BY <1>0, <2>2, ThreadAssumption DEF Lock
  <2>3. CASE RaiseFlag(c)
    BY <1>0, <2>3, ThreadAssumption DEF RaiseFlag
  <2>4. CASE SelfSignal(c)
    BY <1>0, <2>4, ThreadAssumption DEF SelfSignal
  <2>5. CASE Granted(c)
    BY <1>0, <2>5, ThreadAssumption DEF Granted
  <2>6. CASE ClearFlag(c)
    BY <1>0, <2>6, ThreadAssumption DEF ClearFlag
  <2>7. CASE SignalResume(c)
    BY <1>0, <2>7, ThreadAssumption DEF SignalResume
  <2>8. CASE Unlock(c)
    BY <1>0, <2>8, ThreadAssumption DEF Unlock
  <2>9. CASE Leave(c)
    BY <1>0, <2>9, ThreadAssumption DEF Leave
  <2>10. CASE InlineYield(c)
    BY <1>0, <2>10, ThreadAssumption DEF InlineYield
  <2>11. CASE InlineTick(c)
    BY <1>0, <2>11, ThreadAssumption DEF InlineTick
  <2>12. CASE InlineTickTest(c)
    BY <1>0, <2>12, ThreadAssumption DEF InlineTickTest
  <2> QED
    BY <1>2, <2>1, <2>2, <2>3, <2>4, <2>5, <2>6, <2>7, <2>8, <2>9, <2>10, <2>11, <2>12 DEF HostThread, Protocol
<1>3. CASE KitsuneInterrupt
  BY <1>3 DEF KitsuneInterrupt, events, shutdown, schedVars, callerVars
<1>4. CASE KitsuneCleanup
  <2> USE DEF CleanerStep, events, schedVars, callerVars
  <2>1. CASE BeginCleanup
    BY <1>0, <2>1, ThreadAssumption DEF BeginCleanup
  <2>2. CASE RaiseInterrupt
    BY <1>0, <2>2, ThreadAssumption DEF RaiseInterrupt
  <2>3. CASE RaiseStop
    BY <1>0, <2>3, ThreadAssumption DEF RaiseStop
  <2>4. CASE UnblockScheduler
    BY <1>0, <2>4, ThreadAssumption DEF UnblockScheduler
  <2>5. CASE AwaitScheduler
    BY <1>0, <2>5, ThreadAssumption DEF AwaitScheduler
  <2>6. CASE LockAccess
    BY <1>0, <2>6, ThreadAssumption DEF LockAccess
  <2>7. CASE UnlockAccess
    BY <1>0, <2>7, ThreadAssumption DEF UnlockAccess
  <2>8. CASE CloseState
    BY <1>0, <2>8, ThreadAssumption DEF CloseState
  <2> QED
    BY <1>4, <2>1, <2>2, <2>3, <2>4, <2>5, <2>6, <2>7, <2>8 DEF KitsuneCleanup
<1>5. CASE UNCHANGED vars
  BY <1>5 DEF vars, events, shutdown, schedVars, callerVars
<1> QED
  BY <1>1, <1>2, <1>3, <1>4, <1>5 DEF Next

(* The invariant is inductive. *)
LEMMA InvNext == Inv /\ [Next]_vars => Inv'
BY TypeNext, OwnerNext, ShutdownNext, SignalNext DEF Inv

(* The invariant gives mutual exclusion. *)
LEMMA InvExclusive == Inv => ExclusiveAccess
<1> SUFFICES ASSUME Inv, ~schedulerStop \/ AllOut PROVE MutualExclusion
  BY DEF ExclusiveAccess
<1> USE DEF Inv, OwnerInv, OwnsLock, ShutdownInv, SignalInv, MutualExclusion, CallerInLua,
            SchedulerInLua, CleanerInLua
<1>1. CASE ~schedulerStop
  BY <1>1, ThreadAssumption
<1>2. CASE AllOut
  BY <1>2 DEF AllOut
<1> QED
  BY <1>1, <1>2

(* So it does after a step. *)
LEMMA InvExclusiveNext == Inv' => ExclusiveAccess'
BY InvExclusive, PTL

LEMMA InvCorrect == Spec => []Inv
BY InitInv, InvNext, PTL DEF Spec

(* Every variable keeps its type, whatever the host threads do. *)
THEOREM TypeCorrect == Spec => []TypeOK
<1>1. Inv => TypeOK
  BY DEF Inv, OwnerInv, TypeOK
<1> QED
  BY <1>1, InvCorrect, PTL

(* The Lua state has one user at a time until a shutdown is requested, and   *)
(* afterwards whenever the calls that were in progress are over, for any     *)
(* number of host threads.                                                   *)
THEOREM Exclusive == Spec => []ExclusiveAccess
BY InvExclusive, InvCorrect, PTL

(* Before a shutdown no signal of the handshake is left over: a set event is *)
(* one that a thread is waiting for.                                         *)
THEOREM NoPhantom == Spec => []NoPhantomSignal
<1>1. Inv => NoPhantomSignal
  BY DEF Inv, SignalInv, NoPhantomSignal, CallerInLua
<1> QED
  BY <1>1, InvCorrect, PTL

------------------------------------------------------------------------------
(* The handshake implements the lock: a step lets one thread into Lua or one *)
(* out of it, never both, so that the thread the lock is given to finds it   *)
(* free.                                                                     *)
LuaThreads == Callers \union {SchedulerThread, CleanupThread}

InLuaNow(t) == \/ t \in Callers /\ CallerInLua(t)
               \/ t = SchedulerThread /\ SchedulerInLua
               \/ t = CleanupThread /\ CleanerInLua

(* With mutual exclusion the holder of the lock is the thread in Lua. *)
LEMMA HolderInLua ==
  ASSUME MutualExclusion, ~Overlap
  PROVE  /\ \A t \in LuaThreads : InLuaNow(t) => LuaHolder = t
         /\ (\A t \in LuaThreads : ~InLuaNow(t)) => LuaHolder = Nobody
<1>1. ASSUME NEW c \in Callers, CallerInLua(c) PROVE LuaHolder = c
  <2>1. \A d \in Callers : CallerInLua(d) => d = c
    BY <1>1 DEF MutualExclusion
  <2> HIDE DEF CallerInLua
  <2>2. (CHOOSE d \in Callers : CallerInLua(d)) = c
    BY <1>1, <2>1
  <2> QED
    BY <1>1, <2>2 DEF LuaHolder
<1>2. SchedulerInLua => ~CleanerInLua /\ \A c \in Callers : ~CallerInLua(c)
  BY DEF MutualExclusion
<1>3. CleanerInLua => \A c \in Callers : ~CallerInLua(c)
  BY DEF MutualExclusion
<1> QED
  BY <1>1, <1>2, <1>3, ThreadAssumption DEF LuaHolder, InLuaNow, LuaThreads

(* The same after a step. *)
LEMMA HolderInLuaNext ==
  ASSUME MutualExclusion', ~Overlap'
  PROVE  /\ \A t \in LuaThreads : InLuaNow(t)' => LuaHolder' = t
         /\ (\A t \in LuaThreads : ~InLuaNow(t)') => LuaHolder' = Nobody
<1>1. ASSUME NEW c \in Callers, CallerInLua(c)' PROVE LuaHolder' = c
  <2>1. \A d \in Callers : CallerInLua(d)' => d = c
    BY <1>1 DEF MutualExclusion
  <2> HIDE DEF CallerInLua
  <2>2. (CHOOSE d \in Callers : CallerInLua(d)') = c
    BY <1>1, <2>1
  <2> QED
    BY <1>1, <2>2 DEF LuaHolder
<1>2. SchedulerInLua' => ~CleanerInLua' /\ \A c \in Callers : ~CallerInLua(c)'
  BY DEF MutualExclusion
<1>3. CleanerInLua' => \A c \in Callers : ~CallerInLua(c)'
  BY DEF MutualExclusion
<1> QED
  BY <1>1, <1>2, <1>3, ThreadAssumption DEF LuaHolder, InLuaNow, LuaThreads

(* The holder is a thread or nobody, now and after a step. *)
LEMMA HolderType ==
  /\ LuaHolder \in LuaThreads \union {Nobody}
  /\ LuaHolder' \in LuaThreads \union {Nobody}
<1> HIDE DEF CallerInLua
<1>1. LuaHolder \in LuaThreads \union {Nobody}
  <2>1. (\E c \in Callers : CallerInLua(c)) => (CHOOSE c \in Callers : CallerInLua(c)) \in Callers
    OBVIOUS
  <2> QED
    BY <2>1 DEF LuaHolder, LuaThreads
<1>2. LuaHolder' \in LuaThreads \union {Nobody}
  <2>1. (\E c \in Callers : CallerInLua(c)') => (CHOOSE c \in Callers : CallerInLua(c)') \in Callers
    OBVIOUS
  <2> QED
    BY <2>1 DEF LuaHolder, LuaThreads
<1> QED
  BY <1>1, <1>2

(* With mutual exclusion there is one thread in Lua at most. *)
LEMMA OneInLua ==
  /\ MutualExclusion =>
       \A s, t \in LuaThreads : InLuaNow(s) /\ InLuaNow(t) => s = t
  /\ MutualExclusion' =>
       \A s, t \in LuaThreads : InLuaNow(s)' /\ InLuaNow(t)' => s = t
BY ThreadAssumption DEF MutualExclusion, InLuaNow, LuaThreads

(* A step lets no two threads in or out. *)
LEMMA OneMoves ==
  ASSUME Ranges, [Next]_vars
  PROVE  \E t \in LuaThreads : \A s \in LuaThreads \ {t} : InLuaNow(s)' <=> InLuaNow(s)
<1>1. CASE Scheduler
  <2>1. UNCHANGED <<caller, cleaner>>
    BY <1>1, Zenon DEF Scheduler, Loop, Exit, ParkTest, ParkSet, ParkWake, StopTest,
       Pass, Visit, Run, Raise, Finish, Sweep, Idle, SchedUnchanged, shutdown, callerVars
  <2> QED
    BY <2>1, ThreadAssumption DEF LuaThreads, InLuaNow, CallerInLua, CleanerInLua
<1>2. ASSUME NEW c \in Callers, HostThread(c)
      PROVE  \E t \in LuaThreads : \A s \in LuaThreads \ {t} : InLuaNow(s)' <=> InLuaNow(s)
  <2>1. UNCHANGED <<sched, site, cleaner>>
    BY <1>2, Zenon DEF HostThread, Protocol, Enter, Lock, RaiseFlag, SelfSignal, Granted,
       Leave, InlineYield, InlineTick, InlineTickTest, ClearFlag, SignalResume, Unlock,
       CallerUnchanged, LuaUnchanged, schedVars, shutdown
  <2>2. \E to : caller' = [caller EXCEPT ![c] = to]
    BY <1>2, Zenon DEF HostThread, Protocol, Enter, Lock, RaiseFlag, SelfSignal, Granted,
       Leave, InlineYield, InlineTick, InlineTickTest, ClearFlag, SignalResume, Unlock, Step
  <2>3. \A d \in Callers \ {c} : caller'[d] = caller[d]
    BY <2>2 DEF Ranges
  <2>4. \A d \in Callers \ {c} : CallerInLua(d)' <=> CallerInLua(d)
    BY <2>3 DEF CallerInLua
  <2>5. (SchedulerInLua' <=> SchedulerInLua) /\ (CleanerInLua' <=> CleanerInLua)
    BY <2>1 DEF SchedulerInLua, CleanerInLua
  <2> QED
    BY <2>4, <2>5 DEF LuaThreads, InLuaNow
<1>3. CASE KitsuneInterrupt \/ UNCHANGED vars
  <2>1. UNCHANGED <<caller, cleaner, sched, site>>
    BY <1>3, Zenon DEF KitsuneInterrupt, vars, shutdown, schedVars, callerVars
  <2> QED
    BY <2>1 DEF LuaThreads, InLuaNow, CallerInLua, SchedulerInLua, CleanerInLua
<1>4. CASE KitsuneCleanup
  <2>1. UNCHANGED <<caller, sched, site>>
    BY <1>4, Zenon DEF KitsuneCleanup, BeginCleanup, RaiseInterrupt, RaiseStop,
       UnblockScheduler, AwaitScheduler, LockAccess, UnlockAccess, CloseState,
       schedVars, callerVars
  <2> QED
    BY <2>1, ThreadAssumption DEF LuaThreads, InLuaNow, CallerInLua, SchedulerInLua
<1> QED
  BY <1>1, <1>2, <1>3, <1>4 DEF Next

(* While no call overlaps the shutdown, a step of the handshake is a step of *)
(* the lock, or leaves it alone. *)
LEMMA LockStepInside ==
  ASSUME Inv, [Next]_vars, ~Overlap, ~Overlap'
  PROVE  [Abstract!LockNext]_LuaHolder
<1>1. MutualExclusion
  BY InvExclusive DEF ExclusiveAccess, Overlap
<1>2. Inv'
  BY InvNext
<1>3. MutualExclusion'
  BY <1>2, InvExclusiveNext DEF ExclusiveAccess, Overlap
<1>4. PICK t \in LuaThreads : \A s \in LuaThreads \ {t} : InLuaNow(s)' <=> InLuaNow(s)
  BY OneMoves DEF Inv
<1> HIDE DEF InLuaNow
<1>5. CASE InLuaNow(t) /\ ~InLuaNow(t)'
  <2>1. LuaHolder = t
    BY <1>1, <1>5, HolderInLua
  <2>2. \A s \in LuaThreads : ~InLuaNow(s)'
    BY <1>1, <1>4, <1>5, OneInLua
  <2>3. LuaHolder' = Nobody
    BY <1>3, <2>2, HolderInLuaNext
  <2> QED
    BY <2>1, <2>3 DEF Abstract!LockNext, Abstract!Give, LuaThreads
<1>6. CASE ~InLuaNow(t) /\ InLuaNow(t)'
  <2>1. LuaHolder' = t
    BY <1>3, <1>6, HolderInLuaNext
  <2>2. \A s \in LuaThreads : ~InLuaNow(s)
    BY <1>3, <1>4, <1>6, OneInLua
  <2>3. LuaHolder = Nobody
    BY <1>1, <2>2, HolderInLua
  <2> QED
    BY <2>1, <2>3 DEF Abstract!LockNext, Abstract!Take, LuaThreads
<1>7. CASE InLuaNow(t)' <=> InLuaNow(t)
  <2>1. \A s \in LuaThreads : InLuaNow(s)' <=> InLuaNow(s)
    BY <1>4, <1>7
  <2>2. CASE \A s \in LuaThreads : ~InLuaNow(s)
    <3>1. LuaHolder = Nobody
      BY <1>1, <2>2, HolderInLua
    <3>2. LuaHolder' = Nobody
      BY <1>3, <2>1, <2>2, HolderInLuaNext
    <3> QED
      BY <3>1, <3>2
  <2>3. ASSUME NEW s \in LuaThreads, InLuaNow(s)
        PROVE  LuaHolder' = LuaHolder
    <3>1. LuaHolder = s
      BY <1>1, <2>3, HolderInLua
    <3>2. LuaHolder' = s
      BY <1>3, <2>1, <2>3, HolderInLuaNext
    <3> QED
      BY <3>1, <3>2
  <2> QED
    BY <2>2, <2>3
<1> QED
  BY <1>5, <1>6, <1>7

(* When calls begin to overlap the shutdown the lock is given back, when the *)
(* last one is over it is taken by whoever is in Lua then. *)
LEMMA LockStep ==
  ASSUME Inv, [Next]_vars
  PROVE  [Abstract!LockNext]_LuaHolder
<1>1. CASE ~Overlap /\ ~Overlap'
  BY <1>1, LockStepInside
<1>2. CASE Overlap'
  <2>1. LuaHolder' = Nobody
    BY <1>2 DEF LuaHolder
  <2> QED
    BY <2>1, HolderType DEF Abstract!LockNext, Abstract!Give, LuaThreads
<1>3. CASE Overlap
  <2>1. LuaHolder = Nobody
    BY <1>3 DEF LuaHolder
  <2> QED
    BY <2>1, HolderType DEF Abstract!LockNext, Abstract!Take, LuaThreads
<1> QED
  BY <1>1, <1>2, <1>3

(* The handshake implements the abstract lock: every step of it, of any      *)
(* number of threads, takes the free lock, gives it back, or leaves it alone. *)
(* Of calls that overlap the shutdown LuaHolder claims nothing; there are    *)
(* none if the host has no call in progress when it starts the shutdown.     *)
THEOREM LockImplemented == Spec => ImplementsLock
<1>1. Init => Abstract!LockInit
  BY DEF Init, Abstract!LockInit, LuaHolder, Overlap, CallerInLua, SchedulerInLua, CleanerInLua
<1>2. Inv /\ [Next]_vars => [Abstract!LockNext]_LuaHolder
  BY LockStep
<1> QED
  BY <1>1, <1>2, InvCorrect, PTL DEF Spec, ImplementsLock, Abstract!LockSpec

==============================================================================
