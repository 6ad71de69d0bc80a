------------------------------ MODULE KitsuneWait ------------------------------
(***************************************************************************)
(* KitsuneWait, composed with the slots: a host thread sleeps on doneCV      *)
(* until every slot is free or RELEASED.  Whoever makes a slot DONE or       *)
(* RELEASED, or frees it, calls doneCV.notify_all(), except an inline call   *)
(* whose chunk does not load, and does not hold doneMtx, so it may do so     *)
(* between the thread's look at the slots and its going to sleep.  Shutdown  *)
(* is not modelled here (LuaAccess).                                         *)
(***************************************************************************)
EXTENDS Coroutines

VARIABLES
  waiter,     (* "outside", "looking", "dozing", "asleep" or "returned" *)
  waitedFor   (* history: the last id that had been given out at the call *)

waitVars == <<waiter, waitedFor, vars>>
WaitInit == Init /\ waiter = "outside" /\ waitedFor = 0

BeginWait ==
  /\ waiter = "outside"
  /\ waiter' = "looking"
  /\ waitedFor' = nextId
  /\ UNCHANGED vars

(* Mutant: a paused coroutine is not waited for *)
AllReleased_PausedToo ==
  \A i \in Slot : Used(i) => slots[i].state \in {"RELEASED", "PAUSED"}

(* The predicate of doneCV.wait, under slotsLock *)
AllReleased == \A i \in Slot : Used(i) => slots[i].state = "RELEASED"

LookAtSlots ==
  /\ waiter = "looking"
  /\ SlotsLockFree
  /\ waiter' = IF AllReleased THEN "returned" ELSE "dozing"
  /\ UNCHANGED <<vars, waitedFor>>

FallAsleep ==
  /\ waiter = "dozing"
  /\ waiter' = "asleep"
  /\ UNCHANGED <<vars, waitedFor>>

ReturnFromWait ==
  /\ waiter = "returned"
  /\ waiter' = "outside"
  /\ UNCHANGED <<vars, waitedFor>>

(* The steps that end in doneCV.notify_all() *)
Notifies == \/ VisitAborted \/ Return \/ TickerRaises
            \/ slots' # slots /\ (InterruptSlot \/ Sweep)
            \/ \E i \in Slot, forget \in BOOLEAN : StartCoroutine(i, forget) /\ Finished(i)'

(* An inline call notifies too, but not if its chunk did not load: it frees   *)
(* the slot and returns (KitsuneExecuteFile).                                *)
MayNotify == \E i \in Slot : InlineEnd(i)

NotifyAll == IF waiter = "asleep" THEN "looking" ELSE waiter

EngineStep ==
  /\ Next
  /\ \/ (Notifies \/ MayNotify) /\ waiter' = NotifyAll
     \/ ~Notifies /\ waiter' = waiter
  /\ UNCHANGED waitedFor

WaitNext == EngineStep \/ BeginWait \/ LookAtSlots \/ FallAsleep \/ ReturnFromWait

WaitSpec == WaitInit /\ [][WaitNext]_waitVars

(* The waiting thread goes on unless it is asleep. *)
FairWaitSpec == WaitSpec /\ SchedulerFairness /\ WF_waitVars(LookAtSlots \/ FallAsleep)

------------------------------------------------------------------------------

(* KitsuneWait returns only when every coroutine that was started before the  *)
(* call has ended, or was cancelled or interrupted, whatever state it slept,  *)
(* paused or waited in meanwhile.                                            *)
WaitedForAll ==
  waiter = "returned" => \A id \in 1..waitedFor : fate[id] \notin {"live", "ended"}

(* "Blocks the calling thread until all coroutine slots are gone"            *)
(* (KitsuneEngine.h): once they are gone, and stay so, it does not block.     *)
WaitReturns ==
  (waiter \in {"looking", "dozing", "asleep"})
    ~> (waiter = "returned" \/ \E i \in Slot : Used(i))
================================================================================
