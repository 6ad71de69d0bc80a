------------------------------ MODULE AsyncLaunch ------------------------------
(***************************************************************************)
(* A host thread that starts coroutines and waits for them, composed with   *)
(* the slots.  The end of KitsuneExecute...Async, CommitAndLaunchAsync,     *)
(* gives up Lua access, wakes the scheduler, and only then reads slot->id   *)
(* to return it; after that the thread may call KitsuneWait.  Coroutines    *)
(* that other threads and Lua code start come in between.                   *)
(***************************************************************************)
EXTENDS KitsuneWait

VARIABLES
  launch,    (* the slot and id of the call in progress; slot 0 if there is none *)
  returned   (* history: the id that the last call acquired, and the one it returned *)

launchVars == <<launch, returned, waitVars>>
NoLaunch == [slot |-> 0, id |-> 0]

LaunchInit ==
  /\ WaitInit
  /\ launch = NoLaunch
  /\ returned = [acquired |-> 0, got |-> 0]

(* AcquireSlot, the load of the script, ReleaseLuaAccess *)
Launch ==
  /\ launch = NoLaunch /\ waiter = "outside"
  /\ \E i \in Slot, forget \in BOOLEAN :
       /\ StartCoroutine(i, forget)
       /\ launch' = [slot |-> i, id |-> nextId']
  /\ UNCHANGED <<returned, waiter, waitedFor>>

(* return slot->id *)
CommitAndLaunchAsync ==
  /\ launch # NoLaunch
  /\ returned' = [acquired |-> launch.id, got |-> slots[launch.slot].id]
  /\ launch' = NoLaunch
  /\ UNCHANGED waitVars

(* The thread is in one call at a time. *)
ElsewhereOrWaiting ==
  /\ WaitNext
  /\ launch # NoLaunch => waiter' = "outside"
  /\ UNCHANGED <<launch, returned>>

LaunchNext == Launch \/ CommitAndLaunchAsync \/ ElsewhereOrWaiting

LaunchSpec == LaunchInit /\ [][LaunchNext]_launchVars

------------------------------------------------------------------------------

(* The id that the caller gets is that of the coroutine it started, unless   *)
(* that coroutine is over and nobody can ask for its outcome any more: a     *)
(* slot that was freed, and one that somebody else has by now, gives the     *)
(* wrong id away, but never for a coroutine that still matters.              *)
IdWhileKept ==
  returned.got # returned.acquired =>
    fate[returned.acquired] \notin {"live", "ended"}
================================================================================
