----------------------------- MODULE MCCoroutines -----------------------------
(* Coroutines for TLC.  The liveness run leaves out what bears on neither the *)
(* waking of waiters nor the freeing of slots: inline calls, a second handle  *)
(* of a task, KitsuneResume, so that a paused coroutine goes on only when it  *)
(* is cancelled, and the two ways to take a result, which release the slot as *)
(* KitsuneReleaseResult does.                                                 *)
EXTENDS Coroutines

LiveNext == \/ Scheduler \/ Running
            \/ \E i \in Slot : \/ TasksNew(i) \/ TaskDispose(i) \/ TaskCancel(i)
                               \/ StartCoroutine(i, FALSE)
                               \/ ReleaseResult(i) \/ Cancel(i)
            \/ CancelMark \/ CancelStore \/ KitsuneInterrupt

LiveSpec == Init /\ [][LiveNext]_vars /\ SchedulerFairness
===============================================================================
