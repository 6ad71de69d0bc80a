----------------------------- MODULE MongoWorker -----------------------------
(***************************************************************************)
(* One MongoDB connection (LuaMongoDB.cpp): the thread that owns it, the   *)
(* operation that Lua prepares and hands to that thread, and the Lua       *)
(* functions that wait for it, cancel it, take its result or close the     *)
(* connection.  Lua code runs on one thread at a time and is suspended at  *)
(* each yield; between any two accesses of Lua to a shared field the       *)
(* worker may take steps.                                                  *)
(*                                                                         *)
(* Documents are reduced to what became of an operation (fate).  The       *)
(* anchor in the registry is left out: the stack of the suspended          *)
(* coroutine keeps the connection from the collector as well.              *)
(***************************************************************************)
EXTENDS Naturals, FiniteSets

CONSTANTS
  Coros,   (* Lua coroutines that use the connection *)
  MaxOps   (* bound: operations that are set up *)

ASSUME MongoAssumption == MaxOps \in Nat

Ops  == 1..MaxOps
NoOp == 0

VARIABLES
  open,       (* m->worker is set *)
  state,      (* LuaMongoWorker: state, stop, cancelled, op *)
  stop,
  cancelled,
  op,
  workReady,  (* PlatformEvents: set, and reset by the wait that returns *)
  workDone,
  worker,     (* what the worker thread does next *)
  mine,       (* its local variable op *)
  outcome,    (* how its last operation ended *)
  cont,       (* the continuation a coroutine is suspended with *)
  closing,    (* where MongoDB_GC is *)
  token,      (* the AliveToken of the connection; "alive" stands for none as well *)
  lastOp,     (* operations set up so far *)
  fate,       (* what became of an operation *)
  freed,      (* operations that were freed *)
  delivered,  (* operations whose result GetResult returned; NoOp is a NULL it read *)
  askedOff,   (* history: operations that Cancel, Close or a dead token asked to end *)
  shared,     (* coroutines call while another is suspended on the connection *)
  killed      (* history: a coroutine was cancelled while it was suspended here *)

workerVars == <<worker, mine, outcome>>
events     == <<workReady, workDone>>
opVars     == <<op, lastOp, fate, freed, delivered>>
vars == <<open, state, stop, cancelled, events, workerVars, cont, closing, token, opVars,
          askedOff, shared, killed>>

Fates == {"none", "setup", "dispatched", "complete", "cut", "failed"}

Init == /\ open = TRUE /\ state = "IDLE" /\ stop = FALSE /\ cancelled = FALSE /\ op = NoOp
        /\ workReady = FALSE /\ workDone = FALSE
        /\ worker = "wait" /\ mine = NoOp /\ outcome = "none"
        /\ cont = [c \in Coros |-> "none"] /\ closing = "no" /\ token = "alive"
        /\ lastOp = 0 /\ fate = [o \in Ops |-> "none"]
        /\ freed = {} /\ delivered = {} /\ askedOff = {}
        /\ shared \in BOOLEAN /\ killed = FALSE

-----------------------------------------------------------------------------
(* The worker thread *)

(* workReady.Wait() returns *)
WorkerWakes ==
  /\ worker = "wait" /\ workReady
  /\ workReady' = FALSE
  /\ worker' = "woken"
  /\ UNCHANGED <<open, state, stop, cancelled, workDone, mine, outcome, cont, closing, token,
                 opVars, askedOff, shared, killed>>

(* It looks at stop, and takes the operation *)
WorkerTakes ==
  /\ worker = "woken"
  /\ IF stop THEN worker' = "exit" /\ mine' = mine
             ELSE worker' = "test" /\ mine' = op
  /\ UNCHANGED <<open, state, stop, cancelled, events, outcome, cont, closing, token, opVars,
                 askedOff, shared, killed>>

Worker(next, how) ==
  /\ worker' = next /\ outcome' = how
  /\ UNCHANGED <<open, state, stop, cancelled, events, mine, cont, closing, token, opVars,
                 askedOff, shared, killed>>

(* Mutant: an operation that was cancelled before it began is skipped, and its state left *)
WorkerTests_Skips == worker = "test" /\ IF cancelled THEN Worker("signal", "cut")
                                                     ELSE Worker("run", "none")

(* A cancel that came before the work began *)
WorkerTests == worker = "test" /\ IF cancelled THEN Worker("store", "cut")
                                               ELSE Worker("run", "none")

(* The work.  The loop over a cursor ends when it meets the cancel, the last document or an error
   of the server ("broken"), and is left when there is no memory for a document; any other operation
   is one call to the server, which a cancel does not touch. *)
WorkerRuns ==
  /\ worker = "run"
  /\ \/ cancelled /\ Worker("ended", "cut")
     \/ \E how \in {"complete", "broken"} : ~cancelled /\ Worker("ended", how)
     \/ \E how \in {"complete", "failed"} : Worker("store", how)

(* Mutant: an error that ended the loop is not looked for *)
WorkerEndsCursor_AnyEnd == worker = "ended" /\ Worker("store", outcome)

(* After the loop: an error counts unless a cancel came meanwhile *)
WorkerEndsCursor ==
  /\ worker = "ended"
  /\ Worker("store", IF outcome # "broken" THEN outcome
                     ELSE IF cancelled THEN "cut" ELSE "failed")

WorkerStoresState ==
  /\ worker = "store"
  /\ fate' = [fate EXCEPT ![mine] = outcome]
  /\ state' = IF outcome = "failed" THEN "ERROR" ELSE "DONE"
  /\ worker' = "signal"
  /\ UNCHANGED <<open, stop, cancelled, events, mine, outcome, cont, closing, token, op, lastOp, freed, delivered, askedOff, shared, killed>>

WorkerSignals ==
  /\ worker = "signal"
  /\ workDone' = TRUE
  /\ worker' = "wait" /\ mine' = NoOp /\ outcome' = "none"
  /\ UNCHANGED <<open, state, stop, cancelled, workReady, cont, closing, token, opVars,
                 askedOff, shared, killed>>

WorkerStep == \/ WorkerWakes \/ WorkerTakes \/ WorkerTests \/ WorkerRuns \/ WorkerEndsCursor
              \/ WorkerStoresState \/ WorkerSignals

-----------------------------------------------------------------------------
(* Lua *)

LuaRuns == open /\ closing = "no"

(* A coroutine calls a function of the connection *)
Calls(c) == /\ LuaRuns /\ cont[c] = "none"
            /\ ~shared => \A d \in Coros : cont[d] = "none"

Suspend(c, k) == cont' = [cont EXCEPT ![c] = k]

(* Mutant: the operation that nobody took is forgotten, not freed *)
Freed_Forgets == IF op = NoOp \/ state = "DONE" THEN freed ELSE freed \cup {op}

(* FreeOp, if there is an operation *)
Freed == IF op = NoOp THEN freed ELSE freed \cup {op}

(* MONGO_GUARD lets a call pass: what a former operation left is freed *)
MayStart == state # "RUNNING"

(* Mutant: DispatchOp leaves a cancel of the former operation *)
Uncancel_Never == UNCHANGED cancelled
Uncancel == cancelled' = FALSE

(* Find, InsertOne, ... : MONGO_GUARD, SetupOp, DispatchOp *)
StartOp(c) ==
  /\ Calls(c) /\ MayStart /\ lastOp < MaxOps
  /\ freed' = Freed
  /\ lastOp' = lastOp + 1 /\ op' = lastOp + 1
  /\ fate' = [fate EXCEPT ![lastOp + 1] = "dispatched"]
  /\ Uncancel /\ state' = "RUNNING" /\ workReady' = TRUE
  /\ UNCHANGED <<open, stop, workDone, workerVars, cont, closing, token, delivered, askedOff,
                 shared, killed>>

(* The same, but an argument raises an error before SetupOp *)
RefuseEarly(c) ==
  /\ Calls(c) /\ MayStart /\ op # NoOp
  /\ freed' = Freed /\ op' = NoOp
  /\ UNCHANGED <<open, state, stop, cancelled, events, workerVars, cont, closing, token, lastOp, fate, delivered, askedOff, shared, killed>>

(* The same, but a table cannot be converted, or a limit or skip is no integer: SetupOp has set
   w->op already, and the state is left as it was *)
RefuseLate(c) ==
  /\ Calls(c) /\ MayStart /\ lastOp < MaxOps
  /\ freed' = Freed
  /\ lastOp' = lastOp + 1 /\ op' = lastOp + 1
  /\ fate' = [fate EXCEPT ![lastOp + 1] = "setup"]
  /\ UNCHANGED <<open, state, stop, cancelled, events, workerVars, cont, closing, token,
                 delivered, askedOff, shared, killed>>

(* PushOpResult; with no operation it reads through a NULL pointer *)
PushOpResult ==
  /\ delivered' = delivered \cup {op}
  /\ freed' = Freed
  /\ op' = NoOp /\ state' = "IDLE"

HasOp == op # NoOp

(* Wait and GetResult suspend the coroutine while the operation runs *)
WaitOrGet(c, k) ==
  /\ Calls(c) /\ state = "RUNNING" /\ (k = "get" => HasOp)
  /\ Suspend(c, k)
  /\ UNCHANGED <<open, state, stop, cancelled, events, workerVars, closing, token, opVars,
                 askedOff, shared, killed>>

(* GetResult with a result at hand *)
GetResult(c) ==
  /\ Calls(c) /\ state # "RUNNING" /\ HasOp
  /\ PushOpResult
  /\ UNCHANGED <<open, stop, cancelled, events, workerVars, cont, closing, token, lastOp, fate, askedOff, shared, killed>>

(* cancelled.store(true); the coroutine waits for the worker in MongoCancelCont *)
CancelOp(c) ==
  /\ cancelled' = TRUE
  /\ askedOff' = askedOff \cup {op}
  /\ Suspend(c, "cancel")
  /\ UNCHANGED <<open, state, stop, events, workerVars, closing, token, opVars, shared, killed>>

Cancel(c) == Calls(c) /\ state = "RUNNING" /\ CancelOp(c)

(* With nothing running Cancel returns at once, and leaves a result that is at hand *)
CancelTooLate(c) ==
  /\ Calls(c) /\ state \in {"DONE", "ERROR"} /\ op # NoOp
  /\ askedOff' = askedOff \cup {op}
  /\ UNCHANGED <<open, state, stop, cancelled, events, workerVars, cont, closing, token, opVars,
                 shared, killed>>

-----------------------------------------------------------------------------
(* The continuations, which the scheduler resumes *)

Resumed(c, k) == LuaRuns /\ cont[c] = k

(* MongoWaitCont and MongoGetResultCont while the operation runs: they look at the token *)
TokenDied(c) ==
  /\ \E k \in {"wait", "get"} : Resumed(c, k)
  /\ state = "RUNNING" /\ token = "dead"
  /\ CancelOp(c)

WaitCont(c) ==
  /\ Resumed(c, "wait") /\ state # "RUNNING"
  /\ Suspend(c, "none")
  /\ UNCHANGED <<open, state, stop, cancelled, events, workerVars, closing, token, opVars,
                 askedOff, shared, killed>>

GetResultCont(c) ==
  /\ Resumed(c, "get") /\ state # "RUNNING"
  /\ PushOpResult
  /\ Suspend(c, "none")
  /\ UNCHANGED <<open, stop, cancelled, events, workerVars, closing, token, lastOp, fate,
                 askedOff, shared, killed>>

(* Mutant: a cancel does not wait for the worker *)
WorkerIsDone_Assumed == TRUE
WorkerIsDone == state # "RUNNING"

(* Mutant: the cancelled operation is left for the next call to free *)
CancelCont_Leaves(c) ==
  /\ Resumed(c, "cancel") /\ WorkerIsDone
  /\ state' = "IDLE"
  /\ Suspend(c, "none")
  /\ UNCHANGED <<open, stop, cancelled, events, workerVars, closing, token, opVars, askedOff,
                 shared, killed>>

CancelCont(c) ==
  /\ Resumed(c, "cancel") /\ WorkerIsDone
  /\ freed' = Freed
  /\ op' = NoOp /\ state' = "IDLE"
  /\ Suspend(c, "none")
  /\ UNCHANGED <<open, stop, cancelled, events, workerVars, closing, token, lastOp, fate,
                 delivered, askedOff, shared, killed>>

Continue(c) == WaitCont(c) \/ GetResultCont(c) \/ CancelCont(c) \/ TokenDied(c)

(* The engine cancels a coroutine that is suspended here *)
Kill(c) ==
  /\ LuaRuns /\ cont[c] # "none"
  /\ Suspend(c, "none") /\ killed' = TRUE
  /\ UNCHANGED <<open, state, stop, cancelled, events, workerVars, closing, token, opVars,
                 askedOff, shared>>

(* SetAliveToken replaces a dead token or detaches it; the token is disposed *)
SetAliveToken(c) ==
  /\ Calls(c) /\ token = "dead"
  /\ token' = "alive"
  /\ UNCHANGED <<open, state, stop, cancelled, events, workerVars, cont, closing, opVars,
                 askedOff, shared, killed>>

DisposeToken ==
  /\ LuaRuns /\ token = "alive"
  /\ token' = "dead"
  /\ UNCHANGED <<open, state, stop, cancelled, events, workerVars, cont, closing, opVars,
                 askedOff, shared, killed>>

-----------------------------------------------------------------------------
(* MongoDB_GC, which Close calls.  It does not yield. *)

Close(c) ==
  /\ Calls(c)
  /\ IF state = "RUNNING"
       THEN /\ cancelled' = TRUE /\ askedOff' = askedOff \cup {op}
            /\ closing' = "stop" /\ stop' = stop
       ELSE /\ stop' = TRUE /\ closing' = "ready"
            /\ UNCHANGED <<cancelled, askedOff>>
  /\ UNCHANGED <<open, state, events, workerVars, cont, token, opVars, shared, killed>>

CloseStops ==
  /\ closing = "stop"
  /\ stop' = TRUE /\ closing' = "waitDone"
  /\ UNCHANGED <<open, state, cancelled, events, workerVars, cont, token, opVars, askedOff,
                 shared, killed>>

(* workDone.WaitFor(15000): the signal, be it of an earlier operation, or the timeout *)
CloseWaits ==
  /\ closing = "waitDone"
  /\ workDone' = FALSE
  /\ closing' = "ready"
  /\ UNCHANGED <<open, state, stop, cancelled, workReady, workerVars, cont, token, opVars,
                 askedOff, shared, killed>>

(* Mutant: the worker is not woken *)
CloseWakes_Not == closing = "ready" /\ closing' = "join"
                  /\ UNCHANGED <<open, state, stop, cancelled, events, workerVars, cont, token,
                                 opVars, askedOff, shared, killed>>

CloseWakes ==
  /\ closing = "ready"
  /\ workReady' = TRUE /\ closing' = "join"
  /\ UNCHANGED <<open, state, stop, cancelled, workDone, workerVars, cont, token, opVars,
                 askedOff, shared, killed>>

Joined == worker = "exit"

CloseJoins ==
  /\ closing = "join" /\ Joined
  /\ freed' = Freed /\ op' = NoOp
  /\ open' = FALSE /\ closing' = "no"
  /\ UNCHANGED <<state, stop, cancelled, events, workerVars, cont, token, lastOp, fate,
                 delivered, askedOff, shared, killed>>

CloseStep == CloseStops \/ CloseWaits \/ CloseWakes \/ CloseJoins

-----------------------------------------------------------------------------
LuaCalls(c) ==
  \/ StartOp(c) \/ \E k \in {"wait", "get"} : WaitOrGet(c, k)
  \/ RefuseEarly(c) \/ RefuseLate(c) \/ GetResult(c) \/ Cancel(c) \/ CancelTooLate(c)
  \/ Close(c) \/ SetAliveToken(c)

Next == \/ WorkerStep \/ CloseStep \/ DisposeToken
        \/ \E c \in Coros : LuaCalls(c) \/ Continue(c) \/ Kill(c)

Spec == Init /\ [][Next]_vars

(* The worker thread runs and the server answers (weak fairness of each of its steps); the
   scheduler resumes suspended coroutines; a Close goes on. *)
FairSpec == Spec /\ WF_vars(WorkerStep) /\ WF_vars(CloseStep)
                 /\ \A c \in Coros : WF_vars(Continue(c))

-----------------------------------------------------------------------------
TypeOK ==
  /\ {open, stop, cancelled, workReady, workDone, shared, killed} \subseteq BOOLEAN
  /\ state \in {"IDLE", "RUNNING", "DONE", "ERROR"}
  /\ lastOp \in 0..MaxOps /\ {op, mine} \subseteq 0..lastOp
  /\ worker \in {"wait", "woken", "test", "run", "ended", "store", "signal", "exit"}
  /\ outcome \in Fates \cup {"broken"}
  /\ cont \in [Coros -> {"none", "wait", "get", "cancel"}]
  /\ closing \in {"no", "stop", "waitDone", "ready", "join"}
  /\ token \in {"alive", "dead"}
  /\ fate \in [Ops -> Fates]
  /\ freed \subseteq 1..lastOp /\ delivered \subseteq 0..lastOp /\ askedOff \subseteq 0..lastOp

(* From the worker's look at w->op until it has stored the state, the operation is neither freed
   nor replaced, and the connection is deleted only after the thread has ended, however many
   coroutines call, cancel, are killed or close the connection. *)
OperationKept ==
  /\ worker \in {"test", "run", "ended", "store"} => mine = op /\ mine \in Ops \ freed
  /\ ~open => worker = "exit"

(* Every operation that was set up is w->op or has been freed, and is freed once. *)
OwnedOrFreed == \A o \in 1..lastOp : (o = op) # (o \in freed)

(* The worker leaves an operation unfinished only if somebody asked to end that operation. *)
CutOnlyIfAsked == \A o \in Ops : fate[o] = "cut" => o \in askedOff

(* A script that uses its connection from one coroutine at a time, and is not cancelled in the
   middle, gets from GetResult what the worker made of an operation, a whole result or an error:
   never what a cancelled operation had gathered, never an operation the worker still has to end,
   and never through a w->op that is gone.  The exception is an operation whose call raised an
   error after SetupOp ("setup"), see DispatchedOnly. *)
WholeResults ==
  ~shared /\ ~killed =>
    \A o \in delivered : o \in Ops /\ fate[o] \in {"complete", "failed", "setup"}

(* Documented of GetResult (src/kitsuneengine-lua-functions.md:3326) and violated by the code: a
   call with nothing dispatched returns nil and "no active operation".  An operation that was set
   up and never dispatched is handed over as an empty result. *)
DispatchedOnly == \A o \in delivered \cap Ops : fate[o] # "setup"

(* A suspended coroutine that does not share the connection is let go on. *)
CoroutineResumes == \A c \in Coros : ~shared /\ cont[c] # "none" ~> cont[c] = "none"

(* Close does not wait for ever for a thread that waits for work. *)
CloseReturns == closing # "no" ~> closing = "no"
=============================================================================
