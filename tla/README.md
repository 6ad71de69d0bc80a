# Lua-Kitsune in TLA+

A verification development of the KitsuneEngine and of its modules with threads,
callbacks or remote state: TLA+ modules translated from `src/src/engine/` and
`src/src/modules/`, TLC runs that check them on small instances, and TLAPS proofs
for every value of the constants.
Abbreviations: KE = `src/src/engine/KitsuneEngine.cpp`, LT =
`src/src/modules/tasks/LuaTasks.cpp`, MG = `mongodb/LuaMongoDB.cpp`, HS =
`httpserver/LuaHttpServer.cpp`, RQ and RS = `httpserver/LuaHttpServerRequest.cpp`
and `...Response.cpp`, WS = `websocket/LuaWebSocket.cpp`, KC =
`kafka/LuaKafkaConsumer.cpp`, all five under `src/src/modules/`.

## The system

Lua-Kitsune embeds Lua 5.4 in a C API. One `KitsuneState` owns one `lua_State`
and one scheduler thread. Scripts run as Lua coroutines in up to 256 *slots*;
the scheduler resumes each active slot once per pass. Any number of host threads
call the C API: they start coroutines, exchange variables, collect results,
cancel, interrupt, wait, and shut the engine down. Native modules (HTTP, SQL,
Kafka, timers, ...) are C functions that scripts call; several own threads and
queues of their own.

| part | state it keeps | operations | interacts by |
|---|---|---|---|
| access handshake (KE 850-937, 1018-1055) | accessLock, pauseFlag, pausedEvent, resumeEvent | Acquire/ReleaseLuaAccess, the pause points, the Ticker | every API call that touches the `lua_State` |
| scheduler (KE 1036-1286) | slots, interrupt, currentCoroutineId | a pass, the sweep, the idle sleep | lua_resume; doneCV; workEvent |
| slots (KE 1780-1866, 2682-2921) | id, state, fireAndForget, apiOwned, luaRefCount, result/error, sleep and wait fields | acquire, fail, finish, collect, release, cancel, resume, free | slotsLock, but the scheduler stores states without it |
| inline calls (KE 2112-2647) | a slot with isInline; thread-local g_inlineExecution | RunInline, RunInlineTight | borrow the `lua_State` from the scheduler |
| Tasks module (LT) | a handle holds an id | New, Open, Dispose, Cancel, Resume, Wait, ConsumeResult, OnError | slots |
| shutdown (KE 4026-4149) | schedulerStop, schedulerDoneEvent, g_state | KitsuneCleanup | all of the above |
| KitsuneWait (KE 2929-2942) | doneMtx, doneCV | wait for all slots | notifications of whoever ends or frees a slot |
| deferred release (KE 157-177, 3029-3071) | a lock-free chain | KitsuneVariableFree, drain | host threads push, the owner of the `lua_State` drains |
| variable bridge (KE 3073-4024) | registry references, GCHandles | Get/SetVariable, userdata, iterators, GC hooks | access handshake |
| hook registry (KitsuneLuaDebug.cpp) | two hooks per lua_State | set, merge, inherit, remove | Ticker, debugger |
| memory manager (MemoryManager.cpp, Mem.cpp) | list of blocks, totals | alloc, realloc, free, leak count | everything |
| alive tokens (LuaAliveToken.cpp) | alive, timeout, parents | Tick, Link, Dispose | Sleep(token), most modules |
| MongoDB (MG) | a worker thread per connection, one operation at a time, two events, a cancel flag | Find, ..., Wait, GetResult, Cancel, Close | coroutines prepare and poll, the thread executes |
| HttpServer (HS, RQ, RS) | queue, senders, dispatched; Registry[con\*]; the evhttp_request behind each request | Accept, Send, Reject, Close, UpgradeToWebSocket, server:Close | libevent calls back during Accept; the disconnect handler is Lua |
| WebSocket (WS) | message queue, fragment buffer, selfRef | Connect, Poll, Read, Dispose, `__gc` | libevent's callbacks (server), curl (client) |
| Kafka consumer (KC) | librdkafka's handle, the pending message | Subscribe, Assign, Poll, Seek, Close | a consumer group at the broker |
| other modules with threads or queues | their own | Process, Stream, HttpClient, Redis, TCP, MCP, SQL clients | scripts |
| modules that compute | none | Decimal, UInt, DateTime, TimeSpan, Csv, Json, Base64, Ini, ... | scripts |

What is hard: the `lua_State` is handed between threads by a flag and two
auto-reset events; slot states are atomics that several threads store, mostly
without the lock; Lua code runs in the middle of engine functions (the Ticker
parks inside `lua_resume`, error handlers run inside `FinishCoroutine`); values
are read again after the lock that protected them was given up; shutdown races
with everything.

What makes each part correct:

- access handshake: one user of the `lua_State` at a time; no signal left over
  for a later request; every request is granted; a parked coroutine goes on.
- slots: a slot is freed or reused only after its coroutine ended, was cancelled
  or interrupted; the slot the scheduler works on is not changed under it; an
  outcome stays until it is taken or given up, and is handed over once;
  released and cancelled slots are freed; waiters wake.
- KitsuneWait: returns only when everything that was started before has ended;
  returns once nothing is left.
- shutdown: ends, and closes the state after its last use.
- deferred release: every variable is released once, with Lua access.
- MongoDB: the thread's operation stays while it works on it, each operation is
  freed once, results are whole, waiting coroutines go on, Close returns.
- HttpServer: each request's memory is freed once, by whichever of libevent, the
  reaping and the teardown comes to it; the handler hears of each request once.
- WebSocket: frames are handed over whole, in order and none is missing; readers return.
- Kafka consumer: nothing is committed before the program was done with it, and
  a program that goes on polling gets everything.
- hook registry: the engine's hook is never lost to the debugger's.
- tokens: a token is dead for ever once dead, and dies with any ancestor.

Components, their sources and whether they are modelled are listed in
`PROJECT.json`, as are the hazards, each at its line.

## Modules

| module | models | of |
|---|---|---|
| `LuaLock` | abstract: a resource with one holder | - |
| `LuaAccess` | the handshake, the scheduler's pause points and hook, inline calls with their yield windows, KitsuneInterrupt, KitsuneCleanup | KE 853-937, 1018-1286, 2131-2218, 4026-4108 |
| `LuaAccess_proofs` | inductive invariant and theorems | |
| `Coroutines` | slots, scheduler pass, error handlers, Tasks operations, C API without Lua access | KE 983-1012, 1036-1491, 1780-1943, 2112-2119, 2682-2942; LT |
| `Coroutines_proofs` | inductive invariant and theorems | |
| `AsyncLaunch` | Coroutines and KitsuneWait composed with a thread that starts coroutines and waits | KE 1868-1943 |
| `AsyncLaunch_proofs` | inductive invariant and theorems, also of `KitsuneWait` | |
| `KitsuneWait` | Coroutines composed with one waiting thread | KE 2929-2942 |
| `VariableChain` | KitsuneVariableFree, its chain and all drains, over several sessions | KE 157-177, 1039-1051, 2131-2263, 3029-3071, 3984-4001, 4026-4123 |
| `VariableChain_proofs` | inductive invariant and theorems | |
| `MongoWorker` | one connection: its worker thread and the Lua functions | MG 793-935, 1081-1236 |
| `MongoWorker_proofs` | inductive invariant and theorems | |
| `HttpServer` | the life of requests, from arrival to release | HS 77-375, 446-642, 676-927; RQ 160-188; RS |
| `HttpServer_proofs` | inductive invariant and theorems | |
| `WebSocket` | receiving, connecting, closing and collecting one WebSocket | WS 60-107, 225-265, 339-624, 719-817, 891-921 |
| `WebSocket_proofs` | inductive invariant and theorem | |
| `KafkaConsumer` | the consumers of a group on one partition, with the broker | KC 96-344, 409-454 |
| `KafkaConsumer_proofs` | inductive invariant and theorem | |
| `MCLuaAccess`, `MCCoroutines` | what TLC needs | |

### LuaAccess

`accessLock`, `pauseFlag`, `pausedEvent`, `resumeEvent`, `interrupt`,
`schedulerStop`, `schedulerDone`, `gState` are the fields of `KitsuneState` (and
`g_state`). `sched`, `caller`, `cleaner` are program counters: each label stands
before one access to a shared field, so that every interleaving of those accesses
is a behaviour. `site` says which pause point the scheduler is at: the top of
its loop, the loop over the slots, or the Ticker inside `lua_resume`. What the
slots hold is reduced to `slotsInUse`; which slot is resumed, and whether it
yields, finishes, reaches the hook or raises, is nondeterministic. `call`
distinguishes a bridge call from an inline call and the latter's yield window.
`workEvent` is left out, since it is only ever waited for with a 10 ms timeout.
KitsuneCleanup may come at any moment. Calls of the host that it overlaps go wrong
(KE 866, below), so that after the request of a shutdown the properties speak of the
states in which all host threads are outside (`AllOut`), and stay there as g_state is
gone. The refinement mapping `LuaHolder` is the thread whose program counter is in a
region that uses the `lua_State`; while a shutdown overlaps calls (`Overlap`) it is
nobody.

### Coroutines

`slots[i]` is the part of `KitsuneCoroutine` that decides its life. A pass is
split at every store that other threads can see; between two steps of the
scheduler the host operations that need no Lua access (KitsuneCancel,
KitsuneGetResult, KitsuneReleaseResult, KitsuneInterrupt) may happen, and at the
pause points those that do. KitsuneCancel is three steps, because the scheduler
stores states while KitsuneCancel holds slotsLock. `fate` is a history variable:
what became of each id, as the API promises it. `HandlerStartsTasks` says whether
error handlers call `Tasks.New`. The runs say no, and what happens otherwise at
capacity (KE 1010, below) is outside them.

Abstracted: results and errors to `none`, `value`, `error`; times to
nondeterminism (a sleeping coroutine may wake at any visit; a wait has a timeout
or not); names, resume values, didWork, registry references, OOM. `slots[]` has
all its entries from the start: growing the array and finding an unused entry
pick the same index.

### VariableChain

`head` is `g_pendingVariableChainHead`, `node` the memory of the chain's nodes;
a node is reused once freed, so that a compare_exchange may meet the address
again. A push is three steps (allocate, load the head, compare_exchange, which
may fail without reason), a drain one exchange and a step for each node. Lua
access is an instance of `LuaLock`, the abstract specification `LuaAccess`
implements; a caller takes and gives it where the code does.
`place` says who is responsible for a variable, `born` in which session's registry
its reference is; `before` is history: what was queued when KitsuneGC was called.
`DisposesReturn` is the host's part: every Dispose has returned when KitsuneCleanup
is called, and a reference the host still holds then (KitsuneNet asks it to hold
none, `KitsuneEngine.cs:2354`; a finalizer may come later) is freed before the
next KitsuneInit. Without it a push can come after the
last drain, and the next session releases the reference in its own registry
(`UnrefInOwnSession` fails; the other properties hold).

### AsyncLaunch, KitsuneWait

`KitsuneWait` EXTENDS `Coroutines` with a thread that looks at the slots, falls
asleep and is woken by `notify_all`; `AsyncLaunch` EXTENDS that with the thread's
other call, which starts a coroutine, gives up Lua access and then reads
`slot->id`. `waitedFor` and `returned` are history. Who frees a slot notifies
(`Notifies`), but for an inline call whose chunk does not load (`MayNotify`).

### MongoWorker

The fields of `LuaMongoWorker` and the two events are variables of their own;
`worker` is the thread's place, `mine` its local `op`. Lua code runs on one thread
at a time, so a Lua function is an action, but the worker may step between any two
Lua accesses to a shared field that it looks at (`RefuseEarly`/`RefuseLate`,
`Close` and its four steps, the continuations). `shared` says whether the script
uses the connection from several coroutines at once, and `killed` that a coroutine
was cancelled in the middle; two properties are about scripts that do not.
Documents, cursors and sessions are reduced to how an operation ended (`fate`); one
that was set up when its call raised an error, and never dispatched, is "setup"
(`RefuseLate`).

### HttpServer

`r[q]` joins `LuaHttpRequest`, its response, and the `evhttp_request` behind it;
`conn[k]` is a connection object, whose address is used again; `registry` is
`Registry[con*]`. `pc` is the step of AcceptCont; the disconnect handler is a
state of its own (`handler`) in which any script action may happen, so that it may
answer, upgrade or close the server in the middle of a reaping or a callback.
libevent's part (external) is when it reports a completed reply and the end of a
connection. A handler that closes the server inside event_base_loop is left out
(see below).

### WebSocket

One connection, of either kind. `wire` is what the peer has sent, in pieces;
`queue` and `frag` hold messages as the pieces they were put together from, which
is what `WholeInOrder` compares with the peer's frames. It is about frames: curl's
CURLWS_CONT is not looked at, so that of a message that the peer sends as several
frames each is handed over as a message. A coroutine in Read takes a
turn at a time; `loop` is who is in the loop over WsClientRecvOne. `conn` is what
the library holds: after Dispose it may go on draining with the userdata as its
argument. Ping frames are frames like others. Left out: frames that are sent, the
keepalive ping, failing allocations.

### KafkaConsumer

`mode`, `fetching`, `position` and `msg` of each consumer; `log`, `committed`,
`member` and the commit requests on their way (`commits`) are the broker's, and
external as are rebalances, timeouts and crashes. A commit request may arrive
late, twice, after another one, or never. `processed` is history: a program is
done with a message when it calls Poll again. `skipped` is what an Assign or a Seek
passed over, which is the program's wish. Offsets count from one the group has
committed, so the keywords of KafkaOffsetFromStr are a choice among offsets.

## Runs

| run | module, configuration | bounds | shows |
|---|---|---|---|
| `handshake` | `LuaAccess.cfg` | 2 host threads, a cleanup at any moment | exclusion, no phantom signals, progress, shutdown ends, refinement of `LuaLock` |
| `slots` | `Coroutines.cfg` | 2 slots, 3 ids, 1 handle per slot | slot safety |
| `slots_live` | `Coroutines_live.cfg` | 2 slots, 2 ids | freeing and waking |
| `wait` | `AsyncLaunch.cfg` | 1 slot, 3 ids | what KitsuneWait waits for; whose id an asynchronous start may get wrong |
| `variables` | `VariableChain.cfg` | 2 host threads, 2 variables, 2 nodes, 2 sessions | no variable lost, freed twice, released without access or in a foreign registry; all freed at last |
| `mongo` | `MongoWorker.cfg` | 2 coroutines, 2 operations, sharing or not | the worker's operation is kept, freed once, cut short only on demand; coroutines and Close return |
| `http` | `HttpServer.cfg` | 2 connections, 2 requests | requests are freed once and reported once |
| `websocket` | `WebSocket.cfg` | 2 readers, 3 frames in up to 3 pieces, the second above the size | whole frames in order; readers of a server's WebSocket return |
| `kafka` | `KafkaConsumer.cfg` | 2 consumers, 2 messages, 2 moves, 2 faults | at least once, and everything some day |
| `wait_returns` | `KitsuneWait_WaitReturns.cfg` | 1 slot | a disagreement, below |
| `mongo_result` | `MongoWorker_GetResult.cfg` | 1 coroutine, 2 operations | a disagreement, below |
| `websocket_poll` | `WebSocket_PollReturns.cfg` | 1 reader, 1 frame in up to 2 pieces | a disagreement, below |

Bounds: two host threads are one that owns accessLock and one that waits for it or
is in the yield window of an inline call. Only the owner is past its Lock step
(`OwnsLock`), so that a third would be one more that waits; the theorems are of any number. Two slots give a running coroutine and one that waits for it,
is cancelled, or collected meanwhile; the third id reuses a slot while the other
is in use, which is what reuse can get wrong. `MaxId` bounds only how often slots
are acquired. The liveness run of the slots leaves out inline calls and second
handles (`LiveNext`), which neither free nor wait.

Fairness: threads run (weak fairness of each thread's steps of the protocol; a
`std::mutex` is not fair, so waiting for it is promised no more than that);
`KitsuneCleanup`, once begun, goes on; bridge calls end. `ScriptFairness` asks
of inline scripts that they end or yield at last, and of scripts that none
catches the hook's error for ever. In the slots: the scheduler runs, the Ticker
preempts a coroutine while another slot is in use, slotsLock's holder goes on,
and hosts do not call KitsuneCancel for ever: a cancel at the right moment of
every pass turns a RELEASED slot into an ABORTED one each time.

In `VariableChain` two variables and nodes are the least with which one thread
pushes onto another's node while a drain frees it; a second session is what a left
over node can harm. Fairness: a thread in a drain or in a call goes on, the
scheduler gets Lua access again and again (hosts do not ask at every moment it is
free), and a coroutine does not run for ever: one that never yields, alone in the
engine, keeps the scheduler from its next drain.

The Mongo worker and its server go on, and the scheduler resumes suspended
coroutines. In `HttpServer` the Accept coroutine is resumed for ever and handlers
return; a reply is written or its connection fails, and a stream ends, at one poll
or another (strong fairness: a poll is only an opportunity). In `WebSocket` the
Accept pump goes on, readers get their turns, and the loop of Poll runs on; that a
close frame drains is due only once the peer has left. In `KafkaConsumer` the
program polls in a loop, opens and subscribes again what was closed, and the broker
notices who left; commits and rebalances are not fair. Faults and moves are
bounded, since nothing is promised under endless ones.

Bounds of the modules: two Mongo operations are one that a cut or refused call
left behind and the one after it, two coroutines one in a continuation and one
that interferes. Two HTTP requests can come on one connection after another, on one
address, or on two. Three frames with a big one between two others show loss,
order and mixing of pieces, and three pieces (`MaxPieces`) have one that is neither the
first nor the last of its frame; the queue's bound (`MaxFrames` + 2) is met only by the
endless loop of `websocket_poll`, where it stands for any length. Two consumers are
one that was cut off with a message pending and one that took over.

### Where the code and its documentation disagree

Three runs check a sentence of a document or header that the code does not keep;
`PROJECT.json` quotes it.

| run | what happens |
|---|---|
| `wait_returns` | KitsuneWait misses the last notification and sleeps on. Without any race it does so too if what it waits for last is an inline call whose chunk does not load: that slot is freed without a notification (KE 2290, 2321) |
| `mongo_result` | an error in a query's table, limit or skip comes after SetupOp stored the operation; GetResult then returns `{}, nil` (Count: `0, nil`) where the documentation says `nil, "no active operation"` |
| `websocket_poll` | Poll ("non-blocking") and Read of a client's WebSocket loop for ever once the peer is gone: WsClientRecvOne returns true for each error |

Others were met while modelling and have no run of their own. The models contain
the behaviour (the properties are stated so that they are true of the code), unless
marked as left out:

- KE 866: during a shutdown AcquireLuaAccess admits a thread while the scheduler is
  still in its pass (comments at 859 and 1041 say otherwise), and a thread that
  looked at schedulerStop too early waits for ever, holding accessLock (863).
- KE 1351: SleepContinuation overwrites a cancel (comment at 1435).
- KE 1010: an error handler that starts a task at capacity gets the slot that is
  being finished; the new task is released before it ran. The error that the Ticker
  raises in a cancelled coroutine reaches the error handler, although
  `src/kitsuneengine-lua-functions.md:4430` says none fires for a cancel.
- KE 1211: the interrupt is cleared by a count of used slots, which results nobody
  collects keep above 0.
- KE 1873: an asynchronous start returns 0 or another coroutine's id if its own was
  swept already (`KitsuneEngine.h:332`); `IdWhileKept` says when it cannot.
- KE 887: the hook skips inline calls, so that an inline script that loops is not
  interrupted by a shutdown (`ScriptFairness` excludes it).
- KE 1840: `nextId` is cut to 32 bits (left out; ids are bounded by `MaxId`).
- KE 4115: a variable freed after KitsuneCleanup's last drain is released in the
  next session (`DisposesReturn` excludes it).
- LT 114: Tasks.Open clears fireAndForget of a slot the C API started, and Dispose
  then skips it because it is apiOwned (a slot nobody releases).
- MG 1125: Cancel after the worker has finished leaves its result for GetResult
  (`src/kitsuneengine-lua-functions.md:3326`, `src/KitsuneNet.Tests/MongoTests.cs:268`).
- RQ 181: a request whose client leaves while its reply is being written is not
  freed. RS 223: a response is used after server:Close, which frees its request.
- HS 283: a disconnect handler that closes the server inside event_base_loop frees
  what libevent is working on (left out). HS 711: the pass over the senders reads a
  node that a stream's Lua callback may have freed (left out: streams do not call
  back into the server).
- WS 426: Dispose may forget a connection that is still draining and release
  selfRef; EvwsCloseCb then writes to a userdata that may be collected (comment at
  268). selfRef of a server's WebSocket that was not disposed is never released by
  Poll or Read, as the comment at 264 says it is, so it is never collected. A
  server's Close is queued after connected is cleared, and a reader may get it
  although the documentation says Read does not hand it over.
- KC 298: the pending message is stored before it was handed to Lua, and belongs to
  the consumer and not to the coroutine (left out). KC 336: Seek pushes an error
  text after it destroyed the error.

## Proofs

Every safety invariant that a passing run checks, and the refinement of `LuaLock`, is
a theorem for every value of the constants. Each module of proofs states the
inductive invariant in named parts and proves that the initial states have it, that
every action keeps it (one lemma for each action or group of actions), and that it
implies the properties. Each invariant was checked with TLC before it was proved.

`LuaAccess_proofs`, for every set of host threads (assumption
`ThreadAssumption`: the threads are distinct):

- `TypeCorrect`: `Spec => []TypeOK`.
- `Exclusive`: `Spec => []ExclusiveAccess`, and `NoPhantom`:
  `Spec => []NoPhantomSignal`. The two are proved together. Exclusion alone is
  not inductive: a second host thread could enter on a pausedEvent that was
  meant for the first. The invariant adds that only the owner of accessLock is
  past its Lock step (`OwnsLock`, part of `TypeOK`) and that `pauseFlag`, the events, the scheduler's place and
  the owner's place agree (a set pausedEvent, or a thread in Lua, means the
  scheduler waits; a set resumeEvent means the owner is about to unlock or nobody
  asks).
- `LockImplemented`: `Spec => ImplementsLock`. By exclusion the holder of the abstract
  lock is the one thread whose place uses the `lua_State`; each step lets at most one
  thread in or out of such a place (`OneMoves`), so that it maps to a Take, a Give, or a
  stutter. Of calls that overlap a shutdown nothing is claimed (`LuaHolder` is nobody):
  a thread admitted then meets the scheduler (KE 866). A host that shuts down with no
  call in progress has none.

`Coroutines_proofs`, for every number of slots, ids and handles
(`BoundAssumption`):

- `TypeCorrect`: `Spec => []TypeOK`.
- `SlotKept`: if error handlers start no tasks, `Spec => []RunningSlotKept`. It
  needs that ids of used slots differ and are at most `nextId`, that inline
  slots are WORKING or ABORTED, that a slot without an id is NOT_USED, and that a
  KitsuneCancel in progress refers to a used slot that nobody can free meanwhile.
- `NoneLost`, `OutcomesKept`, `ValuesDeliveredOnce`: `NoCoroutineLost`, `OutcomeKept`
  and `DeliveredOnce`, also if error handlers start no tasks. The invariant
  (`FateInv`) says for each fate of an id what its slot may look like (`SlotFate`),
  and that an id whose fate is still open is held by a slot (`Held`); the steps of
  the pass and of KitsuneCancel that store a state after they looked at the slot are
  the ones it is needed for.

The condition `~HandlerStartsTasks` of these theorems is one on the scripts: the
documentation does not forbid `Tasks.New` in an error handler, and KE 1010 above is
what happens with it when all slots are in use.

`AsyncLaunch_proofs`, on the invariants of `Coroutines_proofs`:

- `IdOfOwnCoroutine`: `IdWhileKept`, and `WaitIsThorough`: `WaitedForAll`, if error
  handlers start no tasks. What is over stays over (`Onwards`), so that what
  KitsuneWait found when it looked is still true when it returns.
- `CompositionsKeepSlots`: `(LaunchSpec => Spec) /\ (WaitSpec => Spec)`: the
  compositions add nothing to the slots, and the theorems of `Coroutines_proofs`
  hold in them.

`VariableChain_proofs`, for every set of threads, variables and nodes
(`ChainAssumption`), with or without `DisposesReturn` but for the last:

- `TypeCorrect`: `Spec => []TypeOK`, that a thread has a list in hand only in a drain
  (`InScope`) included.
- `NoneLost`: `Spec => []QueuedOnce`. It needs that what a KitsuneVariableFree
  has in hand (variable, node) is its own, and that a thread outside a drain has no
  list. The proof goes by the three ways to touch the chain: an exchange, a push,
  the freeing of a list's first node (`ExchangeKeeps`, `LinkKeeps`, `DrainKeeps`).
- `UnrefSafe`: `Spec => []UnrefWithAccess`, from who may have Lua access at
  which stage of a shutdown.
- `GCIsThorough`: `Spec => []GCSeesAll`. What was queued when KitsuneGC was called is
  led to by the head until the drain's exchange, by its list from then on, and is
  freed when the list is empty. That one node leads to another (`Leads`) is said by
  the sets of nodes that are closed under `next`, so that no induction over the chain
  is needed.
- `UnrefIsCurrent`: `DisposesReturn => (Spec => []UnrefInOwnSession)`. Nothing is
  left on the chain after the last drain of a session (`LeftInv`), and what is used
  or queued was born in the current session (`BornInv`).

`MongoWorker_proofs`, for any set of coroutines and number of operations
(`MongoAssumption`): `TypeCorrect` (`TypeOK`), `WorkerKeepsOperation`
(`OperationKept`), `FreedOnce` (`OwnedOrFreed`), `CutWasAsked` (`CutOnlyIfAsked`) and
`ResultsWhole` (`WholeResults`), from one invariant. An operation that was handed over
is with the event or with the worker and not with both (`HandedOver`); while Close has
not finished, the connection is open (`Closing`); a set cancel flag, or an outcome
that is a cut, was asked for that operation (`Asked`); and on a connection that is not
shared a cut operation is followed by nobody else until the cancelling coroutine has
released it (`Unshared`). While an operation that was handed over is unfinished, the state is
RUNNING, so that GetResult does not take it (`Begun`).

`HttpServer_proofs`, for any number of requests and set of connections
(`HttpAssumption`): `TypeCorrect` (`TypeOK`), `FreesAreUnique` (`FreedOnce`),
`GuardIsEnough` (`GuardSuffices`), `ReportsAreUnique` (`ReportedOnce`) and
`RegistryIsCurrent` (`RegistryCurrent`). The invariant relates, for each request, the
memory and what still points to it (`Memory`, `Pointer`), the list it is on
(`Listed`), its reply (`Replied`) and its report (`Reported`), and for each connection
the request that it waits for and its entry in the registry (`GoodConn`). The disconnect handler
is where it is delicate: the request that is being reaped has left its list
and is alive until the handler has returned (`Handling`).

`WebSocket_proofs`, for any readers, number of frames and of pieces, whichever frames
are too big (`WebSocketAssumption`):

- `WholeFrames`: `Spec => []WholeInOrder`. The property compares the messages with the
  peer's frames; the invariant says what is between the two. `k` frames have been
  received whole, the fragment buffer holds the first pieces of frame `k + 1`, `wire`
  goes on with the next piece (`Stream`), to the last frame the peer has sent as long
  as it is there, and the messages with what was refused make up the first `k` frames
  (`ReceivedTo`).

`KafkaConsumer_proofs`, for any number of consumers, messages, moves and faults
(`KafkaAssumption`):

- `CommittedWasProcessed`: `Spec => []AtLeastOnce`. The property says nothing of the
  commits on their way and of what a consumer has in hand. The invariant adds that a
  commit request is of a message that is done with and has nothing open below it, that
  nothing below a pending message is open, and that below the position of a consumer
  that fetches only its pending message may be. That a Poll commits before it fetches is
  what keeps it.

Only model-checked are the properties that rest on fairness (that requests are granted,
coroutines and readers go on, Close, KitsuneWait and KitsuneCleanup return, slots and
variables are freed, requests are reported, messages are processed): tlapm has no rules
for ENABLED, which the proof of a weak fairness argument needs.

## Not modelled, and the plan

Most of the repository is other people's code: DuckDB, SQLite, litehtml, ImGui,
libvorbis, Lua, curl and more are a million lines, and the engine with its modules
(`src/src/`) about 46 000. The models are of the part of those in which the order of
events matters. Not modelled, each with its reason in `PROJECT.json`:

- vendored libraries, the ImGui executable, the C# bindings;
- modules that are single calls into a library or the operating system;
- the memory manager, which no build compiles (USEMEMORYMANAGER is never defined);
- the hook registry and the alive tokens: each call is one step under one lock, or a
  pure function of a chain, and no property over several steps was found that their
  own text does not make plain;
- the pure modules (Decimal, DateTime, Csv, Base64, Bencode, ...): unit tests reach
  them well;
- HttpClient, TCP, Redis, MCP, Process, Stream and the SQL clients: the same patterns as the
  four modules above (a continuation polls a library or a thread until it is done).

KitsuneCleanup's freeing of slots is one step of `LuaAccess` (`CloseState`), not of
`Coroutines`.

Next, in this order:

1. The safety cores of the liveness properties: that no thread of the handshake waits
   for an event that nobody is left to set, that a PAUSED or sleeping slot can be
   resumed, that a waiting Mongo coroutine has a worker that will signal it.
2. Properties of steps: a slot is freed only by those whom its owner allows, a
   KitsuneCancel in progress ends with the coroutine it began with.
3. `KitsuneWait` and `LuaAccess` joined, so that a wait during a shutdown is covered.
4. Process and Stream, whose reader threads fill a buffer that Lua empties.
