---------------------------- MODULE VariableChain ----------------------------
(***************************************************************************)
(* KitsuneVariableFree and the chain of variables that wait for luaL_unref *)
(* (KitsuneEngine.cpp).  A thread that has no Lua access may not release a *)
(* registry reference, so it pushes the variable onto a lock-free chain.   *)
(* Whoever has Lua access anyway takes the whole chain and walks it: the   *)
(* scheduler in each pass, an inline call at its end, KitsuneGC, and       *)
(* KitsuneCleanup, once before and once after it closes the state.         *)
(*                                                                         *)
(* Lua access is the resource of LuaLock, which LuaAccess implements.  The *)
(* variables modelled are those that hold a registry reference; the others *)
(* are freed on the spot.  Nodes and variables are reused once freed.      *)
(***************************************************************************)
EXTENDS Naturals

CONSTANTS
  Callers,         (* host threads, finalizer threads among them *)
  SchedulerThread,
  CleanupThread,   (* the thread that calls KitsuneInit and KitsuneCleanup *)
  Nobody,
  Vars,            (* KitsuneVariables with a registry reference *)
  Nodes,           (* KitsuneVariableChain nodes; none left is out of memory *)
  NULL,
  MaxSession,      (* bound: how often the engine is initialised *)
  DisposesReturn   (* the host waits for its Dispose calls before KitsuneCleanup, and makes
                      the last of them before the next KitsuneInit *)

Threads == Callers \cup {SchedulerThread, CleanupThread}

ASSUME ChainAssumption ==
  /\ SchedulerThread \notin Callers /\ CleanupThread \notin Callers
  /\ SchedulerThread # CleanupThread /\ Nobody \notin Threads
  /\ NULL \notin Nodes \cup Vars
  /\ MaxSession \in Nat /\ DisposesReturn \in BOOLEAN

VARIABLES
  session,  (* KitsuneInit calls so far *)
  up,       (* g_state is set *)
  open,     (* state->L is set *)
  owner,    (* the thread that has Lua access *)
  pc,
  head,     (* g_pendingVariableChainHead *)
  node,     (* the nodes' fields *)
  used,     (* allocated nodes *)
  mine,     (* the node that a KitsuneVariableFree is about to push *)
  seen,     (* its local variable head *)
  list,     (* the rest of the chain that a drain has taken *)
  arg,      (* the argument of KitsuneVariableFree *)
  place,    (* where a variable is *)
  born,     (* the session whose registry holds its reference *)
  before    (* history: what was queued when the caller called KitsuneGC *)

engine == <<session, up, open>>
push   == <<mine, seen, arg>>
vars   == <<engine, owner, pc, head, node, used, push, list, place, born, before>>

Access == INSTANCE LuaLock WITH holder <- owner

Places == {"none",     (* not allocated *)
           "held",     (* the host has the pointer *)
           "kept",     (* an object of the Lua state has it and frees it in __gc *)
           "freeing",  (* KitsuneVariableFree has it *)
           "queued"}   (* it hangs on the chain or on a list that was taken *)

Labels == {"idle", "test", "load", "cas", "oom", "inline", "window", "direct", "gc", "collect",
           "pass", "run", "parked", "done", "stopping", "lock", "close",
           "drain", "tight", "gcdrain", "drain1", "drain2", "drain3"}

Init == /\ session = 0 /\ up = FALSE /\ open = FALSE /\ owner = Nobody
        /\ pc = [t \in Threads |-> IF t = SchedulerThread THEN "done" ELSE "idle"]
        /\ head = NULL /\ used = {}
        /\ node = [n \in Nodes |-> [variable |-> NULL, next |-> NULL]]
        /\ mine = [c \in Callers |-> NULL] /\ seen = [c \in Callers |-> NULL]
        /\ arg = [c \in Callers |-> NULL]  /\ list = [t \in Threads |-> NULL]
        /\ place = [v \in Vars |-> "none"] /\ born = [v \in Vars |-> 0]
        /\ before = [c \in Callers |-> {}]

Goto(t, l) == pc' = [pc EXCEPT ![t] = l]

(* kitsune_free of a variable; KitsuneGC no longer has to wait for it *)
Drop(v) == /\ place' = [place EXCEPT ![v] = "none"]
           /\ before' = [c \in Callers |-> before[c] \ {v}]

-----------------------------------------------------------------------------
(* DrainPendingVariableChain *)

(* Mutant: KitsuneCleanup does not drain. *)
ExchangeUnlessCleanup(t) == IF t = CleanupThread THEN UNCHANGED <<list, head>>
                            ELSE list' = [list EXCEPT ![t] = head] /\ head' = NULL

(* exchange(nullptr): thread t takes all that is on the chain. *)
Exchange(t) == list' = [list EXCEPT ![t] = head] /\ head' = NULL

(* One turn of its loop: FreeVariableData, then the variable and the node are freed. *)
DrainOne(t) == /\ list[t] # NULL
               /\ Drop(node[list[t]].variable)
               /\ used' = used \ {list[t]}
               /\ list' = [list EXCEPT ![t] = node[list[t]].next]
               /\ UNCHANGED <<engine, owner, pc, head, node, push, born>>

(* Mutant: the loop gives up before the end of the list, to keep a pass short. *)
Drained_Early(t, from, to) == pc[t] = from /\ Goto(t, to)

(* The loop has ended; what thread t does next. *)
Drained(t, from, to) == pc[t] = from /\ list[t] = NULL /\ Goto(t, to)

-----------------------------------------------------------------------------
(* Host threads *)

(* A call that gives the host a reference: KitsuneGetVariable, KitsuneGetResult... *)
Obtain(c, v) == /\ pc[c] = "idle" /\ up /\ owner = Nobody /\ place[v] = "none"
                /\ place' = [place EXCEPT ![v] = "held"]
                /\ born' = [born EXCEPT ![v] = session]
                /\ UNCHANGED <<engine, owner, pc, head, node, used, push, list, before>>

(* KitsuneVariableFree of a thread without Lua access. *)
VariableFree(c, v) == /\ pc[c] = "idle" /\ place[v] = "held"
                      /\ place' = [place EXCEPT ![v] = "freeing"]
                      /\ arg' = [arg EXCEPT ![c] = v] /\ Goto(c, "test")
                      /\ UNCHANGED <<engine, owner, head, node, used, mine, seen, list, born, before>>

(* There is no engine: FreeVariableData(var, nullptr). *)
FreeWithoutState(c) == /\ pc[c] = "test" /\ ~(up /\ open)
                       /\ Drop(arg[c]) /\ Goto(c, "idle")
                       /\ arg' = [arg EXCEPT ![c] = NULL]
                       /\ UNCHANGED <<engine, owner, head, node, used, mine, seen, list, born>>

AllocateNode(c) == /\ pc[c] = "test" /\ up /\ open
                   /\ \E n \in Nodes \ used :
                        /\ used' = used \cup {n} /\ mine' = [mine EXCEPT ![c] = n]
                        /\ node' = [node EXCEPT ![n].variable = arg[c]]
                   /\ Goto(c, "load")
                   /\ UNCHANGED <<engine, owner, head, seen, arg, list, place, born, before>>

LoadHead(c) == /\ pc[c] = "load"
               /\ seen' = [seen EXCEPT ![c] = head] /\ Goto(c, "cas")
               /\ UNCHANGED <<engine, owner, head, node, used, mine, arg, list, place, born, before>>

(* The caller's node is on the chain, behind the head it saw. *)
Link(c) == /\ node' = [node EXCEPT ![mine[c]].next = seen[c]]
           /\ head' = mine[c]
           /\ place' = [place EXCEPT ![arg[c]] = "queued"]
           /\ mine' = [mine EXCEPT ![c] = NULL]
           /\ seen' = [seen EXCEPT ![c] = NULL]
           /\ arg' = [arg EXCEPT ![c] = NULL] /\ Goto(c, "idle")
           /\ UNCHANGED <<engine, owner, used, list, born, before>>

(* Mutant: The push is a plain store. *)
StoreHead(c) == pc[c] = "cas" /\ Link(c)

CompareExchange(c) == pc[c] = "cas" /\ head = seen[c] /\ Link(c)

(* Another thread changed the head, or the weak exchange failed for no reason. *)
Retry(c) == /\ pc[c] = "cas"
            /\ node' = [node EXCEPT ![mine[c]].next = seen[c]]
            /\ seen' = [seen EXCEPT ![c] = head]
            /\ UNCHANGED <<engine, owner, pc, head, used, mine, arg, list, place, born, before>>

(* No memory for a node: the caller waits for Lua access and frees at once. *)
NoMemory(c) == /\ pc[c] = "test" /\ up /\ open /\ Goto(c, "oom")
               /\ UNCHANGED <<engine, owner, head, node, used, push, list, place, born, before>>

(* Mutant: Without memory the reference is released without Lua access. *)
FreeUnlocked(c) == /\ pc[c] = "oom" /\ up /\ Goto(c, "direct")
                   /\ UNCHANGED <<engine, owner, head, node, used, push, list, place, born, before>>

AcquireToFree(c) == /\ pc[c] = "oom" /\ up /\ Access!Take(c) /\ Goto(c, "direct")
                    /\ UNCHANGED <<engine, head, node, used, push, list, place, born, before>>

FreeAndRelease(c) == /\ pc[c] = "direct" /\ Drop(arg[c])
                     /\ arg' = [arg EXCEPT ![c] = NULL]
                     /\ Access!Give(c) /\ Goto(c, "idle")
                     /\ UNCHANGED <<engine, head, node, used, mine, seen, list, born>>

(* KitsuneGC: the chain first, so that what hung on it can be collected. *)
CallGC(c) == /\ pc[c] = "idle" /\ up
             /\ before' = [before EXCEPT ![c] = {v \in Vars : place[v] = "queued"}]
             /\ Goto(c, "gc")
             /\ UNCHANGED <<engine, owner, head, node, used, push, list, place, born>>

(* Mutant: KitsuneGC collects first. *)
AcquireToCollect(c) == /\ pc[c] = "gc" /\ up /\ Access!Take(c) /\ Goto(c, "collect")
                       /\ UNCHANGED <<engine, head, node, used, push, list, place, born, before>>

AcquireForGC(c) == /\ pc[c] = "gc" /\ up /\ Access!Take(c) /\ Goto(c, "gcdrain")
                   /\ Exchange(c)
                   /\ UNCHANGED <<engine, node, used, push, place, born, before>>

Collect(c) == /\ pc[c] = "collect" /\ Access!Give(c) /\ Goto(c, "idle")
              /\ before' = [before EXCEPT ![c] = {}]
              /\ UNCHANGED <<engine, head, node, used, push, list, place, born>>

GCDrained(c) == /\ Drained(c, "gcdrain", "collect")
                /\ UNCHANGED <<engine, owner, head, node, used, push, list, place, born, before>>

(* RunInline: a script on the host's thread, which gives Lua access back while *)
(* the script sleeps, and drains before it ends.                               *)
StartInline(c) == /\ pc[c] \in {"idle", "window"} /\ up /\ Access!Take(c)
                  /\ Goto(c, "inline")
                  /\ UNCHANGED <<engine, head, node, used, push, list, place, born, before>>

YieldInline(c) == /\ pc[c] = "inline" /\ Access!Give(c) /\ Goto(c, "window")
                  /\ UNCHANGED <<engine, head, node, used, push, list, place, born, before>>

EndInline(c) == /\ pc[c] = "inline" /\ Goto(c, "drain") /\ Exchange(c)
                /\ UNCHANGED <<engine, owner, node, used, push, place, born, before>>

ReleaseInline(c) == /\ Drained(c, "drain", "idle") /\ Access!Give(c)
                    /\ UNCHANGED <<engine, head, node, used, push, list, place, born, before>>

-----------------------------------------------------------------------------
(* Scripts: of the scheduler's coroutines, and of inline calls *)

InScript(t) == pc[t] \in {"run", "inline"}

(* A userdata object gets a variable of its own, which its __gc will free. *)
Keep(t, v) == /\ InScript(t) /\ place[v] = "none"
              /\ place' = [place EXCEPT ![v] = "kept"]
              /\ born' = [born EXCEPT ![v] = session]
              /\ UNCHANGED <<engine, owner, pc, head, node, used, push, list, before>>

(* KitsuneVariableFree of a thread that has Lua access: no detour. *)
FreeDirect(t, v) == /\ InScript(t) /\ place[v] \in {"held", "kept"} /\ Drop(v)
                    /\ UNCHANGED <<engine, owner, pc, head, node, used, push, list, born>>

(* RunInlineTight, a call from within a callback, drains when it ends. *)
EndTight(t) == /\ InScript(t) /\ Goto(t, "tight") /\ Exchange(t)
               /\ UNCHANGED <<engine, owner, node, used, push, place, born, before>>

TightDrained(t) == /\ Drained(t, "tight", IF t = SchedulerThread THEN "run" ELSE "inline")
                   /\ UNCHANGED <<engine, owner, head, node, used, push, list, place, born, before>>

-----------------------------------------------------------------------------
(* The scheduler *)

(* Mutant: The scheduler does not drain. *)
PassWithoutDrain == /\ pc[SchedulerThread] = "pass" /\ up
                    /\ Access!Take(SchedulerThread) /\ Goto(SchedulerThread, "run")
                    /\ UNCHANGED <<engine, head, node, used, push, list, place, born, before>>

(* SchedulerProc: the pause requests have been served, the pass begins. *)
BeginPass == /\ pc[SchedulerThread] = "pass" /\ up
             /\ Access!Take(SchedulerThread)
             /\ Goto(SchedulerThread, "drain") /\ Exchange(SchedulerThread)
             /\ UNCHANGED <<engine, node, used, push, place, born, before>>

PassDrained == /\ Drained(SchedulerThread, "drain", "run")
               /\ UNCHANGED <<engine, owner, head, node, used, push, list, place, born, before>>

(* The Ticker parks a coroutine for a thread that asks for Lua access. *)
Park == /\ pc[SchedulerThread] = "run" /\ Access!Give(SchedulerThread)
        /\ Goto(SchedulerThread, "parked")
        /\ UNCHANGED <<engine, head, node, used, push, list, place, born, before>>

Unpark == /\ pc[SchedulerThread] = "parked" /\ Access!Take(SchedulerThread)
          /\ Goto(SchedulerThread, "run")
          /\ UNCHANGED <<engine, head, node, used, push, list, place, born, before>>

EndPass == /\ pc[SchedulerThread] = "run" /\ Access!Give(SchedulerThread)
           /\ Goto(SchedulerThread, "pass")
           /\ UNCHANGED <<engine, head, node, used, push, list, place, born, before>>

SchedulerStops == /\ pc[SchedulerThread] = "pass" /\ ~up
                  /\ Goto(SchedulerThread, "done")
                  /\ UNCHANGED <<engine, owner, head, node, used, push, list, place, born, before>>

-----------------------------------------------------------------------------
(* KitsuneInit and KitsuneCleanup *)

(* A host that disposes of its variables does so before it starts the engine again. *)
KitsuneInit == /\ pc[CleanupThread] = "idle" /\ ~up /\ session < MaxSession
               /\ DisposesReturn => \A v \in Vars : place[v] \notin {"held", "freeing"}
               /\ session' = session + 1 /\ up' = TRUE /\ open' = TRUE
               /\ Goto(SchedulerThread, "pass")
               /\ UNCHANGED <<owner, head, node, used, push, list, place, born, before>>

(* The host ends its calls first, but a KitsuneVariableFree only if it waits for *)
(* it.  What it still holds then, a finalizer frees later, without the engine.  *)
MayCleanUp == \A c \in Callers :
  pc[c] \in {"idle"} \cup IF DisposesReturn THEN {} ELSE {"test", "load", "cas"}

(* g_state = nullptr, schedulerStop; then the wait for schedulerDoneEvent. *)
KitsuneCleanup == /\ pc[CleanupThread] = "idle" /\ up /\ MayCleanUp
                  /\ up' = FALSE /\ Goto(CleanupThread, "stopping")
                  /\ UNCHANGED <<session, open, owner, head, node, used, push, list, place, born, before>>

(* The scheduler is done; the slots are freed, and the chain is drained.  *)
(* Nothing is acquired: nobody else is left that could use the Lua state. *)
FirstDrain == /\ pc[CleanupThread] = "stopping" /\ pc[SchedulerThread] = "done"
              /\ Goto(CleanupThread, "drain1") /\ Exchange(CleanupThread)
              /\ UNCHANGED <<engine, owner, node, used, push, place, born, before>>

SecondDrain == /\ Drained(CleanupThread, "drain1", "drain2") /\ Exchange(CleanupThread)
               /\ UNCHANGED <<engine, owner, node, used, push, place, born, before>>

(* lua_gc and lua_close: every __gc runs; KitsuneVariableFree finds no g_state. *)
CloseState == /\ Drained(CleanupThread, "drain2", "close")
              /\ open' = FALSE
              /\ place' = [v \in Vars |-> IF place[v] = "kept" THEN "none" ELSE place[v]]
              /\ UNCHANGED <<session, up, owner, head, node, used, push, list, born, before>>

(* What was pushed meanwhile is freed without luaL_unref. *)
LastDrain == /\ pc[CleanupThread] = "close" /\ Goto(CleanupThread, "drain3")
             /\ Exchange(CleanupThread)
             /\ UNCHANGED <<engine, owner, node, used, push, place, born, before>>

CleanupReturns == /\ Drained(CleanupThread, "drain3", "idle")
                  /\ UNCHANGED <<engine, owner, head, node, used, push, list, place, born, before>>

-----------------------------------------------------------------------------
Scheduler == BeginPass \/ PassDrained \/ EndPass \/ SchedulerStops \/ Unpark

Caller(c) == \/ \E v \in Vars : Obtain(c, v) \/ VariableFree(c, v)
             \/ FreeWithoutState(c) \/ AllocateNode(c) \/ LoadHead(c) \/ CompareExchange(c)
             \/ Retry(c) \/ NoMemory(c) \/ AcquireToFree(c) \/ FreeAndRelease(c)
             \/ CallGC(c) \/ AcquireForGC(c) \/ Collect(c)
             \/ StartInline(c) \/ YieldInline(c) \/ EndInline(c) \/ ReleaseInline(c)
             \/ GCDrained(c)

Script(t) == EndTight(t) \/ \E v \in Vars : Keep(t, v) \/ FreeDirect(t, v)

Drain(t) == DrainOne(t) \/ TightDrained(t)

Cleanup == \/ KitsuneCleanup \/ FirstDrain \/ SecondDrain \/ CloseState
           \/ LastDrain \/ CleanupReturns

Next == \/ \E c \in Callers : Caller(c)
        \/ \E t \in Threads : Script(t) \/ Drain(t)
        \/ Scheduler \/ Park \/ KitsuneInit \/ Cleanup

Spec == Init /\ [][Next]_vars

(* Threads run, a host thread in a call ends it (KitsuneGC, a script), and a   *)
(* coroutine that runs gives the thread back to the scheduler.                *)
Returns(c) == \/ FreeAndRelease(c) \/ Collect(c) \/ EndInline(c) \/ ReleaseInline(c)
              \/ GCDrained(c)

Fairness == /\ \A t \in Threads : WF_vars(Drain(t))
            /\ \A c \in Callers : WF_vars(Returns(c))
            /\ WF_vars(PassDrained) /\ WF_vars(SchedulerStops)
            /\ SF_vars(BeginPass) /\ SF_vars(Unpark) /\ SF_vars(EndPass)
            /\ WF_vars(FirstDrain \/ SecondDrain \/ CloseState \/ LastDrain \/ CleanupReturns)

FairSpec == Spec /\ Fairness

-----------------------------------------------------------------------------
Ranges == /\ session \in 0 .. MaxSession /\ up \in BOOLEAN /\ open \in BOOLEAN
          /\ owner \in Threads \cup {Nobody} /\ pc \in [Threads -> Labels]
          /\ head \in Nodes \cup {NULL} /\ used \subseteq Nodes
          /\ node \in [Nodes -> [variable : Vars \cup {NULL}, next : Nodes \cup {NULL}]]
          /\ mine \in [Callers -> Nodes \cup {NULL}]
          /\ seen \in [Callers -> Nodes \cup {NULL}]
          /\ arg \in [Callers -> Vars \cup {NULL}] /\ list \in [Threads -> Nodes \cup {NULL}]
          /\ place \in [Vars -> Places] /\ born \in [Vars -> 0 .. MaxSession]
          /\ before \in [Callers -> SUBSET Vars]

DrainLabels == {"drain", "tight", "gcdrain", "drain1", "drain2", "drain3"}

(* A local variable is set while its function runs: a list that was taken in a *)
(* drain, the argument of KitsuneVariableFree, and its node until it is pushed. *)
InScope == /\ \A t \in Threads : list[t] # NULL => pc[t] \in DrainLabels
           /\ \A c \in Callers :
                /\ arg[c] # NULL <=> pc[c] \in {"test", "load", "cas", "oom", "direct"}
                /\ mine[c] # NULL <=> pc[c] \in {"load", "cas"}

TypeOK == Ranges /\ InScope

(* The nodes that were pushed and not yet freed. *)
Linked == used \ {mine[c] : c \in Callers}

(* The pointers to such nodes (the head, the lists that drains took, the next *)
(* fields) lead nowhere else, and no two of them lead to the same node.       *)
PointersDiffer ==
  /\ {head} \cup {list[t] : t \in Threads} \cup {node[m].next : m \in Linked}
       \subseteq Linked \cup {NULL}
  /\ \A t \in Threads : list[t] # NULL =>
       list[t] # head /\ \A u \in Threads \ {t} : list[u] # list[t]
  /\ \A m \in Linked : node[m].next # NULL =>
       /\ node[m].next # head
       /\ \A t \in Threads : node[m].next # list[t]
       /\ \A k \in Linked \ {m} : node[m].next # node[k].next

(* A pointer leads to every linked node. *)
NodesReached == \A n \in Linked : \/ n = head
                                  \/ \E t \in Threads : n = list[t]
                                  \/ \E m \in Linked : n = node[m].next

(* Linked nodes carry the queued variables, each its own. *)
NodesCarryQueued ==
  /\ \A n \in Linked : node[n].variable \in Vars /\ place[node[n].variable] = "queued"
  /\ \A n, m \in Linked : n # m => node[n].variable # node[m].variable
  /\ \A v \in Vars : place[v] = "queued" => \E n \in Linked : node[n].variable = v

(* However host threads push while others drain, no queued variable is lost  *)
(* and none is freed twice: KitsuneVariableFree and the drains keep the chain *)
(* and the lists taken from it apart.                                        *)
QueuedOnce == PointersDiffer /\ NodesReached /\ NodesCarryQueued

(* The thread is at a place from which it may call luaL_unref. *)
MayUnref(t) == \/ pc[t] \in {"direct", "run", "inline"}
               \/ list[t] # NULL /\ pc[t] # "drain3"

(* luaL_unref is only ever called by the one thread that has Lua access, and  *)
(* by KitsuneCleanup only when no thread can get it.                          *)
UnrefWithAccess ==
  \A t \in Threads : MayUnref(t) =>
    /\ open
    /\ IF t = CleanupThread THEN owner = Nobody /\ ~up ELSE owner = t

(* A collection of KitsuneGC finds nothing that was queued before the call    *)
(* still anchored: "drains any pending deferred frees [...] before the cycle". *)
GCSeesAll == \A c \in Callers : pc[c] = "collect" => before[c] = {}

(* luaL_unref gets a reference of the registry it came from, not of an engine *)
(* that was cleaned up before: the host disposes its references first.        *)
UnrefInOwnSession ==
  \A t \in Threads : list[t] # NULL /\ pc[t] # "drain3" =>
    LET v == node[list[t]].variable IN v \in Vars /\ born[v] = session

(* What is queued is freed at last. *)
QueuedIsFreed == \A v \in Vars : place[v] = "queued" ~> place[v] # "queued"

=============================================================================
