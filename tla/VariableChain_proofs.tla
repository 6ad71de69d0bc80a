------------------------- MODULE VariableChain_proofs -------------------------
(***************************************************************************)
(* Proofs about VariableChain for any set of threads, variables and nodes: *)
(* type correctness, that no queued variable is lost or freed twice, that  *)
(* luaL_unref is called with Lua access only, that a KitsuneGC sees what   *)
(* was disposed before it, and that no reference is released in the        *)
(* registry of a later session, if the host waits for its Dispose calls.   *)
(***************************************************************************)
EXTENDS VariableChain, TLAPS

CallerLabels == {"idle", "test", "load", "cas", "oom", "direct", "inline", "window",
                 "gc", "gcdrain", "collect", "drain", "tight"}
SchedulerLabels == {"pass", "drain", "run", "tight", "parked", "done"}
CleanupLabels == {"idle", "stopping", "drain1", "drain2", "close", "drain3"}

(* The thread has Lua access. *)
OwnerLabels == {"direct", "inline", "gcdrain", "collect", "run", "drain", "tight"}

(* Every thread is in its own code, and a list is only walked in a drain. *)
PlaceInv ==
  /\ \A c \in Callers : pc[c] \in CallerLabels
  /\ pc[SchedulerThread] \in SchedulerLabels
  /\ pc[CleanupThread] \in CleanupLabels
  /\ \A t \in Threads : list[t] # NULL => pc[t] \in DrainLabels

(* What a KitsuneVariableFree has in hand is its own. *)
LocalInv ==
  /\ \A c \in Callers : arg[c] # NULL <=> pc[c] \in {"test", "load", "cas", "oom", "direct"}
  /\ \A c \in Callers : arg[c] # NULL => place[arg[c]] = "freeing"
  /\ \A c, d \in Callers : c # d /\ arg[c] # NULL => arg[c] # arg[d]
  /\ \A c \in Callers : mine[c] # NULL <=> pc[c] \in {"load", "cas"}
  /\ \A c \in Callers : mine[c] # NULL => mine[c] \in used /\ node[mine[c]].variable = arg[c]
  /\ \A c, d \in Callers : c # d /\ mine[c] # NULL => mine[c] # mine[d]

(* Who has Lua access, and how far a shutdown has come. *)
AccessInv ==
  /\ \A t \in Threads : pc[t] \in OwnerLabels <=> owner = t
  /\ up => open /\ pc[CleanupThread] = "idle"
  /\ pc[CleanupThread] \in {"stopping", "drain1", "drain2"} => open
  /\ ~up => \A c \in Callers : pc[c] \in {"idle", "test", "load", "cas"}
  /\ ~up /\ pc[CleanupThread] # "stopping" => pc[SchedulerThread] = "done"

Inv == Ranges /\ PlaceInv /\ LocalInv /\ AccessInv /\ QueuedOnce

------------------------------------------------------------------------------
(* Nothing is allocated and no engine runs at first. *)
LEMMA InitInv == Init => Inv
<1> SUFFICES ASSUME Init PROVE Inv
  OBVIOUS
<1> USE ChainAssumption DEF Init, Threads
<1>1. Ranges
  <2>1. session \in 0 .. MaxSession /\ born \in [Vars -> 0 .. MaxSession]
    OBVIOUS
  <2>2. node \in [Nodes -> [variable : Vars \cup {NULL}, next : Nodes \cup {NULL}]]
    OBVIOUS
  <2>3. pc \in [Threads -> Labels] /\ place \in [Vars -> Places]
    BY DEF Labels, Places
  <2> QED
    BY <2>1, <2>2, <2>3 DEF Ranges
<1>2. PlaceInv /\ LocalInv
  BY DEF PlaceInv, LocalInv, CallerLabels, SchedulerLabels, CleanupLabels
<1>3. AccessInv
  BY DEF AccessInv, OwnerLabels
<1>4. QueuedOnce
  BY DEF QueuedOnce, PointersDiffer, NodesReached, NodesCarryQueued, Linked
<1> QED
  BY <1>1, <1>2, <1>3, <1>4 DEF Inv

(* Every step keeps the types. *)
LEMMA TypeNext == Ranges /\ [Next]_vars => Ranges'
<1> SUFFICES ASSUME Ranges, [Next]_vars PROVE Ranges'
  OBVIOUS
<1> USE DEF Ranges, engine, push
<1>1. CASE \E c \in Callers : Caller(c)
  <2> PICK c \in Callers : Caller(c)
    BY <1>1
  <2> c \in Threads
    BY DEF Threads
  <2> USE DEF Goto, Drop, Exchange, Drained, Labels, Places
  <2>1. CASE \E v \in Vars : Obtain(c, v) \/ VariableFree(c, v)
    BY <2>1 DEF Obtain, VariableFree
  <2>2. CASE FreeWithoutState(c) \/ NoMemory(c)
    BY <2>2 DEF FreeWithoutState, NoMemory
  <2>3. CASE AllocateNode(c)
    BY <2>3 DEF AllocateNode
  <2>4. CASE LoadHead(c)
    BY <2>4 DEF LoadHead
  <2>5. CASE CompareExchange(c)
    BY <2>5 DEF CompareExchange, Link
  <2>6. CASE Retry(c)
    BY <2>6 DEF Retry
  <2>7. CASE AcquireToFree(c) \/ FreeAndRelease(c)
    BY <2>7 DEF AcquireToFree, FreeAndRelease, Access!Take, Access!Give
  <2>8. CASE CallGC(c) \/ AcquireForGC(c) \/ GCDrained(c) \/ Collect(c)
    BY <2>8 DEF CallGC, AcquireForGC, GCDrained, Collect, Access!Take, Access!Give
  <2>9. CASE StartInline(c) \/ YieldInline(c) \/ EndInline(c) \/ ReleaseInline(c)
    BY <2>9 DEF StartInline, YieldInline, EndInline, ReleaseInline, Access!Take, Access!Give
  <2> QED
    BY <2>1, <2>2, <2>3, <2>4, <2>5, <2>6, <2>7, <2>8, <2>9 DEF Caller
<1>2. ASSUME NEW t \in Threads, Script(t) \/ Drain(t) PROVE Ranges'
  <2> USE DEF Goto, Drop, Exchange, Drained, Labels, Places
  <2>1. CASE Script(t)
    BY <2>1 DEF Script, EndTight, Keep, FreeDirect
  <2>2. CASE DrainOne(t)
    BY <2>2 DEF DrainOne
  <2>3. CASE TightDrained(t)
    BY <2>3 DEF TightDrained
  <2> QED
    BY <1>2, <2>1, <2>2, <2>3 DEF Drain
<1>3. CASE Scheduler \/ Park
  BY <1>3 DEF Scheduler, Park, BeginPass, PassDrained, EndPass, SchedulerStops, Unpark,
     Goto, Exchange, Drained, Labels, Threads, Access!Take, Access!Give
<1>4. CASE KitsuneInit
  BY <1>4, ChainAssumption DEF KitsuneInit, Goto, Labels, Threads
<1>5. CASE CloseState
  <2>1. place' \in [Vars -> Places]
    BY <1>5 DEF CloseState, Places
  <2> QED
    BY <1>5, <2>1 DEF CloseState, Goto, Drained, Labels, Threads
<1>6. CASE KitsuneCleanup \/ FirstDrain \/ SecondDrain \/ LastDrain \/ CleanupReturns
  <2> USE DEF Goto, Exchange, Drained, Labels, Threads
  <2>1. CASE KitsuneCleanup
    BY <2>1 DEF KitsuneCleanup
  <2>3. CASE FirstDrain
    BY <2>3 DEF FirstDrain
  <2>2. CASE SecondDrain \/ LastDrain \/ CleanupReturns
    BY <2>2 DEF SecondDrain, LastDrain, CleanupReturns
  <2> QED
    BY <1>6, <2>1, <2>2, <2>3
<1>7. CASE UNCHANGED vars
  BY <1>7 DEF vars
<1> QED
  BY <1>1, <1>2, <1>3, <1>4, <1>5, <1>6, <1>7 DEF Next, Cleanup

(* Every thread stays in its own code, and leaves a drain when its list is at *)
(* the end.                                                                   *)
LEMMA PlaceNext == Ranges /\ PlaceInv /\ AccessInv /\ [Next]_vars => PlaceInv'
<1> SUFFICES ASSUME pc \in [Threads -> Labels], list \in [Threads -> Nodes \cup {NULL}],
                    PlaceInv, AccessInv, [Next]_vars
             PROVE PlaceInv'
  BY DEF Ranges
<1> SchedulerThread # CleanupThread /\ {SchedulerThread, CleanupThread} \subseteq Threads
    /\ \A c \in Callers : c \in Threads /\ c # SchedulerThread /\ c # CleanupThread
  BY ChainAssumption DEF Threads
<1> USE DEF engine, push, PlaceInv, CallerLabels, SchedulerLabels, CleanupLabels, DrainLabels
<1>1. ASSUME NEW c \in Callers, Caller(c) PROVE PlaceInv'
  <2> USE DEF Goto, Drop, Exchange, Drained
  <2>1. CASE \E v \in Vars : Obtain(c, v) \/ VariableFree(c, v)
    BY <2>1 DEF Obtain, VariableFree
  <2>2. CASE FreeWithoutState(c) \/ NoMemory(c) \/ AllocateNode(c) \/ LoadHead(c)
    BY <2>2 DEF FreeWithoutState, NoMemory, AllocateNode, LoadHead
  <2>3. CASE CompareExchange(c) \/ Retry(c)
    BY <2>3 DEF CompareExchange, Link, Retry
  <2>4. CASE AcquireToFree(c) \/ FreeAndRelease(c)
    BY <2>4 DEF AcquireToFree, FreeAndRelease
  <2>5. CASE CallGC(c) \/ AcquireForGC(c) \/ GCDrained(c) \/ Collect(c)
    BY <2>5 DEF CallGC, AcquireForGC, GCDrained, Collect
  <2>6. CASE StartInline(c) \/ YieldInline(c) \/ EndInline(c) \/ ReleaseInline(c)
    BY <2>6 DEF StartInline, YieldInline, EndInline, ReleaseInline
  <2> QED
    BY <1>1, <2>1, <2>2, <2>3, <2>4, <2>5, <2>6 DEF Caller
<1>2. ASSUME NEW t \in Threads, Script(t) \/ Drain(t) PROVE PlaceInv'
  <2> USE DEF Goto, Drop, Exchange, Drained, Threads
  <2>1. CASE Script(t)
    BY <2>1 DEF Script, EndTight, Keep, FreeDirect, InScript
  <2>2. CASE DrainOne(t)
    BY <2>2 DEF DrainOne
  <2>3. CASE TightDrained(t)
    BY <2>3 DEF TightDrained
  <2> QED
    BY <1>2, <2>1, <2>2, <2>3 DEF Drain
<1>3. CASE Scheduler \/ Park
  BY <1>3 DEF Scheduler, Park, BeginPass, PassDrained, EndPass, SchedulerStops, Unpark,
     Goto, Exchange, Drained, Threads
<1>4. CASE KitsuneInit \/ Cleanup
  <2> USE DEF Goto, Exchange, Drained, Threads
  <2>1. CASE KitsuneInit \/ KitsuneCleanup
    BY <2>1 DEF KitsuneInit, KitsuneCleanup, AccessInv
  <2>3. CASE CloseState \/ CleanupReturns
    BY <2>3 DEF CloseState, CleanupReturns
  <2>2. CASE FirstDrain \/ SecondDrain \/ LastDrain
    BY <2>2 DEF FirstDrain, SecondDrain, LastDrain
  <2> QED
    BY <1>4, <2>1, <2>2, <2>3 DEF Cleanup
<1>5. CASE UNCHANGED vars
  BY <1>5 DEF vars
<1> QED
  BY <1>1, <1>2, <1>3, <1>4, <1>5 DEF Next

(* Nobody takes Lua access from the thread that has it, and in a shutdown     *)
(* nobody but the scheduler still has it.                                     *)
LEMMA AccessNext == Ranges /\ PlaceInv /\ AccessInv /\ [Next]_vars => AccessInv'
<1> SUFFICES ASSUME pc \in [Threads -> Labels], owner \in Threads \cup {Nobody},
                    up \in BOOLEAN, open \in BOOLEAN,
                    PlaceInv, AccessInv, [Next]_vars
             PROVE AccessInv'
  BY DEF Ranges
<1> SchedulerThread # CleanupThread /\ {SchedulerThread, CleanupThread} \subseteq Threads
    /\ Nobody \notin Threads
    /\ \A c \in Callers : c \in Threads /\ c # SchedulerThread /\ c # CleanupThread
  BY ChainAssumption DEF Threads
<1> USE DEF engine, push, PlaceInv, CallerLabels, SchedulerLabels,
        CleanupLabels, OwnerLabels, AccessInv, Goto, Drained, Access!Take, Access!Give
<1>1. ASSUME NEW c \in Callers, Caller(c) PROVE AccessInv'
  <2>1. CASE \E v \in Vars : Obtain(c, v) \/ VariableFree(c, v)
    BY <2>1 DEF Obtain, VariableFree
  <2>2. CASE FreeWithoutState(c) \/ NoMemory(c) \/ AllocateNode(c) \/ LoadHead(c)
    BY <2>2 DEF FreeWithoutState, NoMemory, AllocateNode, LoadHead
  <2>3. CASE CompareExchange(c) \/ Retry(c)
    BY <2>3 DEF CompareExchange, Link, Retry
  <2>4. CASE AcquireToFree(c) \/ FreeAndRelease(c)
    BY <2>4 DEF AcquireToFree, FreeAndRelease
  <2>5. CASE CallGC(c) \/ AcquireForGC(c) \/ GCDrained(c) \/ Collect(c)
    BY <2>5 DEF CallGC, AcquireForGC, GCDrained, Collect
  <2>6. CASE StartInline(c) \/ YieldInline(c) \/ EndInline(c) \/ ReleaseInline(c)
    BY <2>6 DEF StartInline, YieldInline, EndInline, ReleaseInline
  <2> QED
    BY <1>1, <2>1, <2>2, <2>3, <2>4, <2>5, <2>6 DEF Caller
<1>2. ASSUME NEW t \in Threads, Script(t) \/ Drain(t) PROVE AccessInv'
  <2> USE DEF Threads
  <2>1. CASE Script(t)
    BY <2>1 DEF Script, EndTight, Keep, FreeDirect, InScript
  <2>2. CASE DrainOne(t)
    BY <2>2 DEF DrainOne
  <2>3. CASE TightDrained(t)
    BY <2>3 DEF TightDrained
  <2> QED
    BY <1>2, <2>1, <2>2, <2>3 DEF Drain
<1>3. CASE Scheduler \/ Park
  BY <1>3 DEF Scheduler, Park, BeginPass, PassDrained, EndPass, SchedulerStops, Unpark, Threads
<1>4. CASE KitsuneInit \/ Cleanup
  <2> USE DEF Threads
  <2>1. CASE KitsuneInit \/ KitsuneCleanup
    BY <2>1 DEF KitsuneInit, KitsuneCleanup, MayCleanUp
  <2>2. CASE CloseState \/ CleanupReturns
    BY <2>2 DEF CloseState, CleanupReturns
  <2>3. CASE FirstDrain \/ SecondDrain \/ LastDrain
    BY <2>3 DEF FirstDrain, SecondDrain, LastDrain
  <2> QED
    BY <1>4, <2>1, <2>2, <2>3 DEF Cleanup
<1>5. CASE UNCHANGED vars
  BY <1>5 DEF vars
<1> QED
  BY <1>1, <1>2, <1>3, <1>4, <1>5 DEF Next

(* What a KitsuneVariableFree has in hand stays its own until it is queued or *)
(* freed: nobody else frees a variable that is being freed, and no drain      *)
(* frees a node that is not linked yet.                                       *)
LEMMA LocalNext == Inv /\ [Next]_vars => LocalInv'
<1> SUFFICES ASSUME Inv, [Next]_vars PROVE LocalInv'
  OBVIOUS
<1>0. /\ pc \in [Threads -> Labels] /\ arg \in [Callers -> Vars \cup {NULL}]
      /\ mine \in [Callers -> Nodes \cup {NULL}] /\ place \in [Vars -> Places]
      /\ node \in [Nodes -> [variable : Vars \cup {NULL}, next : Nodes \cup {NULL}]]
      /\ list \in [Threads -> Nodes \cup {NULL}] /\ used \subseteq Nodes
      /\ LocalInv
  BY DEF Inv, Ranges
<1>t. /\ NULL \notin Nodes \cup Vars
      /\ \A c \in Callers : c \in Threads /\ c # SchedulerThread /\ c # CleanupThread
  BY ChainAssumption DEF Threads
<1>p. PlaceInv /\ AccessInv
  BY DEF Inv
<1> USE <1>0, <1>t DEF LocalInv, Goto, Drop, Exchange, Drained, engine, push
<1>1. ASSUME NEW c \in Callers, Caller(c) PROVE LocalInv'
  <2>1. ASSUME NEW v \in Vars, Obtain(c, v) PROVE LocalInv'
    BY <2>1 DEF Obtain
  <2>2. ASSUME NEW v \in Vars, VariableFree(c, v) PROVE LocalInv'
    BY <2>2 DEF VariableFree
  <2>3. CASE FreeWithoutState(c)
    BY <2>3 DEF FreeWithoutState
  <2>4. CASE AllocateNode(c)
    BY <2>4 DEF AllocateNode
  <2>5. CASE LoadHead(c) \/ NoMemory(c) \/ AcquireToFree(c)
    BY <2>5 DEF LoadHead, NoMemory, AcquireToFree
  <2>6. CASE CompareExchange(c)
    BY <2>6 DEF CompareExchange, Link
  <2>7. CASE Retry(c)
    BY <2>7 DEF Retry
  <2>8. CASE FreeAndRelease(c)
    BY <2>8 DEF FreeAndRelease
  <2>9. CASE CallGC(c) \/ AcquireForGC(c) \/ GCDrained(c) \/ Collect(c)
    BY <2>9 DEF CallGC, AcquireForGC, GCDrained, Collect
  <2>10. CASE StartInline(c) \/ YieldInline(c) \/ EndInline(c) \/ ReleaseInline(c)
    BY <2>10 DEF StartInline, YieldInline, EndInline, ReleaseInline
  <2> QED
    BY <1>1, <2>1, <2>2, <2>3, <2>4, <2>5, <2>6, <2>7, <2>8, <2>9, <2>10 DEF Caller
<1>2. ASSUME NEW t \in Threads, Script(t) \/ Drain(t) PROVE LocalInv'
  <2>1. CASE Script(t)
    BY <2>1 DEF Script, EndTight, Keep, FreeDirect, InScript
  <2>2. CASE DrainOne(t)
    <3>1. list[t] \in Linked /\ place[node[list[t]].variable] = "queued"
      BY <2>2 DEF DrainOne, Inv, QueuedOnce, PointersDiffer, NodesCarryQueued
    <3> QED
      BY <2>2, <3>1 DEF DrainOne, Linked
  <2>3. CASE TightDrained(t)
    BY <2>3 DEF TightDrained
  <2> QED
    BY <1>2, <2>1, <2>2, <2>3 DEF Drain
<1>3. CASE Scheduler \/ Park
  BY <1>3 DEF Scheduler, Park, BeginPass, PassDrained, EndPass, SchedulerStops, Unpark
<1>4. CASE KitsuneInit \/ KitsuneCleanup \/ FirstDrain
  BY <1>4 DEF KitsuneInit, KitsuneCleanup, FirstDrain
<1>5. CASE SecondDrain \/ LastDrain \/ CleanupReturns
  BY <1>5 DEF SecondDrain, LastDrain, CleanupReturns
<1>6. CASE CloseState
  BY <1>6 DEF CloseState
<1>7. CASE UNCHANGED vars
  BY <1>7 DEF vars
<1> QED
  BY <1>1, <1>2, <1>3, <1>4, <1>5, <1>6, <1>7 DEF Next, Cleanup

(* A drain takes the whole chain: what the head pointed to, a list points to. *)
LEMMA ExchangeKeeps ==
  ASSUME Inv, NEW t \in Threads, list[t] = NULL, Exchange(t),
         UNCHANGED <<node, used, mine, place>>
  PROVE  QueuedOnce'
<1>1. Linked' = Linked
  BY DEF Linked
<1>2. head' = NULL /\ list \in [Threads -> Nodes \cup {NULL}]
      /\ list' = [list EXCEPT ![t] = head] /\ NULL \notin Linked
  BY ChainAssumption DEF Exchange, Inv, Ranges, Linked
<1> USE <1>1, <1>2 DEF Inv, QueuedOnce
<1>3. PointersDiffer'
  BY DEF PointersDiffer
<1>4. NodesReached'
  BY DEF NodesReached
<1>5. NodesCarryQueued'
  BY DEF NodesCarryQueued
<1> QED
  BY <1>3, <1>4, <1>5

(* A push links one node, which carries the variable and leads to the rest. *)
LEMMA LinkKeeps ==
  ASSUME Inv, NEW c \in Callers, CompareExchange(c)
  PROVE  QueuedOnce'
<1> DEFINE n == mine[c]
<1>1. /\ n \in Nodes /\ n \in used /\ n \notin Linked /\ node[n].variable = arg[c]
      /\ arg[c] \in Vars /\ place[arg[c]] = "freeing"
      /\ \A d \in Callers \ {c} : mine[d] # n
      /\ NULL \notin Nodes
  BY ChainAssumption DEF Inv, LocalInv, Ranges, CompareExchange, Linked
<1>2. /\ node \in [Nodes -> [variable : Vars \cup {NULL}, next : Nodes \cup {NULL}]]
      /\ place \in [Vars -> Places] /\ mine \in [Callers -> Nodes \cup {NULL}]
      /\ used \subseteq Nodes
  BY DEF Inv, Ranges
<1>3. /\ node' = [node EXCEPT ![n].next = head] /\ head' = n /\ list' = list
      /\ place' = [place EXCEPT ![arg[c]] = "queued"]
      /\ used' = used /\ mine' = [mine EXCEPT ![c] = NULL]
  BY DEF CompareExchange, Link
<1>4. Linked' = Linked \cup {n}
  BY <1>1, <1>2, <1>3 DEF Linked
<1>5. Linked \subseteq Nodes
  BY <1>2 DEF Linked
<1>6. \A m \in Linked : node'[m] = node[m]
  BY <1>1, <1>2, <1>3, <1>5
<1>7. node'[n].next = head /\ node'[n].variable = arg[c]
  BY <1>1, <1>2, <1>3
<1> HIDE DEF n
<1> USE DEF Inv, QueuedOnce
<1>8. PointersDiffer'
  BY <1>1, <1>3, <1>4, <1>6, <1>7, <1>5 DEF PointersDiffer
<1>9. NodesReached'
  BY <1>1, <1>3, <1>4, <1>6, <1>7 DEF NodesReached
<1>10. NodesCarryQueued'
  BY <1>1, <1>2, <1>3, <1>4, <1>6, <1>7 DEF NodesCarryQueued
<1> QED
  BY <1>8, <1>9, <1>10

(* A drain frees the first node of its list with its variable and goes on. *)
LEMMA DrainKeeps ==
  ASSUME Inv, NEW t \in Threads, DrainOne(t)
  PROVE  QueuedOnce'
<1> DEFINE n == list[t]
<1>1. n \in Linked /\ NULL \notin Nodes /\ n # NULL
  BY ChainAssumption DEF Inv, QueuedOnce, PointersDiffer, DrainOne
<1>2. /\ list \in [Threads -> Nodes \cup {NULL}] /\ place \in [Vars -> Places]
      /\ used \subseteq Nodes
  BY DEF Inv, Ranges
<1>3. /\ list' = [list EXCEPT ![t] = node[n].next] /\ head' = head /\ node' = node
      /\ place' = [place EXCEPT ![node[n].variable] = "none"]
      /\ used' = used \ {n} /\ mine' = mine
  BY DEF DrainOne, Drop, push
<1>4. Linked' = Linked \ {n} /\ NULL \notin Linked
  BY <1>1, <1>2, <1>3 DEF Linked
<1> USE DEF Inv, QueuedOnce
<1>5. PointersDiffer'
  BY <1>1, <1>2, <1>3, <1>4 DEF PointersDiffer
<1>6. NodesReached'
  BY <1>1, <1>2, <1>3, <1>4 DEF NodesReached, PointersDiffer
<1>7. NodesCarryQueued'
  BY <1>1, <1>2, <1>3, <1>4 DEF NodesCarryQueued
<1> QED
  BY <1>5, <1>6, <1>7

(* A step that queues no variable, frees no queued one and leaves the linked *)
(* nodes and the pointers to them alone.                                     *)
LEMMA OthersKeep ==
  ASSUME Inv, UNCHANGED <<head, list>>, Linked' = Linked,
         \A n \in Linked : node'[n] = node[n],
         \A v \in Vars : place'[v] = "queued" <=> place[v] = "queued"
  PROVE  QueuedOnce'
BY DEF Inv, QueuedOnce, PointersDiffer, NodesReached, NodesCarryQueued

(* No step loses a queued variable or frees one twice. *)
LEMMA QueueNext == Inv /\ [Next]_vars => QueuedOnce'
<1> SUFFICES ASSUME Inv, [Next]_vars PROVE QueuedOnce'
  OBVIOUS
<1>0. /\ pc \in [Threads -> Labels] /\ arg \in [Callers -> Vars \cup {NULL}]
      /\ mine \in [Callers -> Nodes \cup {NULL}] /\ place \in [Vars -> Places]
      /\ node \in [Nodes -> [variable : Vars \cup {NULL}, next : Nodes \cup {NULL}]]
      /\ used \subseteq Nodes /\ LocalInv /\ PlaceInv
  BY DEF Inv, Ranges
<1>t. /\ NULL \notin Nodes \cup Vars
      /\ SchedulerThread \in Threads /\ CleanupThread \in Threads
      /\ \A c \in Callers : c \in Threads
  BY ChainAssumption DEF Threads
<1>l. ASSUME NEW t \in Threads, pc[t] \notin DrainLabels PROVE list[t] = NULL
  BY <1>l, <1>0 DEF PlaceInv
<1> USE <1>0, <1>t DEF Goto, Drop, engine, push
<1>1. ASSUME NEW c \in Callers, Caller(c) PROVE QueuedOnce'
  <2>1. ASSUME NEW v \in Vars, Obtain(c, v) \/ VariableFree(c, v) PROVE QueuedOnce'
    BY <2>1, OthersKeep DEF Obtain, VariableFree, Linked
  <2>2. CASE FreeWithoutState(c)
    BY <2>2, OthersKeep DEF FreeWithoutState, LocalInv, Linked
  <2>3. CASE AllocateNode(c)
    <3>1. mine[c] = NULL
      BY <2>3 DEF AllocateNode, LocalInv
    <3>2. PICK n \in Nodes \ used :
            /\ used' = used \cup {n} /\ mine' = [mine EXCEPT ![c] = n]
            /\ node' = [node EXCEPT ![n].variable = arg[c]]
      BY <2>3 DEF AllocateNode
    <3>3. Linked' = Linked
      BY <3>1, <3>2 DEF Linked
    <3>4. \A m \in Linked : node'[m] = node[m]
      BY <3>2 DEF Linked
    <3> QED
      BY <2>3, <3>3, <3>4, OthersKeep DEF AllocateNode
  <2>4. CASE LoadHead(c) \/ NoMemory(c) \/ AcquireToFree(c)
    BY <2>4, OthersKeep DEF LoadHead, NoMemory, AcquireToFree, Linked
  <2>5. CASE CompareExchange(c)
    BY <2>5, LinkKeeps
  <2>6. CASE Retry(c)
    <3>1. \A m \in Linked : node'[m] = node[m]
      BY <2>6 DEF Retry, Linked
    <3> QED
      BY <2>6, <3>1, OthersKeep DEF Retry, Linked
  <2>7. CASE FreeAndRelease(c)
    BY <2>7, OthersKeep DEF FreeAndRelease, LocalInv, Linked
  <2>8. CASE CallGC(c) \/ GCDrained(c) \/ Collect(c)
    BY <2>8, OthersKeep DEF CallGC, GCDrained, Collect, Drained, Linked
  <2>9. CASE StartInline(c) \/ YieldInline(c) \/ ReleaseInline(c)
    BY <2>9, OthersKeep DEF StartInline, YieldInline, ReleaseInline, Drained, Linked
  <2>10. CASE AcquireForGC(c) \/ EndInline(c)
    <3>1. list[c] = NULL
      BY <2>10, <1>l DEF AcquireForGC, EndInline, DrainLabels
    <3> QED
      BY <2>10, <3>1, ExchangeKeeps DEF AcquireForGC, EndInline
  <2> QED
    BY <1>1, <2>1, <2>2, <2>3, <2>4, <2>5, <2>6, <2>7, <2>8, <2>9, <2>10 DEF Caller
<1>2. ASSUME NEW t \in Threads, Script(t) \/ Drain(t) PROVE QueuedOnce'
  <2>1. CASE EndTight(t)
    <3>1. list[t] = NULL
      BY <2>1, <1>l DEF EndTight, InScript, DrainLabels
    <3> QED
      BY <2>1, <3>1, ExchangeKeeps DEF EndTight
  <2>2. ASSUME NEW v \in Vars, Keep(t, v) \/ FreeDirect(t, v) PROVE QueuedOnce'
    BY <2>2, OthersKeep DEF Keep, FreeDirect, Linked
  <2>3. CASE DrainOne(t)
    BY <2>3, DrainKeeps
  <2>4. CASE TightDrained(t)
    BY <2>4, OthersKeep DEF TightDrained, Drained, Linked
  <2> QED
    BY <1>2, <2>1, <2>2, <2>3, <2>4 DEF Script, Drain
<1>3. CASE BeginPass
  <2>1. list[SchedulerThread] = NULL
    BY <1>3, <1>l DEF BeginPass, DrainLabels
  <2> QED
    BY <1>3, <2>1, ExchangeKeeps DEF BeginPass
<1>4. CASE PassDrained \/ EndPass \/ SchedulerStops \/ Unpark \/ Park
  BY <1>4, OthersKeep DEF PassDrained, EndPass, SchedulerStops, Unpark, Park, Drained, Linked
<1>5. CASE KitsuneInit \/ KitsuneCleanup \/ CleanupReturns
  BY <1>5, OthersKeep DEF KitsuneInit, KitsuneCleanup, CleanupReturns, Drained, Linked
<1>6. CASE FirstDrain \/ SecondDrain \/ LastDrain
  <2>1. list[CleanupThread] = NULL
    BY <1>6, <1>l DEF FirstDrain, SecondDrain, LastDrain, Drained, DrainLabels
  <2> QED
    BY <1>6, <2>1, ExchangeKeeps DEF FirstDrain, SecondDrain, LastDrain
<1>7. CASE CloseState
  BY <1>7, OthersKeep DEF CloseState, Drained, Linked
<1>8. CASE UNCHANGED vars
  BY <1>8, OthersKeep DEF vars, Linked
<1> QED
  BY <1>1, <1>2, <1>3, <1>4, <1>5, <1>6, <1>7, <1>8 DEF Next, Scheduler, Cleanup

(* The invariant is inductive. *)
LEMMA InvNext == Inv /\ [Next]_vars => Inv'
BY TypeNext, PlaceNext, LocalNext, AccessNext, QueueNext DEF Inv

(* With the invariant, only the thread that has Lua access may release a *)
(* reference, and KitsuneCleanup only when nobody can get it any more.   *)
LEMMA InvUnref == Inv => UnrefWithAccess
<1> SUFFICES ASSUME Inv, NEW t \in Threads, MayUnref(t)
             PROVE  /\ open
                    /\ IF t = CleanupThread THEN owner = Nobody /\ ~up ELSE owner = t
  BY DEF UnrefWithAccess
<1>1. PlaceInv /\ AccessInv /\ owner \in Threads \cup {Nobody} /\ up \in BOOLEAN
  BY DEF Inv, Ranges
<1>2. /\ SchedulerThread # CleanupThread
      /\ {SchedulerThread, CleanupThread} \subseteq Threads
      /\ \A c \in Callers : c \in Threads /\ c # SchedulerThread /\ c # CleanupThread
      /\ \A u \in Threads : u \in Callers \/ u = SchedulerThread \/ u = CleanupThread
  BY ChainAssumption DEF Threads
<1>3. CASE t = CleanupThread
  <2>1. pc[t] \in {"drain1", "drain2"}
    BY <1>1, <1>3 DEF MayUnref, PlaceInv, CleanupLabels, DrainLabels
  <2>2. open /\ ~up
    BY <1>1, <1>3, <2>1 DEF AccessInv
  <2>3. pc[SchedulerThread] = "done"
        /\ \A c \in Callers : pc[c] \in {"idle", "test", "load", "cas"}
    BY <1>1, <1>3, <2>1, <2>2 DEF AccessInv
  <2>4. \A u \in Threads : pc[u] \notin OwnerLabels
    BY <1>2, <1>3, <2>1, <2>3 DEF OwnerLabels
  <2> QED
    BY <1>1, <1>3, <2>2, <2>4 DEF AccessInv
<1>4. CASE t = SchedulerThread
  <2>1. pc[t] \in {"run", "drain", "tight"}
    BY <1>1, <1>4 DEF MayUnref, PlaceInv, SchedulerLabels, DrainLabels
  <2>2. owner = t
    BY <1>1, <2>1 DEF AccessInv, OwnerLabels
  <2>3. open
    BY <1>1, <1>4, <2>1 DEF AccessInv
  <2> QED
    BY <1>2, <1>4, <2>2, <2>3
<1>5. CASE t \in Callers
  <2>1. pc[t] \in OwnerLabels
    BY <1>1, <1>5 DEF MayUnref, PlaceInv, CallerLabels, DrainLabels, OwnerLabels
  <2>2. owner = t /\ open
    BY <1>1, <1>5, <2>1 DEF AccessInv, OwnerLabels
  <2> QED
    BY <1>2, <1>5, <2>2
<1> QED
  BY <1>2, <1>3, <1>4, <1>5

(* The types of the state, for every set of threads, variables and nodes, and *)
(* that a drain ends only when its list does.                                *)
THEOREM TypeCorrect == Spec => []TypeOK
<1>1. Inv => TypeOK
  BY DEF Inv, PlaceInv, LocalInv, TypeOK, InScope
<1> QED
  BY <1>1, InitInv, InvNext, PTL DEF Spec

(* However many host threads free variables while others drain, every queued *)
(* variable stays on exactly one list until it is freed.                     *)
THEOREM NoneLost == Spec => []QueuedOnce
<1>1. Inv => QueuedOnce
  BY DEF Inv
<1> QED
  BY InitInv, InvNext, <1>1, PTL DEF Spec

(* luaL_unref is called with Lua access only, and never on a closed state. *)
THEOREM UnrefSafe == Spec => []UnrefWithAccess
BY InitInv, InvNext, InvUnref, PTL DEF Spec

------------------------------------------------------------------------------
(* What leads to a linked node. *)

(* Following next fields one stays in such a set of nodes. *)
Onward(X) == \A m \in X \cap Linked : node[m].next \in X \cup {NULL}

(* The pointer p leads to the node n, directly or by next fields: every set  *)
(* of nodes that p points into and that next fields do not leave has n.      *)
Leads(p, n) == p # NULL /\ \A X \in SUBSET Nodes : p \in X /\ Onward(X) => n \in X

(* The linked nodes hang on the chain or on a list that a drain took. *)
LeadInv == \A n \in Linked : Leads(head, n) \/ \E t \in Threads : Leads(list[t], n)

(* What was queued before the call of KitsuneGC is still queued, then on the *)
(* list that the call took.                                                  *)
GCInv ==
  \A c \in Callers :
    /\ pc[c] \notin {"gc", "gcdrain"} => before[c] = {}
    /\ pc[c] = "gc" => \A v \in before[c] : place[v] = "queued"
    /\ pc[c] = "gcdrain" => \A v \in before[c] :
                              \E n \in Linked : node[n].variable = v /\ Leads(list[c], n)

(* What a shutdown leaves: no reference of scripts, and if the host waits for *)
(* its Dispose calls, no push and an empty chain.                             *)
LeftInv ==
  /\ ~up /\ pc[CleanupThread] = "idle" => ~open
  /\ pc[CleanupThread] \in {"close", "drain3"} => ~open
  /\ ~open => \A v \in Vars : place[v] # "kept"
  /\ DisposesReturn /\ ~up => \A c \in Callers : pc[c] \in {"idle", "test"}
  /\ DisposesReturn /\ ~up /\ pc[CleanupThread] \in {"drain3", "idle"} => head = NULL

BornInv == DisposesReturn => \A v \in Vars : place[v] # "none" => born[v] = session

All == Inv /\ LeadInv /\ GCInv /\ LeftInv /\ BornInv

(* What a step adds to the chain does not cut what was there. *)
LEMMA LeadsKept ==
  ASSUME Linked \subseteq Linked', \A m \in Linked : node'[m] = node[m],
         NEW p, NEW n, Leads(p, n)
  PROVE  Leads(p, n)'
  BY DEF Leads, Onward

(* NULL leads nowhere. *)
LEMMA LeadsNull ==
  ASSUME NEW n PROVE ~Leads(NULL, n)
  BY DEF Leads

(* A linked node leads where its next field leads. *)
LEMMA LeadsOver ==
  ASSUME NEW m, m \in Linked', m # NULL, NEW p, node'[m].next = p, NEW n, Leads(p, n)'
  PROVE  Leads(m, n)'
<1> SUFFICES ASSUME NEW X \in SUBSET Nodes, m \in X, Onward(X)' PROVE n \in X
  BY DEF Leads
<1>1. p \in X
  BY DEF Onward, Leads
<1> QED
  BY <1>1 DEF Leads

(* When the first node of a list is freed, everything else is still led to by *)
(* what led there, the rest of the list by the next field.                    *)
LEMMA LeadsWithout ==
  ASSUME NEW k \in Linked, k # NULL, Linked' = Linked \ {k}, node' = node,
         \A m \in Linked : node[m].next # k, NEW n \in Linked \ {k}, Linked \subseteq Nodes
  PROVE  /\ \A p : p # k /\ Leads(p, n) => Leads(p, n)'
         /\ \A p : p = node[k].next /\ Leads(k, n) => Leads(p, n)'
<1>1. ASSUME NEW p, p # k, Leads(p, n) PROVE Leads(p, n)'
  <2> SUFFICES ASSUME NEW X \in SUBSET Nodes, p \in X, Onward(X)' PROVE n \in X
    BY <1>1 DEF Leads
  <2> DEFINE Y == X \ {k}
  <2>1. p \in Y /\ Y \in SUBSET Nodes
    BY <1>1
  <2>2. Onward(Y)
    BY DEF Onward
  <2>3. n \in Y
    BY <1>1, <2>1, <2>2 DEF Leads
  <2> QED
    BY <2>3
<1>2. ASSUME NEW p, p = node[k].next, Leads(k, n) PROVE Leads(p, n)'
  <2>1. p # NULL
    <3> SUFFICES ASSUME p = NULL PROVE FALSE
      OBVIOUS
    <3>1. Onward({k}) /\ {k} \in SUBSET Nodes
      BY <1>2 DEF Onward
    <3> QED
      BY <1>2, <3>1 DEF Leads
  <2> SUFFICES ASSUME NEW X \in SUBSET Nodes, p \in X, Onward(X)' PROVE n \in X
    BY <2>1 DEF Leads
  <2> DEFINE Y == X \cup {k}
  <2>2. Onward(Y) /\ Y \in SUBSET Nodes /\ k \in Y
    BY <1>2 DEF Onward
  <2>3. n \in Y
    BY <1>2, <2>2 DEF Leads
  <2> QED
    BY <2>3
<1> QED
  BY <1>1, <1>2

(* No step of the rest touches the lists, their nodes or who calls KitsuneGC. *)
LEMMA LeadOthers ==
  ASSUME Inv, LeadInv, GCInv, UNCHANGED <<head, list>>, Linked' = Linked,
         \A n \in Linked : node'[n] = node[n],
         \A v \in Vars : place'[v] = "queued" <=> place[v] = "queued",
         \A c \in Callers : /\ before'[c] \subseteq before[c]
                            /\ \/ pc'[c] = pc[c]
                               \/ {pc[c], pc'[c]} \cap {"gc", "gcdrain"} = {}
  PROVE  LeadInv' /\ GCInv'
<1>1. \A p, n : Leads(p, n) => Leads(p, n)'
  BY LeadsKept
<1>2. LeadInv'
  <2> SUFFICES ASSUME NEW n \in Linked PROVE (Leads(head, n) \/ \E t \in Threads : Leads(list[t], n))'
    BY DEF LeadInv
  <2>1. PICK p : p \in {head} \cup {list[t] : t \in Threads} /\ Leads(p, n)
    BY DEF LeadInv
  <2>2. Leads(p, n)'
    BY <1>1, <2>1
  <2> QED
    BY <2>1, <2>2 DEF Leads, Onward
<1>3. GCInv'
  <2> SUFFICES ASSUME NEW c \in Callers
               PROVE  /\ pc'[c] \notin {"gc", "gcdrain"} => before'[c] = {}
                      /\ pc'[c] = "gc" => \A v \in before'[c] : place'[v] = "queued"
                      /\ pc'[c] = "gcdrain" => \A v \in before'[c] :
                           (\E n \in Linked : node[n].variable = v /\ Leads(list[c], n))'
    BY DEF GCInv
  <2>0. before[c] \subseteq Vars
    BY DEF Inv, Ranges
  <2>1. pc'[c] \notin {"gc", "gcdrain"} => before'[c] = {}
    BY DEF GCInv
  <2>2. pc'[c] = "gc" => \A v \in before'[c] : place'[v] = "queued"
    BY <2>0 DEF GCInv
  <2>3. ASSUME pc'[c] = "gcdrain", NEW v \in before'[c]
        PROVE  (\E n \in Linked : node[n].variable = v /\ Leads(list[c], n))'
    <3>1. PICK n \in Linked : node[n].variable = v /\ Leads(list[c], n)
      BY <2>3 DEF GCInv
    <3>2. PICK p : p = list[c] /\ p = list'[c]
      OBVIOUS
    <3>3. Leads(p, n)'
      BY <1>1, <3>1, <3>2
    <3> QED
      BY <3>1, <3>2, <3>3 DEF Leads, Onward
  <2> QED
    BY <2>1, <2>2, <2>3
<1> QED
  BY <1>2, <1>3


(* A drain takes the chain: what the head led to, its list leads to. *)
LEMMA LeadExchange ==
  ASSUME Inv, LeadInv, NEW t \in Threads, list[t] = NULL, Exchange(t),
         UNCHANGED <<node, used, mine>>
  PROVE  /\ LeadInv'
         /\ \A u \in Threads : \A n : u # t /\ Leads(list[u], n) => Leads(list[u], n)'
         /\ \A n : Leads(head, n) => Leads(list[t], n)'
<1>1. Linked' = Linked /\ list \in [Threads -> Nodes \cup {NULL}]
  BY DEF Linked, Inv, Ranges
<1>2. \A p, n : Leads(p, n) => Leads(p, n)'
  BY <1>1, LeadsKept
<1>3. list'[t] = head /\ \A u \in Threads \ {t} : list'[u] = list[u]
  BY <1>1 DEF Exchange
<1>4. ASSUME NEW u \in Threads, u # t, NEW n, Leads(list[u], n) PROVE Leads(list[u], n)'
  <2>1. PICK p : p = list[u] /\ p = list'[u]
    BY <1>3, <1>4
  <2>2. Leads(p, n)'
    BY <1>2, <1>4, <2>1
  <2> QED
    BY <2>1, <2>2 DEF Leads, Onward
<1>5. ASSUME NEW n, Leads(head, n) PROVE Leads(list[t], n)'
  <2>1. PICK p : p = head /\ p = list'[t]
    BY <1>3
  <2>2. Leads(p, n)'
    BY <1>2, <1>5, <2>1
  <2> QED
    BY <2>1, <2>2 DEF Leads, Onward
<1>6. LeadInv'
  <2> SUFFICES ASSUME NEW n \in Linked PROVE (\E u \in Threads : Leads(list[u], n))'
    BY <1>1 DEF LeadInv
  <2>1. CASE Leads(head, n)
    BY <1>5, <2>1
  <2>2. CASE \E u \in Threads : Leads(list[u], n)
    <3>1. PICK u \in Threads : Leads(list[u], n)
      BY <2>2
    <3>2. u # t
      BY <3>1 DEF Leads
    <3> QED
      BY <1>4, <3>1, <3>2
  <2> QED
    BY <2>1, <2>2 DEF LeadInv
<1> QED
  BY <1>4, <1>5, <1>6

(* A push puts its node before the rest of the chain. *)
LEMMA LeadLink ==
  ASSUME Inv, LeadInv, NEW c \in Callers, CompareExchange(c)
  PROVE  /\ LeadInv' /\ Linked \subseteq Linked' /\ \A n \in Linked : node'[n] = node[n]
         /\ \A u \in Threads : \A n : Leads(list[u], n) => Leads(list[u], n)'
<1>1. PICK m : m = mine[c]
  OBVIOUS
<1>2. /\ m \in Nodes /\ m \in used /\ m \notin Linked /\ m # NULL
      /\ \A d \in Callers \ {c} : mine[d] # m
  BY <1>1, ChainAssumption DEF Inv, LocalInv, Ranges, CompareExchange, Linked
<1>3. /\ node \in [Nodes -> [variable : Vars \cup {NULL}, next : Nodes \cup {NULL}]]
      /\ mine \in [Callers -> Nodes \cup {NULL}] /\ used \subseteq Nodes
  BY DEF Inv, Ranges
<1>4. /\ node' = [node EXCEPT ![m].next = head] /\ head' = m /\ list' = list
      /\ used' = used /\ mine' = [mine EXCEPT ![c] = NULL]
  BY <1>1 DEF CompareExchange, Link
<1>5. Linked' = Linked \cup {m} /\ Linked \subseteq Nodes
  <2>1. \A d \in Callers : mine'[d] = IF d = c THEN NULL ELSE mine[d]
    BY <1>3, <1>4
  <2>2. NULL \notin Nodes
    BY ChainAssumption
  <2> QED
    BY <1>1, <1>2, <1>3, <1>4, <2>1, <2>2 DEF Linked
<1>6. (\A n \in Linked : node'[n] = node[n]) /\ node'[m].next = head
  BY <1>2, <1>3, <1>4, <1>5
<1>7. \A p, n : Leads(p, n) => Leads(p, n)'
  BY <1>5, <1>6, LeadsKept
<1>8. ASSUME NEW u \in Threads, NEW n, Leads(list[u], n) PROVE Leads(list[u], n)'
  <2>1. PICK p : p = list[u] /\ p = list'[u]
    BY <1>4
  <2>2. Leads(p, n)'
    BY <1>7, <1>8, <2>1
  <2> QED
    BY <2>1, <2>2 DEF Leads, Onward
<1>9. ASSUME NEW n, Leads(m, n)' PROVE Leads(head, n)'
  BY <1>4, <1>9 DEF Leads, Onward
<1>10. LeadInv'
  <2> SUFFICES ASSUME NEW n \in Linked \cup {m}
               PROVE  Leads(head, n)' \/ \E u \in Threads : Leads(list[u], n)'
    BY <1>5 DEF LeadInv
  <2>1. CASE n = m
    BY <1>2, <1>9, <2>1 DEF Leads
  <2>2. CASE Leads(head, n)
    <3>1. PICK p : p = head
      OBVIOUS
    <3>2. Leads(p, n)' /\ node'[m].next = p
      BY <1>6, <1>7, <2>2, <3>1
    <3>3. Leads(m, n)'
      BY <1>2, <1>5, <3>2, LeadsOver
    <3> QED
      BY <1>9, <3>3
  <2>3. CASE n # m /\ ~Leads(head, n)
    BY <1>8, <2>3 DEF LeadInv
  <2> QED
    BY <2>1, <2>2, <2>3
<1> QED
  BY <1>5, <1>6, <1>8, <1>10

(* A drain frees the first node of its list; everything else is still led to. *)
LEMMA LeadDrain ==
  ASSUME Inv, LeadInv, NEW t \in Threads, DrainOne(t)
  PROVE  /\ LeadInv' /\ Linked' = Linked \ {list[t]} /\ list[t] \in Linked
         /\ \A u \in Threads, n \in Linked' : Leads(list[u], n) => Leads(list[u], n)'
<1>1. PICK k : k = list[t]
  OBVIOUS
<1>2. /\ k \in Linked /\ k # NULL /\ head # k
      /\ \A m \in Linked : node[m].next # k
      /\ \A u \in Threads \ {t} : list[u] # k
  BY <1>1 DEF Inv, QueuedOnce, PointersDiffer, DrainOne
<1>3. list \in [Threads -> Nodes \cup {NULL}] /\ used \subseteq Nodes
  BY DEF Inv, Ranges
<1>4. /\ list' = [list EXCEPT ![t] = node[k].next] /\ head' = head /\ node' = node
      /\ used' = used \ {k} /\ mine' = mine
  BY <1>1 DEF DrainOne, push
<1>5. Linked' = Linked \ {k} /\ Linked \subseteq Nodes
  BY <1>2, <1>3, <1>4 DEF Linked
<1>6. ASSUME NEW u \in Threads, NEW n \in Linked', Leads(list[u], n) PROVE Leads(list[u], n)'
  <2>1. CASE u = t
    <3>1. PICK p : p = node[k].next /\ p = list'[t]
      BY <1>3, <1>4
    <3>2. Leads(p, n)'
      BY <1>1, <1>2, <1>4, <1>5, <1>6, <2>1, <3>1, LeadsWithout
    <3> QED
      BY <2>1, <3>1, <3>2 DEF Leads, Onward
  <2>2. CASE u # t
    <3>1. PICK p : p = list[u] /\ p = list'[u]
      BY <1>3, <1>4, <2>2
    <3>2. p # k
      BY <1>2, <2>2, <3>1
    <3>3. Leads(p, n)'
      BY <1>2, <1>4, <1>5, <1>6, <3>1, <3>2, LeadsWithout
    <3> QED
      BY <3>1, <3>3 DEF Leads, Onward
  <2> QED
    BY <2>1, <2>2
<1>7. ASSUME NEW n \in Linked', Leads(head, n) PROVE Leads(head, n)'
  <2>1. PICK p : p = head /\ p = head'
    BY <1>4
  <2>2. Leads(p, n)'
    BY <1>2, <1>4, <1>5, <1>7, <2>1, LeadsWithout
  <2> QED
    BY <2>1, <2>2 DEF Leads, Onward
<1>8. LeadInv'
  <2> SUFFICES ASSUME NEW n \in Linked'
               PROVE  Leads(head, n)' \/ \E u \in Threads : Leads(list[u], n)'
    BY DEF LeadInv
  <2>1. n \in Linked
    BY <1>5
  <2> QED
    BY <1>6, <1>7, <2>1 DEF LeadInv
<1> QED
  BY <1>1, <1>2, <1>5, <1>6, <1>8


(* Lua access is needed to take the chain: while somebody without it may get  *)
(* it, no list is left.                                                      *)
LEMMA NoList ==
  ASSUME Inv, up, owner = Nobody PROVE \A t \in Threads : list[t] = NULL
<1> SUFFICES ASSUME NEW t \in Threads, list[t] # NULL PROVE FALSE
  OBVIOUS
<1>1. pc[t] \in DrainLabels /\ pc[t] \notin OwnerLabels
  BY ChainAssumption DEF Inv, PlaceInv, AccessInv
<1>2. t \in Callers \/ t = SchedulerThread \/ t = CleanupThread
  BY DEF Threads
<1> QED
  BY <1>1, <1>2 DEF Inv, PlaceInv, AccessInv, DrainLabels, OwnerLabels, CallerLabels,
     SchedulerLabels

(* An exchange leaves the lists of those alone that are in KitsuneGC. *)
LEMMA GCExchange ==
  ASSUME Inv, LeadInv, GCInv, NEW t \in Threads, list[t] = NULL, Exchange(t), before' = before,
         UNCHANGED <<node, used, mine, place>>,
         \A c \in Callers : pc'[c] = pc[c] \/ {pc[c], pc'[c]} \cap {"gc", "gcdrain"} = {}
  PROVE  GCInv'
<1> SUFFICES ASSUME NEW c \in Callers
             PROVE  /\ pc'[c] \notin {"gc", "gcdrain"} => before'[c] = {}
                    /\ pc'[c] = "gc" => \A v \in before'[c] : place'[v] = "queued"
                    /\ pc'[c] = "gcdrain" => \A v \in before'[c] :
                         (\E n \in Linked : node[n].variable = v /\ Leads(list[c], n))'
  BY DEF GCInv
<1>1. pc'[c] \notin {"gc", "gcdrain"} => before'[c] = {}
  BY DEF GCInv
<1>2. pc'[c] = "gc" => \A v \in before'[c] : place'[v] = "queued"
  BY DEF GCInv
<1>3. ASSUME pc'[c] = "gcdrain", NEW v \in before'[c]
      PROVE  (\E n \in Linked : node[n].variable = v /\ Leads(list[c], n))'
  <2>1. PICK n \in Linked : node[n].variable = v /\ Leads(list[c], n)
    BY <1>3 DEF GCInv
  <2>2. c \in Threads /\ c # t
    BY <2>1 DEF Threads, Leads
  <2>3. Leads(list[c], n)' /\ Linked' = Linked
    BY <2>1, <2>2, LeadExchange DEF Linked
  <2> QED
    BY <2>1, <2>3
<1> QED
  BY <1>1, <1>2, <1>3

(* KitsuneGC takes the whole chain, and all that was queued hangs on it. *)
LEMMA GCAcquire ==
  ASSUME Inv, LeadInv, GCInv, NEW c \in Callers, AcquireForGC(c)
  PROVE  LeadInv' /\ GCInv'
<1>0. /\ pc \in [Threads -> Labels] /\ c \in Threads /\ before[c] \subseteq Vars
      /\ list \in [Threads -> Nodes \cup {NULL}]
  BY DEF Inv, Ranges, Threads
<1>1. \A t \in Threads : list[t] = NULL
  BY NoList DEF AcquireForGC, Access!Take
<1>2. /\ LeadInv' /\ \A u \in Threads : \A n : u # c /\ Leads(list[u], n) => Leads(list[u], n)'
      /\ \A n : Leads(head, n) => Leads(list[c], n)'
  BY <1>0, <1>1, LeadExchange DEF AcquireForGC, push
<1>3. UNCHANGED <<before, node, place>> /\ Linked' = Linked /\ pc' = [pc EXCEPT ![c] = "gcdrain"]
      /\ pc[c] = "gc"
  BY DEF AcquireForGC, Goto, Linked, push
<1>4. ASSUME NEW v \in before[c]
      PROVE  (\E n \in Linked : node[n].variable = v /\ Leads(list[c], n))'
  <2>1. place[v] = "queued"
    BY <1>3, <1>4 DEF GCInv
  <2>2. PICK n \in Linked : node[n].variable = v
    BY <1>0, <2>1 DEF Inv, QueuedOnce, NodesCarryQueued
  <2>3. Leads(head, n)
    BY <1>1, LeadsNull DEF LeadInv
  <2> QED
    BY <1>2, <1>3, <2>2, <2>3
<1>5. GCInv'
  <2> SUFFICES ASSUME NEW d \in Callers
               PROVE  /\ pc'[d] \notin {"gc", "gcdrain"} => before'[d] = {}
                      /\ pc'[d] = "gc" => \A v \in before'[d] : place'[v] = "queued"
                      /\ pc'[d] = "gcdrain" => \A v \in before'[d] :
                           (\E n \in Linked : node[n].variable = v /\ Leads(list[d], n))'
    BY DEF GCInv
  <2>1. CASE d = c
    BY <1>0, <1>3, <1>4, <2>1
  <2>2. CASE d # c
    <3>1. pc'[d] = pc[d] /\ d \in Threads
      BY <1>0, <1>3, <2>2 DEF Threads
    <3>2. pc'[d] = "gcdrain" => before[d] = {}
      <4> SUFFICES ASSUME pc[d] = "gcdrain", NEW v \in before[d] PROVE FALSE
        BY <3>1
      <4>1. PICK n \in Linked : Leads(list[d], n)
        BY DEF GCInv
      <4> QED
        BY <1>1, <3>1, <4>1 DEF Leads
    <3> QED
      BY <1>3, <3>1, <3>2 DEF GCInv
  <2> QED
    BY <2>1, <2>2
<1> QED
  BY <1>2, <1>5

(* A push changes nothing that KitsuneGC has to wait for. *)
LEMMA GCLink ==
  ASSUME Inv, LeadInv, GCInv, NEW c \in Callers, CompareExchange(c)
  PROVE  GCInv'
<1>1. /\ pc \in [Threads -> Labels] /\ place \in [Vars -> Places]
      /\ pc[c] = "cas" /\ pc' = [pc EXCEPT ![c] = "idle"] /\ before' = before
      /\ place' = [place EXCEPT ![arg[c]] = "queued"] /\ \A d \in Callers : d \in Threads
      /\ \A d \in Callers : before[d] \subseteq Vars
  BY DEF Inv, Ranges, CompareExchange, Link, Goto, Threads
<1> SUFFICES ASSUME NEW d \in Callers
             PROVE  /\ pc'[d] \notin {"gc", "gcdrain"} => before'[d] = {}
                    /\ pc'[d] = "gc" => \A v \in before'[d] : place'[v] = "queued"
                    /\ pc'[d] = "gcdrain" => \A v \in before'[d] :
                         (\E n \in Linked : node[n].variable = v /\ Leads(list[d], n))'
  BY DEF GCInv
<1>2. pc'[d] = pc[d] \/ (pc[d] = "cas" /\ pc'[d] = "idle")
  BY <1>1
<1>3. pc'[d] \notin {"gc", "gcdrain"} => before'[d] = {}
  BY <1>1, <1>2 DEF GCInv
<1>4. pc'[d] = "gc" => \A v \in before'[d] : place'[v] = "queued"
  BY <1>1, <1>2 DEF GCInv
<1>5. ASSUME pc'[d] = "gcdrain", NEW v \in before'[d]
      PROVE  (\E n \in Linked : node[n].variable = v /\ Leads(list[d], n))'
  <2>1. PICK n \in Linked : node[n].variable = v /\ Leads(list[d], n)
    BY <1>1, <1>2, <1>5 DEF GCInv
  <2> QED
    BY <1>1, <2>1, LeadLink
<1> QED
  BY <1>3, <1>4, <1>5

(* A variable that a drain frees is not waited for any more. *)
LEMMA GCDrain ==
  ASSUME Inv, LeadInv, GCInv, NEW t \in Threads, DrainOne(t)
  PROVE  GCInv'
<1>1. PICK k \in Linked : k = list[t]
  BY LeadDrain
<1>2. PICK w \in Vars : w = node[k].variable /\ place[w] = "queued"
  BY DEF Inv, QueuedOnce, NodesCarryQueued
<1>3. /\ place \in [Vars -> Places] /\ before \in [Callers -> SUBSET Vars]
      /\ pc' = pc /\ node' = node /\ place' = [place EXCEPT ![w] = "none"]
      /\ before' = [c \in Callers |-> before[c] \ {w}]
      /\ \A d \in Callers : d \in Threads
  BY <1>1, <1>2 DEF Inv, Ranges, DrainOne, Drop, Threads
<1> SUFFICES ASSUME NEW d \in Callers
             PROVE  /\ pc'[d] \notin {"gc", "gcdrain"} => before'[d] = {}
                    /\ pc'[d] = "gc" => \A v \in before'[d] : place'[v] = "queued"
                    /\ pc'[d] = "gcdrain" => \A v \in before'[d] :
                         (\E n \in Linked : node[n].variable = v /\ Leads(list[d], n))'
  BY DEF GCInv
<1>4. before'[d] = before[d] \ {w} /\ before[d] \subseteq Vars
  BY <1>3
<1>5. pc'[d] \notin {"gc", "gcdrain"} => before'[d] = {}
  BY <1>3, <1>4 DEF GCInv
<1>6. pc'[d] = "gc" => \A v \in before'[d] : place'[v] = "queued"
  BY <1>3, <1>4 DEF GCInv
<1>7. ASSUME pc'[d] = "gcdrain", NEW v \in before'[d]
      PROVE  (\E n \in Linked : node[n].variable = v /\ Leads(list[d], n))'
  <2>1. PICK n \in Linked : node[n].variable = v /\ Leads(list[d], n)
    BY <1>3, <1>4, <1>7 DEF GCInv
  <2>2. n # k
    BY <1>2, <1>4, <1>7, <2>1
  <2>3. n \in Linked' /\ Leads(list[d], n)'
    BY <1>1, <1>3, <2>1, <2>2, LeadDrain
  <2> QED
    BY <1>3, <2>1, <2>3
<1> QED
  BY <1>5, <1>6, <1>7


(* KitsuneGC begins with what is queued at the time, and ends with nothing. *)
LEMMA GCCall ==
  ASSUME Inv, LeadInv, GCInv, NEW c \in Callers, CallGC(c) \/ GCDrained(c) \/ Collect(c)
  PROVE  LeadInv' /\ GCInv'
<1>0. /\ pc \in [Threads -> Labels] /\ before \in [Callers -> SUBSET Vars] /\ c \in Threads
      /\ UNCHANGED <<head, list, node, used, mine, place>> /\ \A d \in Callers : d \in Threads
  BY DEF Inv, Ranges, CallGC, GCDrained, Collect, Threads, push
<1>1. Linked' = Linked
  BY <1>0 DEF Linked
<1>2. LeadInv' /\ \A p, n : Leads(p, n) => Leads(p, n)'
  BY <1>0, <1>1 DEF LeadInv, Leads, Onward
<1>3. ASSUME NEW d \in Callers, d # c
      PROVE  pc'[d] = pc[d] /\ before'[d] = before[d]
  BY <1>0, <1>3 DEF CallGC, GCDrained, Collect, Drained, Goto
<1>4. /\ pc'[c] \in {"gc", "collect", "idle"}
      /\ pc'[c] \in {"collect", "idle"} => before'[c] = {}
      /\ pc'[c] = "gc" => \A v \in before'[c] : place'[v] = "queued"
  <2>1. CASE CallGC(c)
    BY <1>0, <2>1 DEF CallGC, Goto
  <2>2. CASE GCDrained(c)
    <3>1. /\ pc[c] = "gcdrain" /\ list[c] = NULL /\ pc' = [pc EXCEPT ![c] = "collect"]
          /\ before' = before
      BY <2>2 DEF GCDrained, Drained, Goto
    <3>2. before[c] = {}
      <4> SUFFICES ASSUME NEW v \in before[c] PROVE FALSE
        OBVIOUS
      <4>1. PICK n \in Linked : Leads(list[c], n)
        BY <3>1 DEF GCInv
      <4> QED
        BY <3>1, <4>1 DEF Leads
    <3> QED
      BY <1>0, <3>1, <3>2
  <2>3. CASE Collect(c)
    BY <1>0, <2>3 DEF Collect, Goto
  <2> QED
    BY <2>1, <2>2, <2>3
<1>5. GCInv'
  <2> SUFFICES ASSUME NEW d \in Callers
               PROVE  /\ pc'[d] \notin {"gc", "gcdrain"} => before'[d] = {}
                      /\ pc'[d] = "gc" => \A v \in before'[d] : place'[v] = "queued"
                      /\ pc'[d] = "gcdrain" => \A v \in before'[d] :
                           (\E n \in Linked : node[n].variable = v /\ Leads(list[d], n))'
    BY DEF GCInv
  <2>1. CASE d = c
    BY <1>4, <2>1
  <2>2. CASE d # c
    <3>1. pc'[d] = pc[d] /\ before'[d] = before[d]
      BY <1>3, <2>2
    <3>2. ASSUME pc'[d] = "gcdrain", NEW v \in before'[d]
          PROVE  (\E n \in Linked : node[n].variable = v /\ Leads(list[d], n))'
      <4>1. PICK n \in Linked : node[n].variable = v /\ Leads(list[d], n)
        BY <3>1, <3>2 DEF GCInv
      <4>2. PICK p : p = list[d] /\ p = list'[d]
        BY <1>0
      <4>3. Leads(p, n)'
        BY <1>2, <4>1, <4>2
      <4> QED
        BY <1>0, <1>1, <4>1, <4>2, <4>3 DEF Leads, Onward
    <3> QED
      BY <1>0, <3>1, <3>2 DEF GCInv
  <2> QED
    BY <2>1, <2>2
<1> QED
  BY <1>2, <1>5

(* Every step keeps what leads where, and what KitsuneGC waits for. *)
LEMMA LeadNext == Inv /\ LeadInv /\ GCInv /\ [Next]_vars => LeadInv' /\ GCInv'
<1> SUFFICES ASSUME Inv, LeadInv, GCInv, [Next]_vars PROVE LeadInv' /\ GCInv'
  OBVIOUS
<1>0. /\ pc \in [Threads -> Labels] /\ arg \in [Callers -> Vars \cup {NULL}]
      /\ mine \in [Callers -> Nodes \cup {NULL}] /\ place \in [Vars -> Places]
      /\ node \in [Nodes -> [variable : Vars \cup {NULL}, next : Nodes \cup {NULL}]]
      /\ used \subseteq Nodes /\ LocalInv /\ PlaceInv /\ before \in [Callers -> SUBSET Vars]
  BY DEF Inv, Ranges
<1>t. /\ NULL \notin Nodes \cup Vars
      /\ SchedulerThread \in Threads /\ CleanupThread \in Threads
      /\ \A c \in Callers : c \in Threads /\ c # SchedulerThread /\ c # CleanupThread
  BY ChainAssumption DEF Threads
<1>l. ASSUME NEW t \in Threads, pc[t] \notin DrainLabels PROVE list[t] = NULL
  BY <1>l, <1>0 DEF PlaceInv
<1> USE <1>0, <1>t DEF Goto, Drop, engine, push
<1>1. ASSUME NEW c \in Callers, Caller(c) PROVE LeadInv' /\ GCInv'
  <2>1. ASSUME NEW v \in Vars, Obtain(c, v) \/ VariableFree(c, v) PROVE LeadInv' /\ GCInv'
    BY <2>1, LeadOthers DEF Obtain, VariableFree, Linked
  <2>2. CASE FreeWithoutState(c)
    BY <2>2, LeadOthers DEF FreeWithoutState, LocalInv, Linked
  <2>3. CASE AllocateNode(c)
    <3>1. mine[c] = NULL
      BY <2>3 DEF AllocateNode, LocalInv
    <3>2. PICK n \in Nodes \ used :
            /\ used' = used \cup {n} /\ mine' = [mine EXCEPT ![c] = n]
            /\ node' = [node EXCEPT ![n].variable = arg[c]]
      BY <2>3 DEF AllocateNode
    <3>3. Linked' = Linked
      BY <3>1, <3>2 DEF Linked
    <3>4. \A m \in Linked : node'[m] = node[m]
      BY <3>2 DEF Linked
    <3> QED
      BY <2>3, <3>3, <3>4, LeadOthers DEF AllocateNode
  <2>4. CASE LoadHead(c) \/ NoMemory(c) \/ AcquireToFree(c)
    BY <2>4, LeadOthers DEF LoadHead, NoMemory, AcquireToFree, Linked
  <2>5. CASE CompareExchange(c)
    BY <2>5, LeadLink, GCLink
  <2>6. CASE Retry(c)
    <3>1. \A m \in Linked : node'[m] = node[m]
      BY <2>6 DEF Retry, Linked
    <3> QED
      BY <2>6, <3>1, LeadOthers DEF Retry, Linked
  <2>7. CASE FreeAndRelease(c)
    BY <2>7, LeadOthers DEF FreeAndRelease, LocalInv, Linked
  <2>8. CASE CallGC(c) \/ GCDrained(c) \/ Collect(c)
    BY <2>8, GCCall
  <2>9. CASE StartInline(c) \/ YieldInline(c) \/ ReleaseInline(c)
    BY <2>9, LeadOthers DEF StartInline, YieldInline, ReleaseInline, Drained, Linked
  <2>10. CASE AcquireForGC(c)
    BY <2>10, GCAcquire
  <2>11. CASE EndInline(c)
    <3>1. list[c] = NULL
      BY <2>11, <1>l DEF EndInline, DrainLabels
    <3> QED
      BY <2>11, <3>1, LeadExchange, GCExchange DEF EndInline
  <2> QED
    BY <1>1, <2>1, <2>2, <2>3, <2>4, <2>5, <2>6, <2>7, <2>8, <2>9, <2>10, <2>11 DEF Caller
<1>2. ASSUME NEW t \in Threads, Script(t) \/ Drain(t) PROVE LeadInv' /\ GCInv'
  <2>1. CASE EndTight(t)
    <3>1. list[t] = NULL
      BY <2>1, <1>l DEF EndTight, InScript, DrainLabels
    <3> QED
      BY <2>1, <3>1, LeadExchange, GCExchange DEF EndTight, InScript
  <2>2. ASSUME NEW v \in Vars, Keep(t, v) \/ FreeDirect(t, v) PROVE LeadInv' /\ GCInv'
    BY <2>2, LeadOthers DEF Keep, FreeDirect, Linked
  <2>3. CASE DrainOne(t)
    BY <2>3, LeadDrain, GCDrain
  <2>4. CASE TightDrained(t)
    BY <2>4, LeadOthers DEF TightDrained, Drained, Linked
  <2> QED
    BY <1>2, <2>1, <2>2, <2>3, <2>4 DEF Script, Drain
<1>3. CASE BeginPass
  <2>1. list[SchedulerThread] = NULL
    BY <1>3, <1>l DEF BeginPass, DrainLabels
  <2> QED
    BY <1>3, <2>1, LeadExchange, GCExchange DEF BeginPass
<1>4. CASE PassDrained \/ EndPass \/ SchedulerStops \/ Unpark \/ Park
  BY <1>4, LeadOthers DEF PassDrained, EndPass, SchedulerStops, Unpark, Park, Drained, Linked
<1>5. CASE KitsuneInit \/ KitsuneCleanup \/ CleanupReturns
  BY <1>5, LeadOthers DEF KitsuneInit, KitsuneCleanup, CleanupReturns, Drained, Linked
<1>6. CASE FirstDrain \/ SecondDrain \/ LastDrain
  <2>1. list[CleanupThread] = NULL
    BY <1>6, <1>l DEF FirstDrain, SecondDrain, LastDrain, Drained, DrainLabels
  <2> QED
    BY <1>6, <2>1, LeadExchange, GCExchange DEF FirstDrain, SecondDrain, LastDrain
<1>7. CASE CloseState
  BY <1>7, LeadOthers DEF CloseState, Drained, Linked
<1>8. CASE UNCHANGED vars
  BY <1>8, LeadOthers DEF vars, Linked
<1> QED
  BY <1>1, <1>2, <1>3, <1>4, <1>5, <1>6, <1>7, <1>8 DEF Next, Scheduler, Cleanup


(* A shutdown leaves nothing behind that the host does not hold itself. *)
LEMMA LeftNext == Inv /\ LeftInv /\ [Next]_vars => LeftInv'
<1> SUFFICES ASSUME Inv, LeftInv, [Next]_vars PROVE LeftInv'
  OBVIOUS
<1>0. /\ pc \in [Threads -> Labels] /\ list \in [Threads -> Nodes \cup {NULL}]
      /\ place \in [Vars -> Places] /\ up \in BOOLEAN /\ open \in BOOLEAN
      /\ PlaceInv /\ AccessInv
  BY DEF Inv, Ranges
<1>t. /\ SchedulerThread # CleanupThread /\ {SchedulerThread, CleanupThread} \subseteq Threads
      /\ \A c \in Callers : c \in Threads /\ c # SchedulerThread /\ c # CleanupThread
  BY ChainAssumption DEF Threads
<1>p. pc[CleanupThread] \in CleanupLabels
  BY <1>0 DEF PlaceInv
<1> USE <1>0, <1>t DEF LeftInv, Goto, Drop, Exchange, Drained, engine, push
<1>1. ASSUME NEW c \in Callers, Caller(c) PROVE LeftInv'
  <2>1. ASSUME NEW v \in Vars, Obtain(c, v) PROVE LeftInv'
    BY <2>1 DEF Obtain
  <2>2. ASSUME NEW v \in Vars, VariableFree(c, v) PROVE LeftInv'
    BY <2>2 DEF VariableFree
  <2>3. CASE FreeWithoutState(c)
    BY <2>3 DEF FreeWithoutState
  <2>4. CASE AllocateNode(c) \/ LoadHead(c) \/ NoMemory(c) \/ AcquireToFree(c)
    BY <2>4 DEF AllocateNode, LoadHead, NoMemory, AcquireToFree
  <2>5. CASE CompareExchange(c)
    BY <2>5 DEF CompareExchange, Link
  <2>6. CASE Retry(c)
    BY <2>6 DEF Retry
  <2>7. CASE FreeAndRelease(c)
    BY <2>7 DEF FreeAndRelease
  <2>8. CASE CallGC(c) \/ AcquireForGC(c) \/ GCDrained(c) \/ Collect(c)
    BY <2>8 DEF CallGC, AcquireForGC, GCDrained, Collect
  <2>9. CASE StartInline(c) \/ YieldInline(c) \/ EndInline(c) \/ ReleaseInline(c)
    BY <2>9 DEF StartInline, YieldInline, EndInline, ReleaseInline
  <2> QED
    BY <1>1, <2>1, <2>2, <2>3, <2>4, <2>5, <2>6, <2>7, <2>8, <2>9 DEF Caller
<1>2. ASSUME NEW t \in Threads, Script(t) \/ Drain(t) PROVE LeftInv'
  <2>0. t \in Callers \/ t = SchedulerThread \/ t = CleanupThread
    BY DEF Threads
  <2>1. CASE EndTight(t)
    BY <1>p, <2>0, <2>1 DEF EndTight, InScript, CleanupLabels
  <2>2. ASSUME NEW v \in Vars, Keep(t, v) PROVE LeftInv'
    <3>1. open
      BY <2>2, InvUnref DEF Keep, InScript, MayUnref, UnrefWithAccess
    <3> QED
      BY <2>2, <3>1 DEF Keep
  <2>3. ASSUME NEW v \in Vars, FreeDirect(t, v) PROVE LeftInv'
    BY <2>3 DEF FreeDirect
  <2>4. CASE DrainOne(t)
    BY <2>4 DEF DrainOne
  <2>5. CASE TightDrained(t)
    BY <1>p, <2>0, <2>5 DEF TightDrained, CleanupLabels
  <2> QED
    BY <1>2, <2>1, <2>2, <2>3, <2>4, <2>5 DEF Script, Drain
<1>3. CASE Scheduler \/ Park
  BY <1>3 DEF Scheduler, Park, BeginPass, PassDrained, EndPass, SchedulerStops, Unpark
<1>4. CASE KitsuneInit
  BY <1>4 DEF KitsuneInit
<1>5. CASE KitsuneCleanup
  BY <1>5, Zenon DEF KitsuneCleanup, MayCleanUp, AccessInv
<1>6. CASE FirstDrain \/ SecondDrain \/ LastDrain \/ CleanupReturns
  BY <1>6, <1>p DEF FirstDrain, SecondDrain, LastDrain, CleanupReturns
<1>7. CASE CloseState
  BY <1>7 DEF CloseState
<1>8. CASE UNCHANGED vars
  BY <1>8 DEF vars
<1> QED
  BY <1>1, <1>2, <1>3, <1>4, <1>5, <1>6, <1>7, <1>8 DEF Next, Cleanup

(* When the engine starts again, nothing hangs on the chain or on a list. *)
LEMMA NothingLeft ==
  ASSUME Inv, LeadInv, LeftInv, DisposesReturn, ~up, pc[CleanupThread] = "idle"
  PROVE  \A v \in Vars : place[v] # "queued"
<1>1. \A t \in Threads : list[t] = NULL
  <2> SUFFICES ASSUME NEW t \in Threads PROVE pc[t] \notin DrainLabels
    BY DEF Inv, PlaceInv
  <2>1. t \in Callers \/ t = SchedulerThread \/ t = CleanupThread
    BY DEF Threads
  <2>2. pc[SchedulerThread] = "done"
    BY DEF Inv, AccessInv
  <2> QED
    BY <2>1, <2>2 DEF LeftInv, DrainLabels
<1>2. head = NULL
  BY DEF LeftInv
<1>3. Linked = {}
  <2> SUFFICES ASSUME NEW n \in Linked PROVE FALSE
    OBVIOUS
  <2> QED
    BY <1>1, <1>2 DEF LeadInv, Leads
<1> QED
  BY <1>3 DEF Inv, QueuedOnce, NodesCarryQueued

(* A reference is of the session that runs. *)
LEMMA BornNext == Inv /\ LeadInv /\ LeftInv /\ BornInv /\ [Next]_vars => BornInv'
<1> SUFFICES ASSUME Inv, LeadInv, LeftInv, BornInv, [Next]_vars, DisposesReturn,
                    NEW v \in Vars, place'[v] # "none"
             PROVE  born'[v] = session'
  BY DEF BornInv
<1>0. /\ place \in [Vars -> Places] /\ born \in [Vars -> 0 .. MaxSession]
      /\ arg \in [Callers -> Vars \cup {NULL}] /\ LocalInv /\ NULL \notin Vars
      /\ (place[v] # "none" => born[v] = session)
  BY ChainAssumption DEF Inv, Ranges, BornInv
<1> USE <1>0 DEF Drop, engine, push
<1>1. ASSUME NEW c \in Callers, Caller(c) PROVE born'[v] = session'
  <2>1. ASSUME NEW w \in Vars, Obtain(c, w) PROVE born'[v] = session'
    BY <2>1 DEF Obtain
  <2>2. ASSUME NEW w \in Vars, VariableFree(c, w) PROVE born'[v] = session'
    BY <2>2 DEF VariableFree
  <2>3. CASE FreeWithoutState(c) \/ FreeAndRelease(c)
    BY <2>3 DEF FreeWithoutState, FreeAndRelease
  <2>4. CASE AllocateNode(c) \/ LoadHead(c) \/ NoMemory(c) \/ AcquireToFree(c) \/ Retry(c)
    BY <2>4 DEF AllocateNode, LoadHead, NoMemory, AcquireToFree, Retry
  <2>5. CASE CompareExchange(c)
    <3>1. arg[c] \in Vars /\ place[arg[c]] # "none"
      BY <2>5 DEF CompareExchange, LocalInv
    <3> QED
      BY <2>5, <3>1 DEF CompareExchange, Link
  <2>6. CASE CallGC(c) \/ AcquireForGC(c) \/ GCDrained(c) \/ Collect(c)
    BY <2>6 DEF CallGC, AcquireForGC, GCDrained, Collect
  <2>7. CASE StartInline(c) \/ YieldInline(c) \/ EndInline(c) \/ ReleaseInline(c)
    BY <2>7 DEF StartInline, YieldInline, EndInline, ReleaseInline
  <2> QED
    BY <1>1, <2>1, <2>2, <2>3, <2>4, <2>5, <2>6, <2>7 DEF Caller
<1>2. ASSUME NEW t \in Threads, Script(t) \/ Drain(t) PROVE born'[v] = session'
  <2>1. CASE EndTight(t) \/ TightDrained(t)
    BY <2>1 DEF EndTight, TightDrained
  <2>2. ASSUME NEW w \in Vars, Keep(t, w) PROVE born'[v] = session'
    BY <2>2 DEF Keep
  <2>3. ASSUME NEW w \in Vars, FreeDirect(t, w) PROVE born'[v] = session'
    BY <2>3 DEF FreeDirect
  <2>4. CASE DrainOne(t)
    BY <2>4 DEF DrainOne
  <2> QED
    BY <1>2, <2>1, <2>2, <2>3, <2>4 DEF Script, Drain
<1>3. CASE Scheduler \/ Park
  BY <1>3 DEF Scheduler, Park, BeginPass, PassDrained, EndPass, SchedulerStops, Unpark
<1>4. CASE KitsuneInit
  <2>1. place[v] \notin {"held", "freeing"} /\ pc[CleanupThread] = "idle" /\ ~up
        /\ place'[v] = place[v]
    BY <1>4 DEF KitsuneInit
  <2>2. place[v] # "queued"
    BY <2>1, NothingLeft
  <2>3. place[v] # "kept"
    BY <2>1 DEF LeftInv
  <2> QED
    BY <2>1, <2>2, <2>3 DEF Places
<1>5. CASE Cleanup
  BY <1>5 DEF Cleanup, KitsuneCleanup, FirstDrain, SecondDrain, CloseState, LastDrain,
     CleanupReturns
<1>6. CASE UNCHANGED vars
  BY <1>6 DEF vars
<1> QED
  BY <1>1, <1>2, <1>3, <1>4, <1>5, <1>6 DEF Next

(* Initially nothing is linked, queued or kept. *)
LEMMA AllInit == Init => All
<1> SUFFICES ASSUME Init PROVE LeadInv /\ GCInv /\ LeftInv /\ BornInv
  BY InitInv DEF All
<1>1. Linked = {}
  BY DEF Init, Linked
<1>2. LeadInv
  BY <1>1 DEF LeadInv
<1>3. \A c \in Callers : pc[c] = "idle" /\ before[c] = {}
  BY ChainAssumption DEF Init, Threads
<1>4. GCInv
  BY <1>3 DEF GCInv
<1>5. LeftInv
  BY <1>3 DEF LeftInv, Init
<1>6. BornInv
  BY DEF BornInv, Init
<1> QED
  BY <1>2, <1>4, <1>5, <1>6

(* The whole invariant is inductive. *)
LEMMA AllNext == All /\ [Next]_vars => All'
BY InvNext, LeadNext, LeftNext, BornNext DEF All

(* KitsuneGC collects only when everything that was queued before the call is *)
(* freed, so that nothing of it is still anchored in the registry.            *)
THEOREM GCIsThorough == Spec => []GCSeesAll
<1>1. All => GCSeesAll
  BY DEF All, GCInv, GCSeesAll
<1> QED
  BY <1>1, AllInit, AllNext, PTL DEF Spec

(* If the host waits for its Dispose calls before KitsuneCleanup, luaL_unref  *)
(* gets no reference of another session's registry.                          *)
THEOREM UnrefIsCurrent == DisposesReturn => (Spec => []UnrefInOwnSession)
<1> SUFFICES ASSUME DisposesReturn PROVE Spec => []UnrefInOwnSession
  OBVIOUS
<1>1. All => UnrefInOwnSession
  <2> SUFFICES ASSUME All, NEW t \in Threads, list[t] # NULL
               PROVE  node[list[t]].variable \in Vars /\ born[node[list[t]].variable] = session
    BY DEF UnrefInOwnSession
  <2>1. list[t] \in Linked
    BY DEF All, Inv, QueuedOnce, PointersDiffer
  <2>2. node[list[t]].variable \in Vars /\ place[node[list[t]].variable] = "queued"
    BY <2>1 DEF All, Inv, QueuedOnce, NodesCarryQueued
  <2> QED
    BY <2>2 DEF All, BornInv
<1> QED
  BY <1>1, AllInit, AllNext, PTL DEF Spec

===============================================================================
