------------------------------ MODULE HttpServer ------------------------------
(***************************************************************************)
(* The life of HTTP requests (LuaHttpServer.cpp, LuaHttpServerRequest.cpp,  *)
(* LuaHttpServerResponse.cpp).  Everything runs on the Lua thread: scripts  *)
(* resume the Accept coroutine (AcceptCont), which feeds streams, fails     *)
(* requests whose client has left, polls libevent and hands out one         *)
(* request.  libevent calls back during the poll, and the disconnect        *)
(* handler, a Lua function, runs in the middle of both.  A connection       *)
(* object is memory that is used again.                                     *)
(*                                                                          *)
(* libevent is external: it stops reading a connection that has a request   *)
(* without a reply, writes replies, reports a connection's end, and frees a *)
(* request that the server owns only when its reply has been written.       *)
(* Headers, bodies and chunks are left out, and so is a handler that closes *)
(* the server from inside event_base_loop, which frees what runs.           *)
(***************************************************************************)
EXTENDS Naturals, Sequences, SequencesExt

CONSTANTS
  Conns,   (* evhttp_connection objects *)
  MaxReq   (* bound: requests that arrive *)

ASSUME HttpAssumption == MaxReq \in Nat /\ Conns # {}

Req == 1..MaxReq
NoReq == 0

VARIABLES
  open,        (* httpInit *)
  pc,          (* the step of AcceptCont *)
  todo,        (* step 1: senders it has not visited yet *)
  handler,     (* the disconnect handler runs for a request, and why *)
  queue, senders, dispatched,   (* the lists of LuaHttpServer *)
  arrived,     (* requests so far *)
  on,          (* the connection a request came on *)
  r,           (* LuaHttpRequest, its LuaHttpResponse, and the evhttp_request behind it *)
  conn,        (* evhttp_connection: its request, close callback, and whether the peer left *)
  registry     (* Registry[con*] *)

lists == <<queue, senders, dispatched>>
vars  == <<open, pc, todo, handler, lists, arrived, on, r, conn, registry>>

NotCalled == [req |-> NoReq, why |-> "none"]
NoConn    == [phase |-> "none", req |-> NoReq, closecb |-> FALSE, left |-> FALSE]

Blank == [mem |-> "none",       (* evhttp_request: "owned" by the server, "freed", "upgraded" *)
          frees |-> 0,          (* history: how often it was freed *)
          ptr |-> FALSE,        (* r->req is set *)
          con |-> FALSE,        (* r->con is set *)
          resp |-> FALSE,       (* the response is linked to the request *)
          final |-> FALSE,      (* resp->finalized *)
          reply |-> "none",     (* what libevent has to write: "stream", "whole" *)
          last |-> FALSE,       (* with "Connection: close" *)
          error |-> FALSE,      (* r->is_error *)
          ws |-> FALSE,         (* r->upgraded *)
          known |-> FALSE,      (* Lua has the request *)
          handled |-> 0]        (* history: calls of the disconnect handler *)

Init == /\ open = TRUE /\ pc = "yielded" /\ todo = {} /\ handler = NotCalled
        /\ queue = <<>> /\ senders = {} /\ dispatched = {}
        /\ arrived = 0 /\ on = [q \in Req |-> CHOOSE k \in Conns : TRUE]
        /\ r = [q \in Req |-> Blank]
        /\ conn = [k \in Conns |-> NoConn] /\ registry = [k \in Conns |-> NoReq]

(* Lua code runs: between two resumes of the Accept coroutine, or in the handler *)
Script == pc = "yielded" \/ handler.req # NoReq
Native(step) == pc = step /\ handler.req = NoReq

-----------------------------------------------------------------------------
(* Pieces of the handlers; each is the new value of a request's record *)

(* HttpRequestCleanup, which ReleaseNode calls *)
Cleanup(x) == [x EXCEPT !.ptr = FALSE, !.con = FALSE, !.resp = FALSE]

(* evhttp_request_free *)
Free(x) == [x EXCEPT !.mem = "freed", !.frees = @ + 1]

(* Teardown frees a request nobody answered, and forgets it *)
FreeOwn(x) == IF x.ptr THEN [Free(x) EXCEPT !.ptr = FALSE] ELSE x

InLists(q) == q \in senders \/ q \in ToSet(queue)

(* ConnCloseCleanup up to the handler: off the queue and the senders, finalized *)
FailRequest(q, error) ==
  LET x == IF InLists(q) THEN Cleanup(r[q]) ELSE r[q]
  IN [x EXCEPT !.final = TRUE, !.error = @ \/ error]

Call(q, why) == handler' = [req |-> q, why |-> why]
Handled(x)   == [x EXCEPT !.handled = @ + 1]

-----------------------------------------------------------------------------
(* The environment *)

(* A client closes its connection *)
ClientLeaves(k) ==
  /\ conn[k].phase # "none" /\ ~conn[k].left
  /\ conn' = [conn EXCEPT ![k].left = TRUE]
  /\ UNCHANGED <<open, pc, todo, handler, lists, arrived, on, r, registry>>

-----------------------------------------------------------------------------
(* What scripts do with requests they have *)

(* ResponseGuard lets the call pass, and the request is there *)
Answerable(q) == Script /\ r[q].known /\ r[q].resp /\ ~r[q].final /\ r[q].ptr

(* Mutant: the response can be sent again *)
Sent_NotFinal(x, last) == [x EXCEPT !.ptr = FALSE, !.reply = "whole", !.last = last]

(* The reply is queued; evhttp_send_done will free the request *)
Sent(x, last) == [x EXCEPT !.ptr = FALSE, !.final = TRUE, !.reply = "whole", !.last = last]

(* Send() and Send(string); Reject and Close, which ask for the connection's end *)
Answer(q, last) ==
  /\ Answerable(q)
  /\ r' = [r EXCEPT ![q] = Sent(@, last)]
  /\ UNCHANGED <<open, pc, todo, handler, lists, arrived, on, conn, registry>>

(* Send(Stream) *)
SendStream(q) ==
  /\ Answerable(q)
  /\ r' = [r EXCEPT ![q].final = TRUE, ![q].reply = "stream"]
  /\ senders' = senders \cup {q}
  /\ UNCHANGED <<open, pc, todo, handler, queue, dispatched, arrived, on, conn, registry>>

(* UpgradeToWebSocket: the connection becomes the WebSocket's.  If libevent refuses the
   handshake, it answers the request itself. *)
Upgrade(q, ok) ==
  /\ Answerable(q)
  /\ registry' = [registry EXCEPT ![on[q]] = NoReq]
  /\ IF ok THEN /\ r' = [r EXCEPT ![q].ptr = FALSE, ![q].final = TRUE, ![q].ws = TRUE,
                                  ![q].mem = "upgraded"]
                /\ conn' = [conn EXCEPT ![on[q]] = NoConn]
           ELSE /\ r' = [r EXCEPT ![q] = [Sent(@, TRUE) EXCEPT !.ws = TRUE]]
                /\ UNCHANGED conn
  /\ UNCHANGED <<open, pc, todo, handler, lists, arrived, on>>

(* ServerTeardown: Close, __gc, the stop flag or a dead AliveToken *)
Teardown ==
  /\ open' = FALSE
  /\ queue' = <<>> /\ senders' = {} /\ dispatched' = {}
  /\ conn' = [k \in Conns |-> NoConn]
  /\ r' = [q \in Req |-> IF InLists(q) THEN Cleanup(FreeOwn(r[q]))
                         ELSE IF q \in dispatched THEN [FreeOwn(r[q]) EXCEPT !.con = FALSE]
                         ELSE r[q]]
  /\ registry' = [k \in Conns |->
       IF \E q \in Req : on[q] = k /\ r[q].con /\ (InLists(q) \/ q \in dispatched)
       THEN NoReq ELSE registry[k]]

CloseServer ==
  /\ open /\ Script
  /\ pc \in {"yielded", "reap"}
  /\ Teardown
  /\ UNCHANGED <<pc, todo, handler, arrived, on>>

-----------------------------------------------------------------------------
(* AcceptCont *)

Resume ==
  /\ pc = "yielded" /\ open
  /\ pc' = "senders" /\ todo' = senders
  /\ UNCHANGED <<open, handler, lists, arrived, on, r, conn, registry>>

(* Step 1: a chunk of the stream is sent *)
SendChunk(q) ==
  /\ Native("senders") /\ q \in todo /\ r[q].ptr /\ r[q].resp
  /\ todo' = todo \ {q}
  /\ UNCHANGED <<open, pc, handler, lists, arrived, on, r, conn, registry>>

(* The end of the stream: libevent writes the rest and frees the request, and ReleaseNode clears
   what Lua has of it *)
StreamEnds(q) ==
  /\ Native("senders") /\ q \in todo
  /\ todo' = todo \ {q} /\ senders' = senders \ {q}
  /\ r' = [r EXCEPT ![q] = Cleanup(IF @.ptr /\ @.resp THEN [@ EXCEPT !.reply = "whole"] ELSE @)]
  /\ UNCHANGED <<open, pc, handler, queue, dispatched, arrived, on, conn, registry>>

StreamsFed ==
  /\ Native("senders") /\ todo = {}
  /\ pc' = "reap"
  /\ UNCHANGED <<open, todo, handler, lists, arrived, on, r, conn, registry>>

(* Step 2.  ClientHasLeft, of a request that was handed out and has no reply *)
Abandoned(q) == /\ q \in dispatched /\ r[q].ptr /\ r[q].con /\ r[q].resp /\ ~r[q].final
                /\ conn[on[q]].left

(* Mutant: the node stays listed while the handler runs *)
Unlink_Late(q) == dispatched
Unlink(q) == dispatched \ {q}

Reap(q) ==
  /\ Native("reap") /\ open /\ Abandoned(q)
  /\ dispatched' = Unlink(q)
  /\ conn' = [conn EXCEPT ![on[q]].closecb = FALSE]
  /\ r' = [r EXCEPT ![q] = Handled(FailRequest(q, TRUE))]
  /\ queue' = RemoveFirst(queue, q) /\ senders' = senders \ {q}
  /\ Call(q, "reap")
  /\ UNCHANGED <<open, pc, todo, arrived, on, registry>>

(* The handler returns; it may have closed the server, which freed the connection *)
Reaped(q) ==
  /\ handler = [req |-> q, why |-> "reap"]
  /\ handler' = NotCalled
  /\ registry' = IF r[q].con THEN [registry EXCEPT ![on[q]] = NoReq] ELSE registry
  /\ conn' = IF open THEN [conn EXCEPT ![on[q]] = NoConn] ELSE conn
  /\ r' = [r EXCEPT ![q] = [Free(@) EXCEPT !.ptr = FALSE, !.con = FALSE]]
  /\ UNCHANGED <<open, pc, todo, lists, arrived, on>>

NoneAbandoned ==
  /\ Native("reap") /\ (~open \/ \A q \in Req : ~Abandoned(q))
  /\ pc' = IF open THEN "poll" ELSE "dispatch"
  /\ UNCHANGED <<open, todo, handler, lists, arrived, on, r, conn, registry>>

-----------------------------------------------------------------------------
(* Step 3: libevent's callbacks *)

(* A client connects *)
Connects(k) ==
  /\ Native("poll") /\ conn[k].phase = "none" /\ arrived < MaxReq
  /\ conn' = [conn EXCEPT ![k].phase = "idle"]
  /\ UNCHANGED <<open, pc, todo, handler, lists, arrived, on, r, registry>>

(* Mutant: the registry keeps an entry that is there already *)
Register_Keeps(k, q) == registry' = [registry EXCEPT ![k] = IF @ = NoReq THEN q ELSE @]
(* Mutant: no entry under the connection *)
Register_Not(k, q) == UNCHANGED registry
Register(k, q) == registry' = [registry EXCEPT ![k] = q]

(* HttpRequestCb *)
Arrives(k) ==
  /\ Native("poll") /\ conn[k].phase = "idle" /\ arrived < MaxReq
  /\ LET q == arrived + 1 IN
       /\ arrived' = q /\ on' = [on EXCEPT ![q] = k]
       /\ r' = [r EXCEPT ![q].mem = "owned", ![q].ptr = TRUE, ![q].con = TRUE, ![q].resp = TRUE]
       /\ conn' = [conn EXCEPT ![k].phase = "busy", ![k].req = q, ![k].closecb = TRUE]
       /\ Register(k, q)
       /\ queue' = Append(queue, q)
  /\ UNCHANGED <<open, pc, todo, handler, senders, dispatched>>

(* ResponseCompleteCb: the reply is written.  It calls the handler for what the registry has. *)
Completes(k) ==
  /\ Native("poll") /\ conn[k].req # NoReq /\ r[conn[k].req].reply = "whole"
  /\ Call(conn[k].req, "complete")
  /\ r' = IF registry[k] # NoReq THEN [r EXCEPT ![registry[k]] = Handled(@)] ELSE r
  /\ UNCHANGED <<open, pc, todo, lists, arrived, on, conn, registry>>

(* Mutant: the entry of the connection stays *)
Unregister_Not(k) == UNCHANGED registry
Unregister(k) == registry' = [registry EXCEPT ![k] = NoReq]

(* The rest of it, and evhttp_send_done: the request is freed, and the connection as well,
   unless it is kept alive *)
Completed(k) ==
  /\ handler.why = "complete" /\ conn[k].req = handler.req
  /\ handler' = NotCalled
  /\ LET q == conn[k].req  known == registry[k] IN
       /\ r' = [p \in Req |-> LET x == IF p = known THEN [r[p] EXCEPT !.con = FALSE] ELSE r[p]
                              IN IF p = q THEN Free(x) ELSE x]
       /\ dispatched' = dispatched \ {known}
       /\ \/ conn' = [conn EXCEPT ![k] = NoConn]
          \/ ~r[q].last /\ conn' = [conn EXCEPT ![k].phase = "idle", ![k].req = NoReq]
  /\ Unregister(k)
  /\ UNCHANGED <<open, pc, todo, queue, senders, arrived, on>>

(* A connection ends whose client left: while it is idle, or while a reply is written *)
Ends(k) == /\ Native("poll") /\ conn[k].left
           /\ \/ conn[k].phase = "idle"
              \/ conn[k].phase = "busy" /\ r[conn[k].req].reply # "none"

(* ConnCloseCb finds nothing *)
EndsUnknown(k) ==
  /\ Ends(k) /\ (~conn[k].closecb \/ registry[k] = NoReq)
  /\ conn' = [conn EXCEPT ![k] = NoConn]
  /\ UNCHANGED <<open, pc, todo, handler, lists, arrived, on, r, registry>>

(* ConnCloseCb finds a request: it was being streamed (ConnCloseCleanup), or its reply is under way *)
EndsKnown(k) ==
  /\ Ends(k) /\ conn[k].closecb /\ registry[k] # NoReq
  /\ LET q == registry[k] IN
       IF r[q].ptr
       THEN /\ r' = [r EXCEPT ![q] = Handled(FailRequest(q, FALSE))]
            /\ queue' = RemoveFirst(queue, q)
            /\ senders' = senders \ {q}
            /\ Call(q, "failed")
       ELSE /\ r' = [r EXCEPT ![q] = Handled(@)]
            /\ Call(q, "closed")
            /\ UNCHANGED <<queue, senders>>
  /\ UNCHANGED <<open, pc, todo, dispatched, arrived, on, conn, registry>>

(* Then Registry[con*] is cleared (ConnCloseCleanup finds it through r->con only), and the
   connection is gone *)
Ended(k) ==
  /\ handler.why \in {"failed", "closed"} /\ conn[k].req = handler.req
  /\ handler' = NotCalled
  /\ LET q == registry[k] IN
       /\ registry' = IF handler.why = "closed" \/ r[q].con
                      THEN [registry EXCEPT ![k] = NoReq] ELSE registry
       /\ r' = [r EXCEPT ![q].con = FALSE]
  /\ conn' = [conn EXCEPT ![k] = NoConn]
  /\ UNCHANGED <<open, pc, todo, lists, arrived, on>>

PollEnds ==
  /\ Native("poll")
  /\ pc' = "dispatch"
  /\ UNCHANGED <<open, todo, handler, lists, arrived, on, r, conn, registry>>

-----------------------------------------------------------------------------
(* Mutant: the node is linked into dispatched, and not unlinked from the queue *)
Dequeue_Not == queue
Dequeue == Tail(queue)

(* Step 4: one request is handed to Lua *)
Dispatch ==
  /\ Native("dispatch")
  /\ pc' = "yielded"
  /\ IF queue = <<>>
       THEN UNCHANGED <<queue, dispatched, r>>
       ELSE /\ queue' = Dequeue
            /\ dispatched' = dispatched \cup {Head(queue)}
            /\ r' = [r EXCEPT ![Head(queue)].known = TRUE]
  /\ UNCHANGED <<open, todo, handler, senders, arrived, on, conn, registry>>

-----------------------------------------------------------------------------
AcceptStep == \/ Resume \/ StreamsFed \/ NoneAbandoned \/ PollEnds \/ Dispatch
              \/ \E q \in Req : SendChunk(q) \/ StreamEnds(q) \/ Reap(q)
HandlerReturns == \/ \E q \in Req : Reaped(q)
                  \/ \E k \in Conns : Completed(k) \/ Ended(k)
LibeventReports(k) == Completes(k) \/ EndsUnknown(k) \/ EndsKnown(k)
Scripts == \/ \E q \in Req : \/ SendStream(q)
                             \/ \E b \in BOOLEAN : Answer(q, b) \/ Upgrade(q, b)
           \/ CloseServer

Next == \/ AcceptStep \/ HandlerReturns \/ Scripts
        \/ \E k \in Conns : ClientLeaves(k) \/ Connects(k) \/ Arrives(k) \/ LibeventReports(k)

Spec == Init /\ [][Next]_vars

(* The coroutine is resumed for ever and handlers return.  A reply is written or its connection
   fails, at one poll or another, and streams end (strong fairness: each poll and each pass is
   only an opportunity). *)
FairSpec == /\ Spec /\ WF_vars(AcceptStep) /\ WF_vars(HandlerReturns)
            /\ \A k \in Conns : SF_vars(LibeventReports(k))
            /\ \A q \in Req : SF_vars(StreamEnds(q))

-----------------------------------------------------------------------------
TypeOK ==
  /\ open \in BOOLEAN /\ pc \in {"yielded", "senders", "reap", "poll", "dispatch"}
  /\ todo \subseteq Req /\ senders \subseteq Req /\ dispatched \subseteq Req
  /\ queue \in Seq(Req) /\ IsInjective(queue) /\ ToSet(queue) \cap dispatched = {}
  /\ arrived \in 0..MaxReq
  /\ handler.req \in 0..arrived
  /\ handler.why \in {"none", "reap", "complete", "closed", "failed"}
  /\ on \in [Req -> Conns] /\ registry \in [Conns -> 0..arrived]
  /\ conn \in [Conns -> [phase : {"none", "idle", "busy"}, req : 0..arrived,
                          closecb : BOOLEAN, left : BOOLEAN]]
  /\ \A q \in Req : /\ r[q].mem \in {"none", "owned", "freed", "upgraded"}
                     /\ r[q].reply \in {"none", "stream", "whole"}

(* An evhttp_request is freed once, by whichever of libevent, the reaping and the teardown comes
   to it, also if a disconnect handler closes the server in the middle of the reaping; and no
   request object that a script can reach points to one that is freed. *)
FreedOnce == \A q \in Req : /\ r[q].frees <= 1
                            /\ r[q].ptr => r[q].mem = "owned"

(* Reject and Close do not test r->req.  While the server is open that is safe: a response that
   passes ResponseGuard has its request, on a connection that still waits for the reply. *)
GuardSuffices ==
  open => \A q \in Req : r[q].known /\ r[q].resp /\ ~r[q].final =>
                            r[q].ptr /\ conn[on[q]].req = q

(* The disconnect handler is called at most once for a request, whichever of the completed reply,
   the end of the connection and the reaping come first; a request whose error says that the
   client disconnected is finalized and was reported. *)
ReportedOnce == \A q \in Req : /\ r[q].handled <= 1
                               /\ r[q].error => r[q].final /\ r[q].handled = 1

(* libevent's callbacks find the request of that connection under Registry[con*], and not one that
   an earlier connection at the same address left there. *)
RegistryCurrent ==
  \A k \in Conns : conn[k].phase = "busy" /\ registry[k] # NoReq => registry[k] = conn[k].req

(* The handler is called for each request that was answered or whose client left, unless the
   server is closed or the connection became a WebSocket. *)
RequestReported ==
  \A q \in Req : conn[on[q]].req = q /\ (r[q].final \/ conn[on[q]].left)
                 ~> r[q].handled = 1 \/ r[q].ws \/ ~open
=============================================================================
