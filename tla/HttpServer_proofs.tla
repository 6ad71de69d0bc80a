-------------------------- MODULE HttpServer_proofs --------------------------
(***************************************************************************)
(* The life of HTTP requests, for any number of connections and requests:  *)
(* who holds a request while its evhttp_request is alive, and therefore    *)
(* frees it once, and reports its end once.                                *)
(***************************************************************************)
EXTENDS HttpServer, TLAPS

ReqRecord ==
  [mem : {"none", "owned", "freed", "upgraded"}, frees : Nat, ptr : BOOLEAN, con : BOOLEAN,
   resp : BOOLEAN, final : BOOLEAN, reply : {"none", "stream", "whole"}, last : BOOLEAN,
   error : BOOLEAN, ws : BOOLEAN, known : BOOLEAN, handled : Nat]

ConnRecord == [phase : {"none", "idle", "busy"}, req : 0..arrived, closecb : BOOLEAN,
               left : BOOLEAN]

Queued == ToSet(queue)

(* TypeOK and the types of the fields. *)
Types ==
  /\ open \in BOOLEAN /\ pc \in {"yielded", "senders", "reap", "poll", "dispatch"}
  /\ todo \subseteq Req /\ senders \subseteq Req /\ dispatched \subseteq Req
  /\ queue \in Seq(Req) /\ IsInjective(queue)
  /\ arrived \in 0..MaxReq
  /\ handler \in [req : 0..arrived, why : {"none", "reap", "complete", "closed", "failed"}]
  /\ on \in [Req -> Conns] /\ registry \in [Conns -> 0..arrived]
  /\ r \in [Req -> ReqRecord] /\ conn \in [Conns -> ConnRecord]

(* A request that has not arrived is nowhere. *)
Fresh(q) == q > arrived => /\ r[q] = Blank
                           /\ q \notin Queued /\ q \notin senders /\ q \notin dispatched

(* The evhttp_request is alive while the pointer, the connection or the reaping leads to it. *)
Memory(q) ==
  /\ r[q].frees = IF r[q].mem = "freed" THEN 1 ELSE 0
  /\ r[q].ptr \/ conn[on[q]].req = q \/ handler = [req |-> q, why |-> "reap"]
       => r[q].mem = "owned"

(* Which list a request is on says how far it is. *)
Listed(q) ==
  /\ q \in Queued => /\ r[q].ptr /\ r[q].resp /\ ~r[q].final /\ ~r[q].known
                     /\ q \notin dispatched
  /\ q \in senders => r[q].ptr /\ r[q].resp /\ r[q].final /\ r[q].reply = "stream"

(* A request with a pointer is on a list or being reaped, its connection waits for it, and the
   close callback will find it. *)
Pointer(q) ==
  r[q].ptr =>
    /\ open => conn[on[q]].req = q
    /\ open /\ handler.req # q => conn[on[q]].closecb /\ registry[on[q]] = q
    /\ \/ q \in Queued \/ q \in senders
       \/ q \in dispatched /\ ~r[q].final
       \/ handler = [req |-> q, why |-> "reap"]

Replied(q) ==
  /\ r[q].reply # "none" => r[q].final
  /\ r[q].reply = "whole" => ~r[q].ptr
  /\ open /\ r[q].resp /\ ~r[q].final => r[q].ptr

Reported(q) ==
  /\ r[q].handled <= 1
  /\ r[q].error => r[q].final /\ r[q].handled = 1
  /\ conn[on[q]].req = q /\ handler.req # q => r[q].handled = 0

Good(q) == Fresh(q) /\ Memory(q) /\ Listed(q) /\ Pointer(q) /\ Replied(q) /\ Reported(q)

(* A connection waits for one request at a time, that came on it; a closed server has none. *)
GoodConn(k) ==
  /\ conn[k].req # NoReq => conn[k].phase = "busy" /\ on[conn[k].req] = k
  /\ conn[k].phase = "busy" => conn[k].req # NoReq
  /\ conn[k].phase = "none" => ~conn[k].closecb
  /\ conn[k].phase = "busy" /\ registry[k] # NoReq => registry[k] = conn[k].req
  /\ conn[k].phase = "idle" /\ conn[k].closecb => registry[k] = NoReq
  /\ ~open => conn[k] = NoConn

(* Where the coroutine is while a handler runs, and what holds of the request it runs for. *)
Steps ==
  /\ todo \subseteq senders /\ (pc # "senders" => todo = {})
  /\ ~open => pc \notin {"senders", "poll"}
  /\ handler.req = NoReq <=> handler.why = "none"
  /\ handler.why = "reap" => pc = "reap"
  /\ handler.why \in {"complete", "closed", "failed"} => pc = "poll"

Handling ==
  LET h == handler.req IN
  h # NoReq =>
    /\ r[h].final /\ h \notin Queued /\ h \notin senders
    /\ handler.why = "reap" => h \notin dispatched
    /\ handler.why # "reap" => ~r[h].ptr
    /\ handler.why = "complete" => r[h].reply = "whole"
    /\ open => conn[on[h]].req = h

HInv == /\ Types /\ Steps /\ Handling
        /\ \A q \in Req : Good(q)
        /\ \A k \in Conns : GoodConn(k)

(* The step does not touch request p, except that it may be another's turn in the handler. *)
Alike(p) ==
  /\ r'[p] = r[p] /\ on'[p] = on[p] /\ open' = open /\ arrived <= arrived'
  /\ p \in Queued' <=> p \in Queued
  /\ p \in senders' <=> p \in senders
  /\ p \in dispatched' <=> p \in dispatched
  /\ conn'[on[p]].req = p => conn[on[p]].req = p
  /\ conn[on[p]].req = p => /\ conn'[on[p]].req = p
                            /\ conn'[on[p]].closecb = conn[on[p]].closecb
                            /\ registry'[on[p]] = registry[on[p]]
  /\ handler'.req = p <=> handler.req = p
  /\ handler.req = p => handler' = handler

(* The step does not touch connection k. *)
AlikeConn(k) ==
  /\ conn'[k] = conn[k] /\ registry'[k] = registry[k] /\ open' = open
  /\ conn[k].req # NoReq => on'[conn[k].req] = on[conn[k].req]

------------------------------------------------------------------------------

(* The frame: a step that does not touch a request leaves its part of the invariant. *)
LEMMA AlikeGood ==
  ASSUME HInv, Types', NEW p \in Req, Alike(p)
  PROVE  Good(p)'
<1> USE DEF Alike
<1>1. p \in Nat /\ arrived \in Nat /\ arrived' \in Nat
  BY HttpAssumption DEF HInv, Types, Req
<1>2. Fresh(p)'
  BY <1>1 DEF HInv, Good, Fresh
<1>3. Memory(p)'
  <2>1. handler' = [req |-> p, why |-> "reap"] => handler = [req |-> p, why |-> "reap"]
    OBVIOUS
  <2>2. Memory(p)
    BY DEF HInv, Good
  <2> QED
    BY <2>1, <2>2 DEF Memory
<1>4. Listed(p)'
  BY DEF HInv, Good, Listed
<1>5. Pointer(p)'
  BY DEF HInv, Types, Good, Pointer
<1>6. Replied(p)' /\ Reported(p)'
  BY DEF HInv, Good, Replied, Reported
<1> QED
  BY <1>2, <1>3, <1>4, <1>5, <1>6 DEF Good

(* The same of a connection. *)
LEMMA AlikeGoodConn ==
  ASSUME HInv, NEW k \in Conns, AlikeConn(k)
  PROVE  GoodConn(k)'
  BY DEF HInv, AlikeConn, GoodConn

(* A connection that is gone waits for nothing. *)
LEMMA GoneGoodConn ==
  ASSUME NEW k \in Conns, conn'[k] = NoConn
  PROVE  GoodConn(k)'
  BY DEF GoodConn, NoConn, NoReq

(* A request that something leads to has arrived. *)
LEMMA HasArrived ==
  ASSUME HInv, NEW q \in Req,
         \/ r[q].mem # "none" \/ r[q].ptr \/ r[q].resp \/ r[q].reply # "none" \/ r[q].known
         \/ q \in Queued \/ q \in senders \/ q \in dispatched
         \/ conn[on[q]].req = q \/ handler.req = q
  PROVE  q <= arrived
<1>1. q \in Nat \ {0} /\ arrived \in Nat
  BY HttpAssumption DEF HInv, Types, Req
<1>2. CASE conn[on[q]].req = q \/ handler.req = q
  BY <1>1, <1>2 DEF HInv, Types, ConnRecord
<1>3. CASE q > arrived
  BY <1>1, <1>2, <1>3 DEF HInv, Good, Fresh, Blank
<1> QED
  BY <1>1, <1>3

(* Unlinking a node that is not on the queue leaves it. *)
LEMMA Unlisted ==
  ASSUME NEW S, NEW s \in Seq(S), NEW e, e \notin ToSet(s)
  PROVE  RemoveFirst(s, e) = s
<1>1. ~ \E i \in 1..Len(s) : s[i] = e
  BY DEF ToSet
<1> QED
  BY <1>1 DEF RemoveFirst

(* The changes the actions make to the record of a connection keep its type. *)
LEMMA ConnTypes ==
  ASSUME NEW x \in ConnRecord, arrived \in Nat
  PROVE  /\ [x EXCEPT !.left = TRUE] \in ConnRecord /\ [x EXCEPT !.phase = "idle"] \in ConnRecord
         /\ [x EXCEPT !.closecb = FALSE] \in ConnRecord /\ NoConn \in ConnRecord
<1>1. [x EXCEPT !.left = TRUE] \in ConnRecord
  BY DEF ConnRecord
<1>2. [x EXCEPT !.phase = "idle"] \in ConnRecord
  BY DEF ConnRecord
<1>3. [x EXCEPT !.closecb = FALSE] \in ConnRecord
  BY DEF ConnRecord
<1>4. NoConn \in ConnRecord
  BY DEF ConnRecord, NoConn, NoReq
<1> QED
  BY <1>1, <1>2, <1>3, <1>4

(* The pieces of the handlers keep the type of a request's record. *)
LEMMA PieceTypes ==
  ASSUME NEW x \in ReqRecord
  PROVE  /\ Cleanup(x) \in ReqRecord /\ Free(x) \in ReqRecord /\ FreeOwn(x) \in ReqRecord
         /\ Handled(x) \in ReqRecord
         /\ \A b \in BOOLEAN : Sent(x, b) \in ReqRecord
<1>1. Cleanup(x) \in ReqRecord
  BY DEF Cleanup, ReqRecord
<1>2. Free(x) \in ReqRecord
  <2>1. [x EXCEPT !.mem = "freed"] \in ReqRecord
    BY DEF ReqRecord
  <2>2. \A y \in ReqRecord : [y EXCEPT !.frees = @ + 1] \in ReqRecord
    BY DEF ReqRecord
  <2> QED
    BY <2>1, <2>2 DEF Free, ReqRecord
<1>3. [Free(x) EXCEPT !.ptr = FALSE] \in ReqRecord
  BY <1>2 DEF ReqRecord
<1>4. Handled(x) \in ReqRecord
  BY DEF Handled, ReqRecord
<1>5. ASSUME NEW b \in BOOLEAN PROVE Sent(x, b) \in ReqRecord
  BY DEF Sent, ReqRecord
<1> QED
  BY <1>1, <1>2, <1>3, <1>4, <1>5 DEF FreeOwn

(* Steps of AcceptCont that touch no request, and what clients do before one arrives. *)
LEMMA NothingHandled ==
  ASSUME HInv, UNCHANGED <<arrived, on, r, queue, senders, dispatched, open, handler, registry>>,
         todo' \subseteq todo \cup senders,
         \A k \in Conns : conn'[k].req = conn[k].req /\ conn'[k].closecb = conn[k].closecb,
         Types', Steps', \A k \in Conns : GoodConn(k)'
  PROVE  HInv'
<1>1. Handling'
  BY HttpAssumption DEF HInv, Types, Handling, Queued, ConnRecord, Req, NoReq
<1>2. ASSUME NEW p \in Req PROVE Good(p)'
  <2>1. Alike(p)
    BY DEF Alike, HInv, Types, Queued
  <2> QED
    BY <2>1, AlikeGood
<1> QED
  BY <1>1, <1>2 DEF HInv

(* The steps of AcceptCont and of clients that touch no request. *)
LEMMA PassiveHInv ==
  ASSUME HInv,
         \/ Resume \/ StreamsFed \/ NoneAbandoned \/ PollEnds
         \/ \E q \in Req : SendChunk(q)
         \/ \E k \in Conns : ClientLeaves(k) \/ Connects(k)
  PROVE  HInv'
<1>1. CASE Resume \/ StreamsFed \/ NoneAbandoned \/ PollEnds \/ \E q \in Req : SendChunk(q)
  <2> USE <1>1 DEF Resume, StreamsFed, NoneAbandoned, PollEnds, SendChunk, Native, lists
  <2>1. Types' /\ Steps'
    BY DEF HInv, Types, Steps, ConnRecord, NoReq
  <2>2. \A k \in Conns : GoodConn(k)'
    BY DEF HInv, GoodConn
  <2> QED
    BY <2>1, <2>2, NothingHandled
<1>2. ASSUME NEW k \in Conns, ClientLeaves(k) PROVE HInv'
  <2> USE <1>2 DEF ClientLeaves, lists
  <2>1. Types' /\ Steps'
    <3>1. [conn[k] EXCEPT !.left = TRUE] \in ConnRecord
      BY DEF HInv, Types, ConnRecord
    <3> QED
      BY <3>1 DEF HInv, Types, Steps, ConnRecord
  <2>2. \A l \in Conns : GoodConn(l)'
    BY DEF HInv, Types, ConnRecord, GoodConn, NoConn
  <2> QED
    BY <2>1, <2>2, NothingHandled DEF HInv, Types, ConnRecord
<1>3. ASSUME NEW k \in Conns, Connects(k) PROVE HInv'
  <2> USE <1>3 DEF Connects, Native, lists
  <2>1. Types' /\ Steps'
    <3>1. [conn[k] EXCEPT !.phase = "idle"] \in ConnRecord
      <4>1. conn[k] \in ConnRecord /\ arrived \in Nat
        BY HttpAssumption DEF HInv, Types
      <4> QED
        BY <4>1, ConnTypes
    <3> QED
      BY <3>1 DEF HInv, Types, Steps, ConnRecord
  <2>2. conn[k].req = NoReq /\ conn[k].phase = "none"
    BY DEF HInv, GoodConn
  <2>3. open /\ ~conn[k].closecb
    BY <2>2 DEF HInv, GoodConn, Steps
  <2>4. conn' = [conn EXCEPT ![k] = [conn[k] EXCEPT !.phase = "idle"]]
    OBVIOUS
  <2>5. \A l \in Conns : GoodConn(l)'
    BY <2>2, <2>3, <2>4 DEF HInv, Types, ConnRecord, GoodConn
  <2> QED
    BY <2>1, <2>5, NothingHandled DEF HInv, Types, ConnRecord
<1> QED
  BY <1>1, <1>2, <1>3

(* The connection ends, and nothing is known of its request. *)
LEMMA EndsUnknownHInv ==
  ASSUME HInv, NEW k \in Conns, EndsUnknown(k)
  PROVE  HInv'
<1> USE DEF EndsUnknown, Ends, Native, lists
<1>1. Types' /\ Steps'
  BY DEF HInv, Types, Steps, ConnRecord, NoConn, NoReq
<1>2. Handling'
  BY DEF HInv, Types, Handling, Queued, NoReq
<1>3. ASSUME NEW p \in Req PROVE Good(p)'
  <2>1. CASE conn[on[p]].req = p /\ on[p] = k
    <3>1. ~r[p].ptr
      BY <2>1, HttpAssumption DEF HInv, Types, Steps, Good, Pointer, Req, NoReq
    <3>2. conn'[on[p]].req # p
      BY <2>1 DEF HInv, Types, NoConn, NoReq, Req
    <3> QED
      BY <3>1, <3>2 DEF HInv, Types, Good, Fresh, Memory, Listed, Pointer, Replied, Reported, Queued
  <2>2. CASE ~(conn[on[p]].req = p /\ on[p] = k)
    <3>1. \/ conn'[on[p]] = conn[on[p]]
          \/ conn[on[p]].req # p /\ conn'[on[p]].req # p
      BY <2>2, HttpAssumption DEF HInv, Types, NoConn, NoReq, Req
    <3>2. Alike(p)
      BY <3>1, HttpAssumption DEF Alike, HInv, Types, Queued
    <3> QED
      BY <1>1, <3>2, AlikeGood
  <2> QED
    BY <2>1, <2>2
<1>4. ASSUME NEW l \in Conns PROVE GoodConn(l)'
  BY GoneGoodConn, AlikeGoodConn DEF AlikeConn, HInv, Types
<1> QED
  BY <1>1, <1>2, <1>3, <1>4 DEF HInv

(* A step that touches request q, and the connection it came on, and nothing else. *)
LEMMA OneRequest ==
  ASSUME HInv, NEW q \in Req, q <= arrived, Types',
         UNCHANGED <<arrived, on, open>>,
         \A p \in Req \ {q} : /\ r'[p] = r[p]
                              /\ p \in Queued' <=> p \in Queued
                              /\ p \in senders' <=> p \in senders
                              /\ p \in dispatched' <=> p \in dispatched,
         conn[on[q]].req \in {NoReq, q}, conn'[on[q]].req \in {NoReq, q},
         \A k \in Conns \ {on[q]} : conn'[k] = conn[k] /\ registry'[k] = registry[k],
         \/ handler' = handler
         \/ handler.req \in {NoReq, q} /\ handler'.req \in {NoReq, q},
         Memory(q)', Listed(q)', Pointer(q)', Replied(q)', Reported(q)'
  PROVE  /\ \A p \in Req : Good(p)'
         /\ \A k \in Conns \ {on[q]} : GoodConn(k)'
         /\ handler' = handler /\ handler.req # q => Handling'
<1>1. ASSUME NEW p \in Req, p # q PROVE Good(p)'
  <2>1. p # NoReq /\ on[p] \in Conns
    BY HttpAssumption DEF HInv, Types, Req, NoReq
  <2>2. \/ conn'[on[p]] = conn[on[p]] /\ registry'[on[p]] = registry[on[p]]
        \/ conn[on[p]].req # p /\ conn'[on[p]].req # p
    BY <1>1, <2>1
  <2>3. handler' = handler \/ (handler.req # p /\ handler'.req # p)
    BY <1>1, <2>1
  <2>4. Alike(p)
    BY <1>1, <2>2, <2>3, HttpAssumption DEF Alike, HInv, Types
  <2> QED
    BY <2>4, AlikeGood
<1>2. Fresh(q)'
  BY HttpAssumption DEF HInv, Types, Fresh, Req
<1>3. ASSUME NEW k \in Conns \ {on[q]} PROVE GoodConn(k)'
  BY <1>3, AlikeGoodConn DEF AlikeConn
<1>4. ASSUME handler' = handler, handler.req # q PROVE Handling'
  <2>1. CASE handler.req = NoReq
    BY <2>1, <1>4 DEF Handling
  <2>2. CASE handler.req # NoReq
    <3>1. PICK h \in Req \ {q} : h = handler.req /\ on[h] \in Conns
      <4>1. handler.req \in 0..arrived /\ arrived \in 0..MaxReq
        BY DEF HInv, Types
      <4>2. handler.req \in Req
        BY <2>2, <4>1, HttpAssumption DEF Req, NoReq
      <4> QED
        BY <1>4, <4>2 DEF HInv, Types
    <3>2. open => conn'[on[h]].req = h
      BY <2>2, <3>1 DEF HInv, Handling, NoReq
    <3> QED
      BY <1>4, <2>2, <3>1, <3>2 DEF HInv, Handling
  <2> QED
    BY <2>1, <2>2
<1> QED
  BY <1>1, <1>2, <1>3, <1>4 DEF Good

(* What is known of a request that a handler runs for. *)
LEMMA HandlerFacts ==
  ASSUME HInv, NEW q \in Req, handler.req = q
  PROVE  /\ q <= arrived /\ r[q].final /\ q \notin Queued /\ q \notin senders
         /\ handler.why = "reap" => q \notin dispatched
         /\ handler.why # "reap" => ~r[q].ptr
         /\ handler.why = "complete" => r[q].reply = "whole"
         /\ open => conn[on[q]].req = q
  BY HasArrived, HttpAssumption DEF HInv, Handling, Req, NoReq

(* A request with a pointer, outside a handler for it. *)
LEMMA PointerFacts ==
  ASSUME HInv, NEW q \in Req, r[q].ptr, handler.req # q, open
  PROVE  /\ q <= arrived /\ r[q].mem = "owned" /\ r[q].frees = 0 /\ r[q].handled = 0
         /\ conn[on[q]].req = q /\ conn[on[q]].phase = "busy" /\ conn[on[q]].closecb
         /\ registry[on[q]] = q /\ r[q].reply # "whole" /\ ~r[q].error
         /\ \/ q \in Queued \/ q \in senders
            \/ q \in dispatched /\ ~r[q].final
<1>1. Memory(q) /\ Listed(q) /\ Pointer(q) /\ Replied(q) /\ Reported(q)
  BY DEF HInv, Good
<1>2. q # NoReq /\ on[q] \in Conns
  BY HttpAssumption DEF HInv, Types, Req, NoReq
<1>3. conn[on[q]].req = q
  BY <1>1 DEF Pointer
<1>4. conn[on[q]].phase = "busy"
  BY <1>2, <1>3 DEF HInv, GoodConn
<1> QED
  BY <1>1, <1>3, <1>4, HasArrived DEF Memory, Pointer, Replied, Reported

(* What a script may answer is not being reported, and its connection waits for it or is gone. *)
LEMMA AnswerableFacts ==
  ASSUME HInv, NEW q \in Req, Answerable(q)
  PROVE  /\ q <= arrived /\ r[q].mem = "owned" /\ r[q].frees = 0 /\ r[q].handled <= 1
         /\ handler.req # q /\ conn[on[q]].req \in {NoReq, q}
         /\ q \notin Queued /\ q \notin senders /\ ~r[q].error
<1> USE DEF Answerable
<1>1. Memory(q) /\ Listed(q) /\ Pointer(q) /\ Reported(q)
  BY DEF HInv, Good
<1>2. conn[on[q]].req \in {NoReq, q}
  <2>1. CASE open
    BY <2>1, <1>1 DEF Pointer
  <2>2. CASE ~open
    BY <2>2 DEF HInv, Types, GoodConn, NoConn, NoReq
  <2> QED
    BY <2>1, <2>2
<1> QED
  BY <1>1, <1>2, HasArrived, HandlerFacts DEF Memory, Listed, Reported

(* What queueing a reply does to the record of its request. *)
LEMMA SentFields ==
  ASSUME NEW x \in ReqRecord, NEW b \in BOOLEAN
  PROVE  LET y == Sent(x, b) IN
         /\ y.mem = x.mem /\ y.frees = x.frees /\ y.ptr = FALSE /\ y.resp = x.resp
         /\ y.final = TRUE /\ y.reply = "whole" /\ y.error = x.error /\ y.known = x.known
         /\ y.handled = x.handled
  BY DEF Sent, ReqRecord

(* A reply is queued: the request has no pointer any more, and its connection writes the reply. *)
LEMMA AnswerHInv ==
  ASSUME HInv, NEW q \in Req, NEW b \in BOOLEAN, Answer(q, b)
  PROVE  HInv'
<1> USE DEF Answer, lists
<1>1. Answerable(q)
  OBVIOUS
<1>2. r[q] \in ReqRecord /\ r' = [r EXCEPT ![q] = Sent(r[q], b)] /\ r \in [Req -> ReqRecord]
  BY DEF HInv, Types
<1>3. Types' /\ Steps'
  <2>1. r' \in [Req -> ReqRecord]
    BY <1>2, PieceTypes
  <2> QED
    BY <2>1 DEF HInv, Types, Steps, ConnRecord
<1>4. /\ r'[q] = Sent(r[q], b)
      /\ \A p \in Req \ {q} : r'[p] = r[p]
  BY <1>2
<1>5. UNCHANGED <<open, pc, todo, handler, queue, senders, dispatched, arrived, on, conn, registry>>
  OBVIOUS
<1> HIDE DEF Answer
<1>6. /\ r'[q].mem = r[q].mem /\ r'[q].frees = r[q].frees /\ r'[q].ptr = FALSE
      /\ r'[q].final = TRUE /\ r'[q].reply = "whole" /\ r'[q].error = r[q].error
      /\ r'[q].handled = r[q].handled
  BY <1>2, <1>4, SentFields
<1>7. Memory(q)' /\ Listed(q)' /\ Pointer(q)' /\ Replied(q)' /\ Reported(q)'
  BY <1>1, <1>5, <1>6, AnswerableFacts
  DEF HInv, Good, Memory, Listed, Pointer, Replied, Reported, Queued
<1>8. /\ \A p \in Req : Good(p)'
      /\ \A k \in Conns \ {on[q]} : GoodConn(k)'
      /\ Handling'
  BY <1>1, <1>3, <1>4, <1>5, <1>7, AnswerableFacts, OneRequest DEF Queued
<1>9. \A k \in Conns : GoodConn(k)'
  BY <1>5, AlikeGoodConn DEF AlikeConn
<1> QED
  BY <1>3, <1>8, <1>9 DEF HInv

(* A stream is the reply: the request keeps its pointer, and is a sender. *)
LEMMA SendStreamHInv ==
  ASSUME HInv, NEW q \in Req, SendStream(q)
  PROVE  HInv'
<1> USE DEF SendStream
<1>1. Answerable(q) /\ r[q].ptr /\ r[q].resp
  BY DEF Answerable
<1>2. r[q] \in ReqRecord /\ r \in [Req -> ReqRecord]
  BY DEF HInv, Types
<1>3. Types' /\ Steps'
  <2>1. [r[q] EXCEPT !.final = TRUE, !.reply = "stream"] \in ReqRecord
    BY <1>2 DEF ReqRecord
  <2>2. r' \in [Req -> ReqRecord]
    BY <1>2, <2>1
  <2> QED
    BY <2>2 DEF HInv, Types, Steps, ConnRecord
<1>4. /\ r'[q].mem = r[q].mem /\ r'[q].frees = r[q].frees /\ r'[q].ptr = r[q].ptr
      /\ r'[q].resp = r[q].resp /\ r'[q].final = TRUE /\ r'[q].reply = "stream"
      /\ r'[q].error = r[q].error /\ r'[q].handled = r[q].handled
      /\ \A p \in Req \ {q} : r'[p] = r[p]
  BY <1>2 DEF ReqRecord
<1>5. /\ UNCHANGED <<open, pc, todo, handler, queue, dispatched, arrived, on, conn, registry>>
      /\ senders' = senders \cup {q}
  OBVIOUS
<1> HIDE DEF SendStream
<1>6. Memory(q)' /\ Listed(q)' /\ Pointer(q)' /\ Replied(q)' /\ Reported(q)'
  BY <1>1, <1>4, <1>5, AnswerableFacts
  DEF HInv, Good, Memory, Listed, Pointer, Replied, Reported, Queued
<1>7. /\ \A p \in Req : Good(p)'
      /\ \A k \in Conns \ {on[q]} : GoodConn(k)'
      /\ Handling'
  BY <1>1, <1>3, <1>4, <1>5, <1>6, AnswerableFacts, OneRequest DEF Queued
<1>8. \A k \in Conns : GoodConn(k)'
  BY <1>5, AlikeGoodConn DEF AlikeConn
<1> QED
  BY <1>3, <1>7, <1>8 DEF HInv

(* The connection becomes the WebSocket's, or libevent refuses and answers. *)
LEMMA UpgradeHInv ==
  ASSUME HInv, NEW q \in Req, NEW b \in BOOLEAN, Upgrade(q, b)
  PROVE  HInv'
<1>1. Answerable(q) /\ r[q].ptr
  BY DEF Answerable, Upgrade
<1>2. r[q] \in ReqRecord /\ r \in [Req -> ReqRecord] /\ on[q] \in Conns
      /\ arrived \in Nat /\ conn \in [Conns -> ConnRecord] /\ registry \in [Conns -> 0..arrived]
  BY HttpAssumption DEF HInv, Types
<1>3. /\ UNCHANGED <<open, pc, todo, handler, queue, senders, dispatched, arrived, on>>
      /\ registry' = [registry EXCEPT ![on[q]] = NoReq]
      /\ conn' = conn \/ (b /\ conn' = [conn EXCEPT ![on[q]] = NoConn])
  BY DEF Upgrade, lists
<1>4. r' \in [Req -> ReqRecord] /\ \A p \in Req \ {q} : r'[p] = r[p]
  <2>1. CASE b
    <3>1. [r[q] EXCEPT !.ptr = FALSE, !.final = TRUE, !.ws = TRUE, !.mem = "upgraded"] \in ReqRecord
      BY <1>2 DEF ReqRecord
    <3> QED
      BY <1>2, <2>1, <3>1 DEF Upgrade
  <2>2. CASE ~b
    <3>1. \A y \in ReqRecord : [y EXCEPT !.ws = TRUE] \in ReqRecord
      BY DEF ReqRecord
    <3>2. [Sent(r[q], TRUE) EXCEPT !.ws = TRUE] \in ReqRecord
      BY <1>2, <3>1, PieceTypes
    <3> QED
      BY <1>2, <2>2, <3>2 DEF Upgrade
  <2> QED
    BY <2>1, <2>2
<1>5. /\ r'[q].frees = r[q].frees /\ r'[q].ptr = FALSE /\ r'[q].final = TRUE
      /\ r'[q].error = r[q].error /\ r'[q].handled = r[q].handled
      /\ \/ conn' = [conn EXCEPT ![on[q]] = NoConn] /\ r'[q].mem = "upgraded"
         \/ conn' = conn /\ r'[q].mem = r[q].mem
  <2>1. CASE b
    BY <1>2, <2>1 DEF Upgrade, ReqRecord
  <2>2. CASE ~b
    <3> DEFINE y == Sent(r[q], TRUE)
    <3>1. r'[q] = [y EXCEPT !.ws = TRUE] /\ conn' = conn
      BY <1>2, <2>2 DEF Upgrade
    <3>2. /\ y \in ReqRecord /\ y.frees = r[q].frees /\ y.ptr = FALSE /\ y.final = TRUE
          /\ y.error = r[q].error /\ y.handled = r[q].handled /\ y.mem = r[q].mem
      BY <1>2, PieceTypes, SentFields
    <3> HIDE DEF y
    <3> QED
      BY <3>1, <3>2 DEF ReqRecord
  <2> QED
    BY <2>1, <2>2
<1>6. /\ conn'[on[q]].req \in {NoReq, q}
      /\ conn'[on[q]].req = q => r'[q].mem = r[q].mem /\ conn[on[q]].req = q
  BY <1>1, <1>2, <1>3, <1>5, AnswerableFacts, HttpAssumption DEF NoConn, NoReq, Req
<1>7. Types' /\ Steps'
  <2>1. ConnRecord' = ConnRecord
    BY <1>3 DEF ConnRecord
  <2>2. conn' \in [Conns -> ConnRecord]
    <3>1. NoConn \in ConnRecord
      BY <1>2 DEF ConnRecord, NoConn, NoReq
    <3> QED
      BY <1>2, <1>3, <3>1
  <2>3. registry' \in [Conns -> 0..arrived]
    BY <1>2, <1>3 DEF NoReq
  <2> QED
    BY <1>3, <1>4, <2>1, <2>2, <2>3 DEF HInv, Types, Steps
<1>8. Memory(q)' /\ Listed(q)' /\ Pointer(q)' /\ Replied(q)' /\ Reported(q)'
  BY <1>1, <1>3, <1>5, <1>6, AnswerableFacts
  DEF HInv, Good, Memory, Listed, Pointer, Replied, Reported, Queued
<1>9. /\ \A p \in Req : Good(p)'
      /\ \A k \in Conns \ {on[q]} : GoodConn(k)'
      /\ Handling'
  BY <1>1, <1>2, <1>3, <1>4, <1>6, <1>7, <1>8, AnswerableFacts, OneRequest DEF Queued
<1>10. GoodConn(on[q])'
  BY <1>2, <1>3, GoneGoodConn DEF HInv, GoodConn, NoReq
<1>11. \A k \in Conns : GoodConn(k)'
  BY <1>3, <1>9, <1>10
<1> QED
  BY <1>7, <1>9, <1>11 DEF HInv

(* A stream ends: libevent has the whole reply, Lua has forgotten the request. *)
LEMMA StreamEndsHInv ==
  ASSUME HInv, NEW q \in Req, StreamEnds(q)
  PROVE  HInv'
<1> USE DEF StreamEnds
<1>1. /\ q \in senders /\ r[q].ptr /\ r[q].resp /\ handler.req # q /\ pc = "senders" /\ open
      /\ r[q].final
  BY HttpAssumption DEF Native, HInv, Steps, Good, Listed, Req, NoReq
<1>2. r[q] \in ReqRecord /\ r \in [Req -> ReqRecord]
  BY DEF HInv, Types
<1>3. r' = [r EXCEPT ![q] = Cleanup([r[q] EXCEPT !.reply = "whole"])]
  BY <1>1, <1>2
<1>4. [r[q] EXCEPT !.reply = "whole"] \in ReqRecord
  BY <1>2 DEF ReqRecord
<1>5. /\ r'[q].mem = r[q].mem /\ r'[q].frees = r[q].frees /\ r'[q].ptr = FALSE
      /\ r'[q].resp = FALSE /\ r'[q].final = r[q].final
      /\ r'[q].error = r[q].error /\ r'[q].handled = r[q].handled
      /\ \A p \in Req \ {q} : r'[p] = r[p]
  BY <1>2, <1>3 DEF Cleanup, ReqRecord
<1>6. /\ UNCHANGED <<open, pc, handler, queue, dispatched, arrived, on, conn, registry>>
      /\ senders' = senders \ {q} /\ todo' = todo \ {q}
  OBVIOUS
<1>7. Types' /\ Steps'
  <2>1. r' \in [Req -> ReqRecord]
    BY <1>2, <1>3, <1>4, PieceTypes
  <2> QED
    BY <1>6, <2>1 DEF HInv, Types, Steps, ConnRecord
<1> HIDE DEF StreamEnds
<1>8. Memory(q)' /\ Listed(q)' /\ Pointer(q)' /\ Replied(q)' /\ Reported(q)'
  BY <1>1, <1>5, <1>6
  DEF HInv, Good, Memory, Listed, Pointer, Replied, Reported, Queued
<1>9. /\ \A p \in Req : Good(p)'
      /\ \A k \in Conns \ {on[q]} : GoodConn(k)'
      /\ Handling'
  BY <1>1, <1>5, <1>6, <1>7, <1>8, PointerFacts, OneRequest DEF Queued
<1>10. \A k \in Conns : GoodConn(k)'
  BY <1>6, AlikeGoodConn DEF AlikeConn
<1> QED
  BY <1>7, <1>9, <1>10 DEF HInv

(* What ConnCloseCleanup and the call of the handler do to the record of a request. *)
LEMMA HandledFailFields ==
  ASSUME HInv, NEW q \in Req, NEW e \in BOOLEAN
  PROVE  LET x == Handled(FailRequest(q, e)) IN
         /\ x \in ReqRecord
         /\ x.mem = r[q].mem /\ x.frees = r[q].frees /\ x.final = TRUE /\ x.reply = r[q].reply
         /\ x.handled = r[q].handled + 1
         /\ e => x.error = TRUE
         /\ ~e => x.error = r[q].error
         /\ InLists(q) => x.ptr = FALSE /\ x.resp = FALSE
         /\ ~InLists(q) => x.ptr = r[q].ptr /\ x.resp = r[q].resp
<1> DEFINE y == IF InLists(q) THEN Cleanup(r[q]) ELSE r[q]
           z == [y EXCEPT !.final = TRUE, !.error = @ \/ e]
<1>1. r[q] \in ReqRecord
  BY DEF HInv, Types
<1>2. /\ y \in ReqRecord
      /\ y.mem = r[q].mem /\ y.frees = r[q].frees /\ y.reply = r[q].reply
      /\ y.error = r[q].error /\ y.handled = r[q].handled
      /\ InLists(q) => y.ptr = FALSE /\ y.resp = FALSE
      /\ ~InLists(q) => y.ptr = r[q].ptr /\ y.resp = r[q].resp
  <2>1. CASE InLists(q)
    BY <1>1, <2>1 DEF Cleanup, ReqRecord
  <2>2. CASE ~InLists(q)
    BY <1>1, <2>2
  <2> QED
    BY <2>1, <2>2
<1> HIDE DEF y
<1>3. /\ z \in ReqRecord
      /\ z.mem = y.mem /\ z.frees = y.frees /\ z.reply = y.reply /\ z.handled = y.handled
      /\ z.ptr = y.ptr /\ z.resp = y.resp /\ z.final = TRUE
  BY <1>2 DEF ReqRecord
<1>4. /\ e => z.error = TRUE
      /\ ~e => z.error = y.error
  <2>1. y.error \in BOOLEAN /\ z.error = (y.error \/ e)
    BY <1>2 DEF ReqRecord
  <2> QED
    BY <2>1
<1>5. FailRequest(q, e) = z
  BY DEF FailRequest, y
<1> HIDE DEF z
<1>6. LET x == Handled(z) IN
      /\ x \in ReqRecord
      /\ x.mem = z.mem /\ x.frees = z.frees /\ x.final = z.final /\ x.reply = z.reply
      /\ x.handled = z.handled + 1 /\ x.error = z.error /\ x.ptr = z.ptr /\ x.resp = z.resp
  BY <1>3 DEF Handled, ReqRecord
<1> QED
  BY <1>2, <1>3, <1>4, <1>5, <1>6

(* The reaping takes a request whose client left off its list, and calls the handler. *)
LEMMA ReapHInv ==
  ASSUME HInv, NEW q \in Req, Reap(q)
  PROVE  HInv'
<1> USE DEF Reap
<1>1. /\ q \in dispatched /\ r[q].ptr /\ ~r[q].final /\ handler.req = NoReq /\ handler.req # q
      /\ pc = "reap" /\ open
  BY HttpAssumption DEF Native, Abandoned, Req, NoReq
<1>2. q \notin Queued /\ q \notin senders
  BY <1>1 DEF HInv, Good, Listed
<1>3. ~InLists(q)
  BY <1>2 DEF InLists, Queued
<1>4. UNCHANGED <<open, pc, todo, arrived, on, registry, queue, senders>>
  BY <1>2, Unlisted DEF HInv, Types, Queued
<1>5. /\ dispatched' = dispatched \ {q} /\ handler' = [req |-> q, why |-> "reap"]
      /\ conn' = [conn EXCEPT ![on[q]].closecb = FALSE]
      /\ r' = [r EXCEPT ![q] = Handled(FailRequest(q, TRUE))]
  BY DEF Unlink, Call
<1>6. /\ r[q] \in ReqRecord /\ r \in [Req -> ReqRecord] /\ on[q] \in Conns
      /\ arrived \in Nat /\ conn \in [Conns -> ConnRecord]
  BY HttpAssumption DEF HInv, Types
<1>7. /\ r'[q].mem = r[q].mem /\ r'[q].frees = r[q].frees /\ r'[q].ptr
      /\ r'[q].final = TRUE /\ r'[q].reply = r[q].reply
      /\ r'[q].handled = r[q].handled + 1 /\ r'[q].error
      /\ \A p \in Req \ {q} : r'[p] = r[p]
  BY <1>1, <1>3, <1>5, <1>6, HandledFailFields
<1>8. conn'[on[q]].req = q /\ conn'[on[q]].phase = "busy" /\ conn[on[q]].req = q
  BY <1>1, <1>5, <1>6, PointerFacts DEF ConnRecord
<1>9. Types' /\ Steps'
  <2>1. r' \in [Req -> ReqRecord]
    BY <1>5, <1>6, HandledFailFields
  <2>2. ConnRecord' = ConnRecord /\ conn' \in [Conns -> ConnRecord]
    <3>1. [conn[on[q]] EXCEPT !.closecb = FALSE] \in ConnRecord
      BY <1>6, ConnTypes
    <3>2. ConnRecord' = ConnRecord
      BY <1>4 DEF ConnRecord
    <3> QED
      BY <1>5, <1>6, <3>1, <3>2
  <2>3. handler' \in [req : 0..arrived, why : {"none", "reap", "complete", "closed", "failed"}]
    BY <1>1, <1>5, PointerFacts, HttpAssumption DEF HInv, Types, Req
  <2> QED
    BY <1>1, <1>4, <1>5, <2>1, <2>2, <2>3, HttpAssumption DEF HInv, Types, Steps, Req, NoReq
<1> HIDE DEF Reap
<1>10. Memory(q)' /\ Listed(q)' /\ Pointer(q)' /\ Replied(q)' /\ Reported(q)'
  <2>1. /\ r[q].mem = "owned" /\ r[q].frees = 0 /\ r[q].handled = 0 /\ r[q].reply # "whole"
    BY <1>1, PointerFacts
  <2>2. Memory(q)'
    BY <1>7, <2>1 DEF Memory
  <2>3. Listed(q)' /\ Pointer(q)'
    BY <1>2, <1>4, <1>5, <1>7, <1>8 DEF Listed, Pointer, Queued
  <2>4. Replied(q)'
    BY <1>7, <2>1 DEF Replied
  <2>5. Reported(q)'
    <3>1. r'[q].handled = 1 /\ r'[q].final
      BY <1>7, <2>1
    <3>2. handler'.req = q
      BY <1>5
    <3> QED
      BY <3>1, <3>2 DEF Reported
  <2> QED
    BY <2>2, <2>3, <2>4, <2>5
<1>11. /\ \A p \in Req : Good(p)'
       /\ \A k \in Conns \ {on[q]} : GoodConn(k)'
  BY <1>1, <1>4, <1>5, <1>6, <1>7, <1>8, <1>9, <1>10, PointerFacts, OneRequest DEF Queued
<1>12. GoodConn(on[q])'
  BY <1>1, <1>4, <1>6, <1>8 DEF HInv, GoodConn
<1>13. Handling'
  BY <1>1, <1>2, <1>4, <1>5, <1>7, <1>8 DEF Handling, Queued
<1>14. \A k \in Conns : GoodConn(k)'
  BY <1>4, <1>11, <1>12
<1> QED
  BY <1>9, <1>11, <1>13, <1>14 DEF HInv

(* The handler of the reaping returns: the request and its connection are freed. *)
LEMMA ReapedHInv ==
  ASSUME HInv, NEW q \in Req, Reaped(q)
  PROVE  HInv'
<1> USE DEF Reaped, lists
<1>1. /\ handler.req = q /\ handler.why = "reap" /\ r[q].final
      /\ q \notin Queued /\ q \notin senders /\ q \notin dispatched /\ q <= arrived
      /\ open => conn[on[q]].req = q
  BY HandlerFacts
<1>2. /\ r[q] \in ReqRecord /\ r \in [Req -> ReqRecord] /\ on[q] \in Conns /\ q # NoReq
      /\ arrived \in Nat /\ conn \in [Conns -> ConnRecord] /\ registry \in [Conns -> 0..arrived]
  BY HttpAssumption DEF HInv, Types, Req, NoReq
<1>3. r[q].mem = "owned" /\ r[q].frees = 0 /\ r[q].handled <= 1
  BY DEF HInv, Good, Memory, Reported
<1>4. UNCHANGED <<open, pc, todo, queue, senders, dispatched, arrived, on>> /\ handler' = NotCalled
  OBVIOUS
<1>5. /\ r'[q] \in ReqRecord /\ r' \in [Req -> ReqRecord]
      /\ r'[q].mem = "freed" /\ r'[q].frees = 1 /\ r'[q].ptr = FALSE
      /\ r'[q].final = r[q].final /\ r'[q].reply = r[q].reply
      /\ r'[q].handled = r[q].handled /\ r'[q].error = r[q].error
      /\ \A p \in Req \ {q} : r'[p] = r[p]
  <2> DEFINE x == Free(r[q])
  <2>1. /\ x \in ReqRecord /\ x.mem = "freed" /\ x.frees = 1 /\ x.final = r[q].final
        /\ x.reply = r[q].reply /\ x.handled = r[q].handled /\ x.error = r[q].error
    <3>1. x \in ReqRecord
      BY <1>2, PieceTypes
    <3> QED
      BY <1>2, <1>3, <3>1 DEF Free, ReqRecord
  <2>2. r' = [r EXCEPT ![q] = [x EXCEPT !.ptr = FALSE, !.con = FALSE]]
    OBVIOUS
  <2> HIDE DEF x
  <2> DEFINE y == [x EXCEPT !.ptr = FALSE, !.con = FALSE]
  <2>3. /\ y \in ReqRecord /\ y.mem = x.mem /\ y.frees = x.frees /\ y.ptr = FALSE
        /\ y.final = x.final /\ y.reply = x.reply /\ y.handled = x.handled /\ y.error = x.error
    BY <2>1 DEF ReqRecord
  <2> HIDE DEF y
  <2>4. r'[q] = y /\ r' \in [Req -> ReqRecord] /\ \A p \in Req \ {q} : r'[p] = r[p]
    BY <1>2, <2>2, <2>3 DEF y
  <2> QED
    BY <2>1, <2>3, <2>4
<1>6. /\ conn'[on[q]] = NoConn
      /\ \A k \in Conns \ {on[q]} : conn'[k] = conn[k] /\ registry'[k] = registry[k]
      /\ conn[on[q]].req \in {NoReq, q}
  <2>1. CASE open
    BY <1>1, <1>2, <2>1
  <2>2. CASE ~open
    <3>1. conn[on[q]] = NoConn
      BY <1>2, <2>2 DEF HInv, GoodConn
    <3> QED
      BY <1>2, <2>2, <3>1 DEF NoConn
  <2> QED
    BY <2>1, <2>2
<1>7. Types' /\ Steps'
  <2>1. ConnRecord' = ConnRecord
    BY <1>4 DEF ConnRecord
  <2>2. conn' \in [Conns -> ConnRecord]
    <3>1. NoConn \in ConnRecord
      BY <1>2 DEF ConnRecord, NoConn, NoReq
    <3> QED
      BY <1>2, <3>1
  <2>3. registry' \in [Conns -> 0..arrived]
    BY <1>2 DEF NoReq
  <2> QED
    BY <1>2, <1>4, <1>5, <2>1, <2>2, <2>3 DEF HInv, Types, Steps, NotCalled, NoReq
<1> HIDE DEF Reaped
<1>8. Memory(q)' /\ Listed(q)' /\ Pointer(q)' /\ Replied(q)' /\ Reported(q)'
  BY <1>1, <1>2, <1>4, <1>5, <1>6
  DEF HInv, Good, Memory, Listed, Pointer, Replied, Reported, Queued, NotCalled, NoConn
<1>9. /\ \A p \in Req : Good(p)'
      /\ \A k \in Conns \ {on[q]} : GoodConn(k)'
  BY <1>1, <1>4, <1>5, <1>6, <1>7, <1>8, OneRequest DEF Queued, NotCalled, NoConn
<1>10. GoodConn(on[q])'
  BY <1>2, <1>4, <1>6, GoneGoodConn
<1>11. Handling'
  BY <1>4 DEF Handling, NotCalled
<1>12. \A k \in Conns : GoodConn(k)'
  BY <1>4, <1>9, <1>10
<1> QED
  BY <1>7, <1>9, <1>11, <1>12 DEF HInv

(* libevent has written a reply, and the handler is called for the entry of the connection. *)
LEMMA CompletesHInv ==
  ASSUME HInv, NEW k \in Conns, NEW q \in Req, q = conn[k].req, Completes(k)
  PROVE  HInv'
<1> USE DEF Completes, lists
<1>1. /\ pc = "poll" /\ handler.req = NoReq /\ handler.req # q /\ open
      /\ q # NoReq /\ r[q].reply = "whole"
  BY HttpAssumption DEF Native, HInv, Steps, Req, NoReq
<1>2. /\ r \in [Req -> ReqRecord] /\ arrived \in 0..MaxReq /\ conn \in [Conns -> ConnRecord]
  BY DEF HInv, Types
<1>3. q <= arrived /\ on[q] = k /\ conn[k].phase = "busy" /\ conn[on[q]].req = q
  BY <1>1, <1>2, HttpAssumption DEF HInv, GoodConn, ConnRecord, Req, NoReq
<1>4. registry[k] \in {NoReq, q}
  BY <1>1, <1>3 DEF HInv, GoodConn
<1>5. /\ r[q].final /\ ~r[q].ptr /\ q \notin Queued /\ q \notin senders
      /\ r[q].handled = 0 /\ ~r[q].error /\ r[q].mem = "owned" /\ r[q].frees = 0
  BY <1>1, <1>3 DEF HInv, Good, Replied, Listed, Reported, Memory
<1>6. /\ UNCHANGED <<open, pc, todo, queue, senders, dispatched, arrived, on, conn, registry>>
      /\ handler' = [req |-> q, why |-> "complete"]
  BY DEF Call
<1>7. /\ r' \in [Req -> ReqRecord] /\ \A p \in Req \ {q} : r'[p] = r[p]
      /\ r'[q] = r[q] \/ r'[q] = Handled(r[q])
  BY <1>2, <1>4, PieceTypes
<1>8. Types' /\ Steps'
  <2>1. ConnRecord' = ConnRecord
    BY <1>6 DEF ConnRecord
  <2>2. handler' \in [req : 0..arrived, why : {"none", "reap", "complete", "closed", "failed"}]
    BY <1>2, <1>3, <1>6, HttpAssumption DEF Req
  <2> QED
    BY <1>1, <1>6, <1>7, <2>1, <2>2 DEF HInv, Types, Steps
<1> HIDE DEF Completes
<1>9. /\ r'[q].mem = "owned" /\ r'[q].frees = 0 /\ ~r'[q].ptr /\ r'[q].final
      /\ r'[q].reply = "whole" /\ r'[q].handled \in {0, 1} /\ ~r'[q].error
  <2>1. CASE r'[q] = r[q]
    BY <1>1, <1>5, <2>1
  <2>2. CASE r'[q] = Handled(r[q])
    <3> DEFINE x == Handled(r[q])
    <3>1. /\ x.mem = r[q].mem /\ x.frees = r[q].frees /\ x.ptr = r[q].ptr /\ x.final = r[q].final
          /\ x.reply = r[q].reply /\ x.error = r[q].error /\ x.handled = r[q].handled + 1
      BY <1>2 DEF Handled, ReqRecord
    <3> HIDE DEF x
    <3>2. r'[q] = x
      BY <2>2 DEF x
    <3>3. x.handled \in {0, 1}
      BY <1>5, <3>1
    <3>4. x.mem = "owned" /\ x.frees = 0 /\ x.reply = "whole"
      BY <1>1, <1>5, <3>1
    <3>5. ~x.ptr /\ x.final /\ ~x.error
      BY <1>5, <3>1
    <3> QED
      BY <3>2, <3>3, <3>4, <3>5
  <2> QED
    BY <1>7, <2>1, <2>2
<1>10. Memory(q)' /\ Listed(q)' /\ Pointer(q)' /\ Replied(q)' /\ Reported(q)'
  <2>1. Memory(q)'
    BY <1>9 DEF Memory
  <2>2. Listed(q)'
    BY <1>5, <1>6 DEF Listed, Queued
  <2>3. Pointer(q)'
    BY <1>9 DEF Pointer
  <2>4. Replied(q)'
    BY <1>9 DEF Replied
  <2>5. Reported(q)'
    BY <1>6, <1>9 DEF Reported
  <2> QED
    BY <2>1, <2>2, <2>3, <2>4, <2>5
<1>11. /\ \A p \in Req : Good(p)'
       /\ \A l \in Conns \ {on[q]} : GoodConn(l)'
  BY <1>1, <1>3, <1>6, <1>7, <1>8, <1>10, OneRequest DEF Queued
<1>12. Handling'
  BY <1>1, <1>3, <1>5, <1>6, <1>9 DEF Handling, Queued
<1>13. \A l \in Conns : GoodConn(l)'
  BY <1>6, AlikeGoodConn DEF AlikeConn
<1> QED
  BY <1>8, <1>11, <1>12, <1>13 DEF HInv

(* The handler of a completed reply returns: the request is freed, its connection forgets it. *)
LEMMA CompletedHInv ==
  ASSUME HInv, NEW k \in Conns, NEW q \in Req, q = conn[k].req, Completed(k)
  PROVE  HInv'
<1> USE DEF Completed, lists
<1>1. handler.req = q /\ handler.why = "complete" /\ q # NoReq /\ pc = "poll" /\ open
  BY DEF HInv, Steps, NoReq
<1>2. /\ r \in [Req -> ReqRecord] /\ arrived \in 0..MaxReq /\ conn \in [Conns -> ConnRecord]
      /\ registry \in [Conns -> 0..arrived]
  BY DEF HInv, Types
<1>3. q <= arrived /\ on[q] = k /\ conn[k].phase = "busy" /\ r[q] \in ReqRecord
  BY <1>1, <1>2, HttpAssumption DEF HInv, GoodConn, ConnRecord, Req, NoReq
<1>4. registry[k] \in {NoReq, q}
  BY <1>1, <1>3 DEF HInv, GoodConn
<1>5. /\ r[q].final /\ ~r[q].ptr /\ q \notin Queued /\ q \notin senders
      /\ r[q].mem = "owned" /\ r[q].frees = 0 /\ r[q].handled <= 1
      /\ r[q].error => r[q].handled = 1
  BY <1>1, <1>3, HandlerFacts DEF HInv, Good, Memory, Reported
<1>6. /\ UNCHANGED <<open, pc, todo, queue, senders, arrived, on>>
      /\ handler' = NotCalled /\ dispatched' = dispatched \ {registry[k]}
      /\ registry' = [registry EXCEPT ![k] = NoReq]
      /\ \/ conn' = [conn EXCEPT ![k] = NoConn]
         \/ conn' = [conn EXCEPT ![k] = [conn[k] EXCEPT !.phase = "idle", !.req = NoReq]]
  BY DEF Unregister
<1>7. \E x \in ReqRecord : /\ x = [r[q] EXCEPT !.con = FALSE] \/ x = r[q]
                           /\ r' = [p \in Req |-> IF p = q THEN Free(x) ELSE r[p]]
  <2>1. [r[q] EXCEPT !.con = FALSE] \in ReqRecord
    BY <1>3 DEF ReqRecord
  <2>2. CASE registry[k] = q
    BY <1>3, <2>1, <2>2
  <2>3. CASE registry[k] = NoReq
    BY <1>3, <2>3, HttpAssumption DEF Req, NoReq
  <2> QED
    BY <1>4, <2>2, <2>3
<1> HIDE DEF Completed
<1>8. /\ r' \in [Req -> ReqRecord] /\ \A p \in Req \ {q} : r'[p] = r[p]
      /\ r'[q].mem = "freed" /\ r'[q].frees = 1 /\ ~r'[q].ptr /\ r'[q].final
      /\ r'[q].handled <= 1
      /\ r'[q].error => r'[q].handled = 1
  <2> PICK x \in ReqRecord : /\ x = [r[q] EXCEPT !.con = FALSE] \/ x = r[q]
                             /\ r' = [p \in Req |-> IF p = q THEN Free(x) ELSE r[p]]
    BY <1>7
  <2>1. /\ x.frees = 0 /\ ~x.ptr /\ x.final /\ x.handled = r[q].handled /\ x.error = r[q].error
    BY <1>3, <1>5 DEF ReqRecord
  <2> DEFINE y == Free(x)
  <2>2. y \in ReqRecord
    BY PieceTypes
  <2>3. /\ y.mem = "freed" /\ y.frees = x.frees + 1 /\ y.ptr = x.ptr /\ y.final = x.final
        /\ y.handled = x.handled /\ y.error = x.error
    BY DEF Free, ReqRecord
  <2> HIDE DEF y
  <2>4. r' = [p \in Req |-> IF p = q THEN y ELSE r[p]]
    BY DEF y
  <2>5. r'[q] = y
    BY <2>4
  <2>6. r' \in [Req -> ReqRecord] /\ \A p \in Req \ {q} : r'[p] = r[p]
    BY <1>2, <2>2, <2>4
  <2>7. /\ y.frees = 1 /\ ~y.ptr /\ y.final /\ y.handled <= 1
        /\ y.error => y.handled = 1
    BY <1>5, <2>1, <2>3
  <2> QED
    BY <2>3, <2>5, <2>6, <2>7
<1>9. /\ \A l \in Conns \ {on[q]} : conn'[l] = conn[l] /\ registry'[l] = registry[l]
      /\ conn'[k].req = NoReq /\ conn'[k].phase # "busy" /\ registry'[k] = NoReq
      /\ conn'[k].phase = "none" => ~conn'[k].closecb
      /\ conn' \in [Conns -> ConnRecord]
  <2>1. NoConn \in ConnRecord
    BY <1>2, HttpAssumption DEF ConnRecord, NoConn, NoReq
  <2> DEFINE c == [conn[k] EXCEPT !.phase = "idle", !.req = NoReq]
  <2>2. conn[k] \in ConnRecord /\ 0 \in 0..arrived
    BY <1>2, HttpAssumption
  <2>3. c \in ConnRecord
    BY <2>2 DEF ConnRecord, NoReq
  <2>4. c.req = NoReq /\ c.phase = "idle"
    BY <2>2 DEF ConnRecord
  <2>5. NoConn.req = NoReq /\ NoConn.phase = "none" /\ NoConn.closecb = FALSE
    BY DEF NoConn
  <2>6. conn' = [conn EXCEPT ![k] = NoConn] \/ conn' = [conn EXCEPT ![k] = c]
    BY <1>6
  <2> HIDE DEF c
  <2>7. /\ conn'[k] = NoConn \/ conn'[k] = c
        /\ conn' \in [Conns -> ConnRecord]
        /\ \A l \in Conns \ {k} : conn'[l] = conn[l]
    BY <1>2, <2>1, <2>3, <2>6
  <2>8. registry'[k] = NoReq /\ \A l \in Conns \ {k} : registry'[l] = registry[l]
    BY <1>2, <1>6
  <2>9. conn'[k].req = NoReq /\ conn'[k].phase # "busy"
    BY <2>4, <2>5, <2>7
  <2>10. conn'[k].phase = "none" => ~conn'[k].closecb
    BY <2>4, <2>5, <2>7
  <2> QED
    BY <1>3, <2>7, <2>8, <2>9, <2>10
<1>10. Types' /\ Steps'
  <2>1. ConnRecord' = ConnRecord
    BY <1>6 DEF ConnRecord
  <2>2. registry' \in [Conns -> 0..arrived]
    BY <1>2, <1>6, HttpAssumption DEF NoReq
  <2>3. handler' \in [req : 0..arrived, why : {"none", "reap", "complete", "closed", "failed"}]
    BY <1>2, <1>6, HttpAssumption DEF NotCalled, NoReq
  <2> QED
    BY <1>1, <1>2, <1>6, <1>8, <1>9, <2>1, <2>2, <2>3 DEF HInv, Types, Steps, NotCalled, NoReq
<1>11. Memory(q)' /\ Listed(q)' /\ Pointer(q)' /\ Replied(q)' /\ Reported(q)'
  <2>1. conn'[on'[q]].req # q /\ handler'.why # "reap"
    BY <1>1, <1>3, <1>6, <1>9 DEF NotCalled
  <2>2. Memory(q)'
    BY <1>8, <2>1 DEF Memory
  <2>3. Listed(q)'
    BY <1>5, <1>6 DEF Listed, Queued
  <2>4. Pointer(q)'
    BY <1>8 DEF Pointer
  <2>5. Replied(q)'
    BY <1>8 DEF Replied
  <2>6. Reported(q)'
    BY <1>8, <2>1 DEF Reported
  <2> QED
    BY <2>2, <2>3, <2>4, <2>5, <2>6
<1>12. /\ \A p \in Req : Good(p)'
       /\ \A l \in Conns \ {on[q]} : GoodConn(l)'
  <2>1. \A p \in Req \ {q} : p \in dispatched' <=> p \in dispatched
    BY <1>4, <1>6, HttpAssumption DEF Req, NoReq
  <2>2. conn[on[q]].req = q /\ conn'[on[q]].req = NoReq /\ handler'.req = NoReq
    BY <1>3, <1>6, <1>9 DEF NotCalled
  <2> QED
    BY <1>1, <1>3, <1>6, <1>8, <1>9, <1>10, <1>11, <2>1, <2>2, OneRequest DEF Queued
<1>13. Handling'
  BY <1>6 DEF Handling, NotCalled
<1>14. GoodConn(k)'
  BY <1>1, <1>6, <1>9 DEF GoodConn, NoReq
<1>15. \A l \in Conns : GoodConn(l)'
  BY <1>3, <1>6, <1>12, <1>14
<1> QED
  BY <1>10, <1>12, <1>13, <1>15 DEF HInv

(* A connection ends whose request is known, and the handler is called for it. *)
LEMMA EndsKnownHInv ==
  ASSUME HInv, NEW k \in Conns, NEW q \in Req, q = registry[k], EndsKnown(k)
  PROVE  HInv'
<1> USE DEF EndsKnown, lists
<1>1. /\ pc = "poll" /\ handler.req = NoReq /\ handler.req # q /\ open /\ q # NoReq
      /\ conn[k].phase = "busy" /\ conn[k].req = q /\ on[q] = k /\ r[q].reply # "none"
  BY HttpAssumption DEF Ends, Native, HInv, Steps, GoodConn, Req, NoReq
<1>2. /\ r \in [Req -> ReqRecord] /\ r[q] \in ReqRecord
      /\ arrived \in 0..MaxReq /\ conn \in [Conns -> ConnRecord] /\ queue \in Seq(Req)
  BY DEF HInv, Types
<1>3. q <= arrived
  BY <1>1, HasArrived
<1>4. /\ r[q].final /\ q \notin Queued /\ r[q].mem = "owned" /\ r[q].frees = 0
      /\ r[q].handled = 0 /\ ~r[q].error
      /\ r[q].ptr => q \in senders /\ r[q].reply # "whole"
      /\ ~r[q].ptr => q \notin senders
  BY <1>1 DEF HInv, Good, Memory, Listed, Pointer, Replied, Reported
<1>5. RemoveFirst(queue, q) = queue
  BY <1>2, <1>4, Unlisted DEF Queued
<1>6. /\ UNCHANGED <<open, pc, todo, queue, dispatched, arrived, on, conn, registry>>
      /\ senders' = senders \ {q}
      /\ handler'.req = q /\ handler' \in [req : {q}, why : {"failed", "closed"}]
  <2>1. CASE r[q].ptr
    BY <1>5, <2>1 DEF Call
  <2>2. CASE ~r[q].ptr
    BY <1>4, <2>2 DEF Call
  <2> QED
    BY <2>1, <2>2
<1>7. /\ r' \in [Req -> ReqRecord] /\ \A p \in Req \ {q} : r'[p] = r[p]
      /\ r'[q].mem = "owned" /\ r'[q].frees = 0 /\ ~r'[q].ptr /\ r'[q].final
      /\ r'[q].handled = 1
  <2>1. CASE r[q].ptr
    <3> DEFINE x == Handled(FailRequest(q, FALSE))
    <3>1. InLists(q)
      BY <1>4, <2>1 DEF InLists
    <3>2. /\ x \in ReqRecord /\ x.mem = r[q].mem /\ x.frees = r[q].frees /\ x.ptr = FALSE
          /\ x.final = TRUE /\ x.handled = r[q].handled + 1
      BY <3>1, HandledFailFields
    <3>3. r' = [r EXCEPT ![q] = x]
      BY <2>1
    <3> HIDE DEF x
    <3>4. x.handled = 1
      BY <1>4, <3>2
    <3> QED
      BY <1>2, <1>4, <3>2, <3>3, <3>4
  <2>2. CASE ~r[q].ptr
    <3> DEFINE x == Handled(r[q])
    <3>1. x \in ReqRecord
      BY <1>2, PieceTypes
    <3>2. /\ x.mem = r[q].mem /\ x.frees = r[q].frees /\ x.ptr = r[q].ptr
          /\ x.final = r[q].final /\ x.handled = r[q].handled + 1
      BY <1>2 DEF Handled, ReqRecord
    <3>3. r' = [r EXCEPT ![q] = x]
      BY <2>2
    <3> HIDE DEF x
    <3>4. x.handled = 1
      BY <1>4, <3>2
    <3> QED
      BY <1>2, <1>4, <2>2, <3>1, <3>2, <3>3, <3>4
  <2> QED
    BY <2>1, <2>2
<1>8. Types' /\ Steps'
  <2>1. ConnRecord' = ConnRecord
    BY <1>6 DEF ConnRecord
  <2>2. handler' \in [req : 0..arrived, why : {"none", "reap", "complete", "closed", "failed"}]
    BY <1>2, <1>3, <1>6, HttpAssumption DEF Req
  <2>3. Types'
    BY <1>6, <1>7, <2>1, <2>2 DEF HInv, Types
  <2>4. handler'.why \in {"failed", "closed"} /\ handler'.req = q
    BY <1>6
  <2>5. todo = {}
    BY <1>1 DEF HInv, Steps
  <2>6. Steps'
    BY <1>1, <1>6, <2>4, <2>5 DEF Steps
  <2> QED
    BY <2>3, <2>6
<1> HIDE DEF EndsKnown
<1>9. Memory(q)' /\ Listed(q)' /\ Pointer(q)' /\ Replied(q)' /\ Reported(q)'
  <2>1. Memory(q)'
    BY <1>7 DEF Memory
  <2>2. Listed(q)'
    BY <1>4, <1>6 DEF Listed, Queued
  <2>3. Pointer(q)'
    BY <1>7 DEF Pointer
  <2>4. Replied(q)'
    BY <1>7 DEF Replied
  <2>5. Reported(q)'
    BY <1>6, <1>7 DEF Reported
  <2> QED
    BY <2>1, <2>2, <2>3, <2>4, <2>5
<1>10. /\ \A p \in Req : Good(p)'
       /\ \A l \in Conns \ {on[q]} : GoodConn(l)'
  BY <1>1, <1>3, <1>6, <1>7, <1>8, <1>9, OneRequest DEF Queued
<1>11. Handling'
  <2>1. handler'.why \in {"failed", "closed"}
    BY <1>6
  <2> QED
    BY <1>1, <1>4, <1>6, <1>7, <2>1 DEF Handling, Queued
<1>12. \A l \in Conns : GoodConn(l)'
  BY <1>6, AlikeGoodConn DEF AlikeConn
<1> QED
  BY <1>8, <1>10, <1>11, <1>12 DEF HInv

(* That handler returns, and the connection is gone. *)
LEMMA EndedHInv ==
  ASSUME HInv, NEW k \in Conns, NEW q \in Req, q = conn[k].req, Ended(k)
  PROVE  HInv'
<1> USE DEF Ended, lists
<1>1. /\ handler.req = q /\ handler.why # "reap" /\ q # NoReq /\ pc = "poll" /\ open
  BY DEF HInv, Steps, NoReq
<1>2. /\ r \in [Req -> ReqRecord] /\ arrived \in 0..MaxReq /\ conn \in [Conns -> ConnRecord]
      /\ registry \in [Conns -> 0..arrived]
  BY DEF HInv, Types
<1>3. q <= arrived /\ on[q] = k /\ conn[k].phase = "busy" /\ r[q] \in ReqRecord
  BY <1>1, <1>2, HttpAssumption DEF HInv, GoodConn, ConnRecord, Req, NoReq
<1>4. registry[k] \in {NoReq, q}
  BY <1>1, <1>3 DEF HInv, GoodConn
<1>5. /\ r[q].final /\ ~r[q].ptr /\ q \notin Queued /\ q \notin senders
      /\ r[q].frees = IF r[q].mem = "freed" THEN 1 ELSE 0
      /\ r[q].handled <= 1
      /\ r[q].error => r[q].handled = 1
  BY <1>1, <1>3, HandlerFacts DEF HInv, Good, Memory, Reported
<1>6. /\ UNCHANGED <<open, pc, todo, queue, senders, dispatched, arrived, on>>
      /\ handler' = NotCalled
      /\ conn' = [conn EXCEPT ![k] = NoConn]
      /\ registry' = [registry EXCEPT ![k] = NoReq] \/ registry' = registry
  OBVIOUS
<1>7. r' = r \/ r' = [r EXCEPT ![q].con = FALSE]
  <2>1. CASE registry[k] = q
    BY <2>1
  <2>2. CASE registry[k] = NoReq
    BY <1>2, <2>2, HttpAssumption DEF Req, NoReq
  <2> QED
    BY <1>4, <2>1, <2>2
<1> HIDE DEF Ended
<1>8. /\ r' \in [Req -> ReqRecord] /\ \A p \in Req \ {q} : r'[p] = r[p]
      /\ r'[q].mem = r[q].mem /\ r'[q].frees = r[q].frees /\ ~r'[q].ptr /\ r'[q].final
      /\ r'[q].handled = r[q].handled /\ r'[q].error = r[q].error
  <2>1. CASE r' = r
    BY <1>2, <1>5, <2>1
  <2>2. CASE r' = [r EXCEPT ![q].con = FALSE]
    <3> DEFINE y == [r[q] EXCEPT !.con = FALSE]
    <3>1. /\ y \in ReqRecord /\ y.mem = r[q].mem /\ y.frees = r[q].frees /\ y.ptr = r[q].ptr
          /\ y.final = r[q].final /\ y.handled = r[q].handled /\ y.error = r[q].error
      BY <1>3 DEF ReqRecord
    <3>2. r' = [r EXCEPT ![q] = y]
      BY <2>2
    <3> HIDE DEF y
    <3> QED
      BY <1>2, <1>5, <3>1, <3>2
  <2> QED
    BY <1>7, <2>1, <2>2
<1>9. /\ conn'[k] = NoConn /\ conn'[k].req = NoReq
      /\ conn' \in [Conns -> ConnRecord] /\ registry' \in [Conns -> 0..arrived]
      /\ \A l \in Conns \ {k} : conn'[l] = conn[l] /\ registry'[l] = registry[l]
  <2>1. NoConn \in ConnRecord /\ NoConn.req = NoReq
    BY <1>2, HttpAssumption DEF ConnRecord, NoConn, NoReq
  <2>2. NoReq \in 0..arrived
    BY <1>2, HttpAssumption DEF NoReq
  <2>3. conn'[k] = NoConn /\ conn' \in [Conns -> ConnRecord]
    BY <1>2, <1>6, <2>1
  <2>4. registry' \in [Conns -> 0..arrived]
    BY <1>2, <1>6, <2>2
  <2>5. \A l \in Conns \ {k} : conn'[l] = conn[l] /\ registry'[l] = registry[l]
    BY <1>2, <1>6
  <2> QED
    BY <2>1, <2>3, <2>4, <2>5
<1>10. Types' /\ Steps'
  <2>1. ConnRecord' = ConnRecord
    BY <1>6 DEF ConnRecord
  <2>2. handler' \in [req : 0..arrived, why : {"none", "reap", "complete", "closed", "failed"}]
    BY <1>2, <1>6, HttpAssumption DEF NotCalled, NoReq
  <2> QED
    BY <1>1, <1>6, <1>8, <1>9, <2>1, <2>2 DEF HInv, Types, Steps, NotCalled, NoReq
<1>11. Memory(q)' /\ Listed(q)' /\ Pointer(q)' /\ Replied(q)' /\ Reported(q)'
  <2>1. conn'[on'[q]].req # q /\ handler'.why # "reap"
    BY <1>1, <1>3, <1>6, <1>9 DEF NotCalled
  <2>2. Memory(q)'
    BY <1>5, <1>8, <2>1 DEF Memory
  <2>3. Listed(q)'
    BY <1>5, <1>6 DEF Listed, Queued
  <2>4. Pointer(q)'
    BY <1>8 DEF Pointer
  <2>5. Replied(q)'
    BY <1>8 DEF Replied
  <2>6. Reported(q)'
    BY <1>5, <1>8, <2>1 DEF Reported
  <2> QED
    BY <2>2, <2>3, <2>4, <2>5, <2>6
<1>12. /\ \A p \in Req : Good(p)'
       /\ \A l \in Conns \ {on[q]} : GoodConn(l)'
  <2>1. conn[on[q]].req = q /\ conn'[on[q]].req = NoReq /\ handler'.req = NoReq
    BY <1>3, <1>6, <1>9 DEF NotCalled
  <2> QED
    BY <1>1, <1>3, <1>6, <1>8, <1>9, <1>10, <1>11, <2>1, OneRequest DEF Queued
<1>13. Handling'
  BY <1>6 DEF Handling, NotCalled
<1>14. \A l \in Conns : GoodConn(l)'
  BY <1>3, <1>9, <1>12, GoneGoodConn
<1> QED
  BY <1>10, <1>12, <1>13, <1>14 DEF HInv

(* The queue of different requests. *)
LEMMA Appended ==
  ASSUME NEW S, NEW s \in Seq(S), NEW e \in S, e \notin ToSet(s), IsInjective(s)
  PROVE  /\ Append(s, e) \in Seq(S) /\ IsInjective(Append(s, e))
         /\ ToSet(Append(s, e)) = ToSet(s) \cup {e}
  BY DEF ToSet, IsInjective

(* Taking the head of the queue takes it once. *)
LEMMA Dequeued ==
  ASSUME NEW S, NEW s \in Seq(S), s # <<>>, IsInjective(s)
  PROVE  /\ Tail(s) \in Seq(S) /\ IsInjective(Tail(s))
         /\ Head(s) \in ToSet(s) /\ Head(s) \in S
         /\ ToSet(Tail(s)) = ToSet(s) \ {Head(s)}
<1>1. Len(s) \in Nat \ {0} /\ Len(Tail(s)) = Len(s) - 1
  OBVIOUS
<1>2. Head(s) \in ToSet(s)
  BY <1>1 DEF ToSet
<1>3. IsInjective(Tail(s))
  BY <1>1 DEF ToSet, IsInjective
<1>4. ToSet(Tail(s)) \subseteq ToSet(s) \ {Head(s)}
  BY <1>1 DEF ToSet, IsInjective
<1>5. ASSUME NEW x \in ToSet(s), x # Head(s) PROVE x \in ToSet(Tail(s))
  <2>1. PICK i \in 1..Len(s) : s[i] = x
    BY DEF ToSet
  <2>2. i # 1
    BY <1>5, <2>1
  <2>3. i - 1 \in 1..Len(Tail(s)) /\ Tail(s)[i - 1] = x
    BY <1>1, <2>1, <2>2
  <2>4. i - 1 \in DOMAIN Tail(s)
    BY <1>1, <2>3
  <2> QED
    BY <2>3, <2>4 DEF ToSet
<1>6. Tail(s) \in Seq(S) /\ Head(s) \in S
  OBVIOUS
<1> QED
  BY <1>2, <1>3, <1>4, <1>5, <1>6

(* The head of the queue is handed to Lua. *)
LEMMA DispatchHInv ==
  ASSUME HInv, Dispatch
  PROVE  HInv'
<1> USE DEF Dispatch, Native
<1>1. CASE queue = <<>>
  <2>1. Types' /\ Steps'
    BY <1>1 DEF HInv, Types, Steps, ConnRecord, NoReq
  <2>2. \A k \in Conns : GoodConn(k)'
    BY DEF HInv, GoodConn
  <2> QED
    BY <1>1, <2>1, <2>2, NothingHandled
<1>2. CASE queue # <<>>
  <2>1. PICK q \in Req : /\ q = Head(queue) /\ q \in Queued /\ Queued' = Queued \ {q}
                         /\ queue' \in Seq(Req) /\ IsInjective(queue')
    <3>1. queue \in Seq(Req) /\ IsInjective(queue) /\ queue' = Tail(queue)
      BY <1>2 DEF HInv, Types, Dequeue
    <3>2. /\ Tail(queue) \in Seq(Req) /\ IsInjective(Tail(queue))
          /\ Head(queue) \in ToSet(queue) /\ Head(queue) \in Req
          /\ ToSet(Tail(queue)) = ToSet(queue) \ {Head(queue)}
      BY <1>2, <3>1, Dequeued
    <3> QED
      BY <3>1, <3>2 DEF Queued
  <2>2. /\ UNCHANGED <<open, todo, handler, senders, arrived, on, conn, registry>>
        /\ dispatched' = dispatched \cup {q} /\ r' = [r EXCEPT ![q].known = TRUE]
        /\ pc' = "yielded" /\ handler.req = NoReq /\ handler.req # q
        /\ pc = "dispatch"
    BY <1>2, <2>1, HttpAssumption DEF Req, NoReq
  <2>3. /\ r[q].ptr /\ r[q].resp /\ ~r[q].final /\ q \notin senders /\ q <= arrived
        /\ r[q] \in ReqRecord /\ r \in [Req -> ReqRecord] /\ on[q] \in Conns
    BY <2>1, HasArrived DEF HInv, Types, Good, Listed
  <2>4. /\ r' \in [Req -> ReqRecord] /\ \A p \in Req \ {q} : r'[p] = r[p]
        /\ r'[q].mem = r[q].mem /\ r'[q].frees = r[q].frees /\ r'[q].ptr = r[q].ptr
        /\ r'[q].resp = r[q].resp /\ r'[q].final = r[q].final /\ r'[q].reply = r[q].reply
        /\ r'[q].handled = r[q].handled /\ r'[q].error = r[q].error
    <3> DEFINE y == [r[q] EXCEPT !.known = TRUE]
    <3>1. /\ y \in ReqRecord /\ y.mem = r[q].mem /\ y.frees = r[q].frees /\ y.ptr = r[q].ptr
          /\ y.resp = r[q].resp /\ y.final = r[q].final /\ y.reply = r[q].reply
          /\ y.handled = r[q].handled /\ y.error = r[q].error
      BY <2>3 DEF ReqRecord
    <3>2. r' = [r EXCEPT ![q] = y]
      BY <2>2
    <3> HIDE DEF y
    <3> QED
      BY <2>3, <3>1, <3>2
  <2>5. Types' /\ Steps'
    <3>1. ConnRecord' = ConnRecord
      BY <2>2 DEF ConnRecord
    <3> QED
      BY <2>1, <2>2, <2>4, <3>1 DEF HInv, Types, Steps, NoReq
  <2> HIDE DEF Dispatch
  <2>6. Memory(q)' /\ Listed(q)' /\ Pointer(q)' /\ Replied(q)' /\ Reported(q)'
    <3>1. Memory(q) /\ Pointer(q) /\ Replied(q) /\ Reported(q)
      BY DEF HInv, Good
    <3>2. Memory(q)'
      BY <2>2, <2>4, <3>1 DEF Memory
    <3>3. Listed(q)'
      BY <2>1, <2>2, <2>3 DEF Listed
    <3>4. Pointer(q)'
      BY <2>2, <2>3, <2>4, <3>1 DEF Pointer
    <3>5. Replied(q)'
      BY <2>2, <2>4, <3>1 DEF Replied
    <3>6. Reported(q)'
      BY <2>2, <2>4, <3>1 DEF Reported
    <3> QED
      BY <3>2, <3>3, <3>4, <3>5, <3>6
  <2>7. conn[on[q]].req \in {NoReq, q}
    <3>1. CASE open
      BY <2>2, <2>3, <3>1, PointerFacts
    <3>2. CASE ~open
      BY <2>3, <3>2 DEF HInv, GoodConn, NoConn
    <3> QED
      BY <3>1, <3>2
  <2>8. /\ \A p \in Req : Good(p)'
        /\ Handling'
    BY <2>1, <2>2, <2>3, <2>4, <2>5, <2>6, <2>7, OneRequest
  <2>9. \A k \in Conns : GoodConn(k)'
    BY <2>2, AlikeGoodConn DEF AlikeConn
  <2> QED
    BY <2>5, <2>8, <2>9 DEF HInv
<1> QED
  BY <1>1, <1>2

(* A request arrives on an idle connection, and nothing of an earlier one is left there. *)
LEMMA ArrivesHInv ==
  ASSUME HInv, NEW k \in Conns, Arrives(k)
  PROVE  HInv'
<1> USE DEF Arrives, Native
<1>1. /\ r \in [Req -> ReqRecord] /\ arrived \in 0..MaxReq /\ arrived < MaxReq
      /\ conn \in [Conns -> ConnRecord] /\ registry \in [Conns -> 0..arrived]
      /\ on \in [Req -> Conns] /\ queue \in Seq(Req) /\ IsInjective(queue)
  BY DEF HInv, Types
<1>2. PICK q \in Req : q = arrived + 1
  BY <1>1, HttpAssumption DEF Req
<1>3. /\ UNCHANGED <<open, pc, todo, handler, senders, dispatched>>
      /\ arrived' = q /\ on' = [on EXCEPT ![q] = k]
      /\ registry' = [registry EXCEPT ![k] = q] /\ queue' = Append(queue, q)
      /\ conn' = [conn EXCEPT ![k] = [conn[k] EXCEPT !.phase = "busy", !.req = q, !.closecb = TRUE]]
      /\ r' = [r EXCEPT ![q] = [r[q] EXCEPT !.mem = "owned", !.ptr = TRUE, !.con = TRUE,
                                            !.resp = TRUE]]
      /\ pc = "poll" /\ handler.req = NoReq
  BY <1>2 DEF Register
<1>4. open /\ conn[k].req = NoReq /\ conn[k].phase = "idle"
  BY DEF HInv, Steps, GoodConn
<1> HIDE DEF Arrives
<1>5. /\ q > arrived /\ q # NoReq /\ q \in Nat /\ arrived \in Nat
  BY <1>1, <1>2, HttpAssumption DEF NoReq
<1>6. /\ r[q] = Blank /\ q \notin Queued /\ q \notin senders /\ q \notin dispatched
  BY <1>5 DEF HInv, Good, Fresh
<1>7. /\ r' \in [Req -> ReqRecord] /\ \A p \in Req \ {q} : r'[p] = r[p]
      /\ r'[q].mem = "owned" /\ r'[q].frees = 0 /\ r'[q].ptr /\ r'[q].resp /\ ~r'[q].final
      /\ r'[q].reply = "none" /\ ~r'[q].error /\ ~r'[q].known /\ r'[q].handled = 0
  <2> DEFINE y == [r[q] EXCEPT !.mem = "owned", !.ptr = TRUE, !.con = TRUE, !.resp = TRUE]
  <2>1. y \in ReqRecord
    BY <1>1 DEF ReqRecord
  <2>2. /\ y.mem = "owned" /\ y.frees = 0 /\ y.ptr /\ y.resp /\ ~y.final
        /\ y.reply = "none" /\ ~y.error /\ ~y.known /\ y.handled = 0
    BY <1>6 DEF Blank
  <2> HIDE DEF y
  <2>3. r' = [r EXCEPT ![q] = y]
    BY <1>3 DEF y
  <2> QED
    BY <1>1, <2>1, <2>2, <2>3
<1>8. /\ conn' \in [Conns -> ConnRecord'] /\ \A l \in Conns \ {k} : conn'[l] = conn[l]
      /\ conn'[k].phase = "busy" /\ conn'[k].req = q /\ conn'[k].closecb
  <2> DEFINE c == [conn[k] EXCEPT !.phase = "busy", !.req = q, !.closecb = TRUE]
  <2>1. conn[k] \in ConnRecord /\ q \in 0..arrived' /\ \A x \in ConnRecord : x \in ConnRecord'
    BY <1>1, <1>3, <1>5 DEF ConnRecord
  <2>2. c \in ConnRecord'
    BY <2>1 DEF ConnRecord
  <2>3. c.phase = "busy" /\ c.req = q /\ c.closecb
    BY <2>1 DEF ConnRecord
  <2> HIDE DEF c
  <2>4. conn' = [conn EXCEPT ![k] = c]
    BY <1>3 DEF c
  <2> QED
    BY <1>1, <2>1, <2>2, <2>3, <2>4
<1>9. /\ registry' \in [Conns -> 0..arrived'] /\ registry'[k] = q
      /\ \A l \in Conns \ {k} : registry'[l] = registry[l]
  <2>1. q \in 0..arrived' /\ 0..arrived \subseteq 0..arrived'
    BY <1>3, <1>5
  <2> QED
    BY <1>1, <1>3, <2>1
<1>10. on' \in [Req -> Conns] /\ on'[q] = k /\ \A p \in Req \ {q} : on'[p] = on[p]
  BY <1>1, <1>3
<1>11. /\ queue' \in Seq(Req) /\ IsInjective(queue') /\ Queued' = Queued \cup {q}
  BY <1>1, <1>3, <1>6, Appended DEF Queued
<1>12. Types' /\ Steps'
  <2>1. handler' \in [req : 0..arrived', why : {"none", "reap", "complete", "closed", "failed"}]
    BY <1>1, <1>3, <1>5 DEF HInv, Types
  <2>2. arrived' \in 0..MaxReq
    BY <1>3, HttpAssumption DEF Req
  <2>3. Types'
    BY <1>3, <1>7, <1>8, <1>9, <1>10, <1>11, <2>1, <2>2 DEF HInv, Types
  <2>4. Steps'
    BY <1>3 DEF HInv, Steps
  <2> QED
    BY <2>3, <2>4
<1>13. Good(q)'
  <2>1. Fresh(q)'
    BY <1>3, <1>5 DEF Fresh
  <2>2. Memory(q)'
    BY <1>7 DEF Memory
  <2>3. Listed(q)'
    BY <1>3, <1>6, <1>7 DEF Listed
  <2>4. Pointer(q)'
    BY <1>8, <1>9, <1>10, <1>11 DEF Pointer
  <2>5. Replied(q)'
    BY <1>7 DEF Replied
  <2>6. Reported(q)'
    BY <1>7 DEF Reported
  <2> QED
    BY <2>1, <2>2, <2>3, <2>4, <2>5, <2>6 DEF Good
<1>14. ASSUME NEW p \in Req, p # q PROVE Good(p)'
  <2>1. p # NoReq /\ on[p] \in Conns
    BY <1>1, HttpAssumption DEF Req, NoReq
  <2>2. \/ conn'[on[p]] = conn[on[p]] /\ registry'[on[p]] = registry[on[p]]
        \/ conn[on[p]].req # p /\ conn'[on[p]].req # p
    BY <1>4, <1>8, <1>9, <1>14, <2>1
  <2>3. /\ conn'[on[p]].req = p => conn[on[p]].req = p
        /\ conn[on[p]].req = p => /\ conn'[on[p]].req = p
                                  /\ conn'[on[p]].closecb = conn[on[p]].closecb
                                  /\ registry'[on[p]] = registry[on[p]]
    BY <2>2
  <2>4. r'[p] = r[p] /\ on'[p] = on[p] /\ arrived <= arrived' /\ (p \in Queued' <=> p \in Queued)
    BY <1>3, <1>5, <1>7, <1>10, <1>11, <1>14
  <2>5. Alike(p)
    BY <1>3, <2>3, <2>4 DEF Alike
  <2> QED
    BY <1>12, <2>5, AlikeGood
<1>15. GoodConn(k)'
  BY <1>3, <1>4, <1>5, <1>8, <1>9, <1>10 DEF GoodConn
<1>16. ASSUME NEW l \in Conns, l # k PROVE GoodConn(l)'
  <2>1. conn[l].req # q
    BY <1>1, <1>5 DEF ConnRecord
  <2>2. conn[l].req # NoReq => conn[l].req \in Req
    BY <1>1, HttpAssumption DEF ConnRecord, Req, NoReq
  <2>3. AlikeConn(l)
    BY <1>3, <1>8, <1>9, <1>10, <1>16, <2>1, <2>2 DEF AlikeConn
  <2> QED
    BY <2>3, AlikeGoodConn
<1>17. Handling'
  BY <1>3 DEF Handling
<1> QED
  BY <1>12, <1>13, <1>14, <1>15, <1>16, <1>17 DEF HInv

(* What the teardown does to the record of a listed request. *)
LEMMA TornFields ==
  ASSUME NEW x \in ReqRecord, NEW y, y = Cleanup(FreeOwn(x)) \/ y = [FreeOwn(x) EXCEPT !.con = FALSE]
  PROVE  /\ y \in ReqRecord /\ ~y.ptr
         /\ y.final = x.final /\ y.reply = x.reply /\ y.error = x.error /\ y.handled = x.handled
         /\ \/ x.ptr /\ y.mem = "freed" /\ y.frees = x.frees + 1
            \/ ~x.ptr /\ y.mem = x.mem /\ y.frees = x.frees
<1> DEFINE z == FreeOwn(x)
<1>1. /\ z \in ReqRecord /\ ~z.ptr
      /\ z.final = x.final /\ z.reply = x.reply /\ z.error = x.error /\ z.handled = x.handled
      /\ \/ x.ptr /\ z.mem = "freed" /\ z.frees = x.frees + 1
         \/ ~x.ptr /\ z.mem = x.mem /\ z.frees = x.frees
  <2>1. CASE x.ptr
    <3> DEFINE f == Free(x)
    <3>1. /\ f \in ReqRecord
          /\ f.mem = "freed" /\ f.frees = x.frees + 1
          /\ f.final = x.final /\ f.reply = x.reply /\ f.error = x.error /\ f.handled = x.handled
      BY PieceTypes DEF Free, ReqRecord
    <3> HIDE DEF f
    <3>2. z = [f EXCEPT !.ptr = FALSE]
      BY <2>1 DEF FreeOwn, f
    <3> HIDE DEF z
    <3>3. /\ z \in ReqRecord /\ ~z.ptr /\ z.mem = f.mem /\ z.frees = f.frees
          /\ z.final = f.final /\ z.reply = f.reply /\ z.error = f.error /\ z.handled = f.handled
      BY <3>1, <3>2 DEF ReqRecord
    <3> QED
      BY <2>1, <3>1, <3>3
  <2>2. CASE ~x.ptr
    BY <2>2 DEF FreeOwn
  <2> QED
    BY <2>1, <2>2
<1> HIDE DEF z
<1>2. /\ y \in ReqRecord /\ y.ptr \in {FALSE, z.ptr} /\ y.mem = z.mem /\ y.frees = z.frees
      /\ y.final = z.final /\ y.reply = z.reply /\ y.error = z.error /\ y.handled = z.handled
  <2>1. CASE y = Cleanup(z)
    BY <1>1, <2>1 DEF Cleanup, ReqRecord
  <2>2. CASE y = [z EXCEPT !.con = FALSE]
    BY <1>1, <2>2 DEF ReqRecord
  <2> QED
    BY <2>1, <2>2 DEF z
<1> QED
  BY <1>1, <1>2

(* The teardown frees every request nobody answered, except the one being reaped. *)
LEMMA CloseServerHInv ==
  ASSUME HInv, CloseServer
  PROVE  HInv'
<1> USE DEF CloseServer, Teardown
<1>1. /\ r \in [Req -> ReqRecord] /\ arrived \in 0..MaxReq
      /\ conn \in [Conns -> ConnRecord] /\ registry \in [Conns -> 0..arrived]
      /\ on \in [Req -> Conns]
  BY DEF HInv, Types
<1>2. /\ open' = FALSE /\ pc \in {"yielded", "reap"}
      /\ queue' = <<>> /\ Queued' = {} /\ senders' = {} /\ dispatched' = {}
      /\ UNCHANGED <<pc, todo, handler, arrived, on>>
  BY DEF Queued, ToSet
<1>3. conn' = [l \in Conns |-> NoConn] /\ NoConn.req = NoReq /\ NoConn \in ConnRecord
  BY <1>1, HttpAssumption DEF NoConn, NoReq, ConnRecord
<1>4. ASSUME NEW q \in Req
      PROVE  /\ r'[q] \in ReqRecord
             /\ r'[q].final = r[q].final /\ r'[q].reply = r[q].reply /\ r'[q].error = r[q].error
             /\ r'[q].handled = r[q].handled
             /\ \/ r[q].ptr /\ r'[q].mem = "freed" /\ r'[q].frees = r[q].frees + 1
                \/ r'[q].mem = r[q].mem /\ r'[q].frees = r[q].frees
             /\ \/ ~r'[q].ptr
                \/ r'[q] = r[q] /\ q \notin Queued /\ q \notin senders /\ q \notin dispatched
             /\ q \notin Queued /\ q \notin senders /\ q \notin dispatched => r'[q] = r[q]
  <2>1. CASE InLists(q) \/ q \in dispatched
    <3>1. r'[q] = Cleanup(FreeOwn(r[q])) \/ r'[q] = [FreeOwn(r[q]) EXCEPT !.con = FALSE]
      BY <2>1
    <3>2. q \in Queued \/ q \in senders \/ q \in dispatched
      BY <2>1 DEF InLists, Queued
    <3>3. PICK x \in ReqRecord : x = r[q]
      BY <1>1
    <3>4. PICK y : y = r'[q]
      OBVIOUS
    <3>5. /\ y \in ReqRecord /\ ~y.ptr
          /\ y.final = x.final /\ y.reply = x.reply /\ y.error = x.error /\ y.handled = x.handled
          /\ \/ x.ptr /\ y.mem = "freed" /\ y.frees = x.frees + 1
             \/ ~x.ptr /\ y.mem = x.mem /\ y.frees = x.frees
      <4>1. y = Cleanup(FreeOwn(x)) \/ y = [FreeOwn(x) EXCEPT !.con = FALSE]
        BY <3>1, <3>3, <3>4
      <4> QED
        BY <4>1, TornFields
    <3> QED
      BY <3>2, <3>3, <3>4, <3>5
  <2>2. CASE ~(InLists(q) \/ q \in dispatched)
    BY <1>1, <2>2 DEF InLists, Queued
  <2> QED
    BY <2>1, <2>2
<1>5. r' \in [Req -> ReqRecord]
  <2>1. r' = [q \in Req |-> r'[q]]
    OBVIOUS
  <2> QED
    BY <1>4, <2>1
<1>6. registry' \in [Conns -> 0..arrived]
  BY <1>1, HttpAssumption DEF NoReq
<1> HIDE DEF CloseServer, Teardown
<1>7. handler.why \in {"none", "reap"} /\ todo = {} /\ (handler.req # NoReq => handler.why = "reap")
  BY <1>2 DEF HInv, Types, Steps
<1>8. Types' /\ Steps'
  <2>1. ConnRecord' = ConnRecord
    BY <1>2 DEF ConnRecord
  <2>2. conn' \in [Conns -> ConnRecord]
    BY <1>3
  <2>3. queue' \in Seq(Req) /\ IsInjective(queue')
    BY <1>2 DEF IsInjective
  <2>4. Types'
    BY <1>2, <1>5, <1>6, <2>1, <2>2, <2>3 DEF HInv, Types
  <2>5. Steps'
    BY <1>2, <1>7 DEF HInv, Steps
  <2> QED
    BY <2>4, <2>5
<1>9. ASSUME NEW q \in Req PROVE Good(q)'
  <2>1. Fresh(q) /\ Memory(q) /\ Listed(q) /\ Pointer(q) /\ Replied(q) /\ Reported(q)
    BY DEF HInv, Good
  <2>2. conn'[on'[q]].req # q
    BY <1>1, <1>2, <1>3, HttpAssumption DEF Req, NoReq
  <2>3. handler = [req |-> q, why |-> "reap"] => r'[q] = r[q]
    BY <1>4, HandlerFacts
  <2>4. r'[q].ptr => handler = [req |-> q, why |-> "reap"] /\ r'[q] = r[q]
    <3>1. SUFFICES ASSUME r'[q].ptr PROVE handler = [req |-> q, why |-> "reap"] /\ r'[q] = r[q]
      OBVIOUS
    <3>2. r'[q] = r[q]
      BY <1>4, <3>1
    <3>3. q \notin Queued /\ q \notin senders /\ q \notin dispatched
      BY <1>4, <3>1
    <3> QED
      BY <2>1, <3>1, <3>2, <3>3 DEF Pointer
  <2>5. Fresh(q)'
    BY <1>2, <1>4, <2>1 DEF Fresh
  <2>6. Memory(q)'
    BY <1>2, <1>4, <2>1, <2>2, <2>3, <2>4 DEF Memory
  <2>7. Listed(q)'
    BY <1>2 DEF Listed
  <2>8. Pointer(q)'
    BY <1>2, <2>4 DEF Pointer
  <2>9. Replied(q)'
    BY <1>2, <1>4, <2>1 DEF Replied
  <2>10. Reported(q)'
    BY <1>4, <2>1, <2>2 DEF Reported
  <2> QED
    BY <2>5, <2>6, <2>7, <2>8, <2>9, <2>10 DEF Good
<1>10. ASSUME NEW l \in Conns PROVE GoodConn(l)'
  BY <1>3, GoneGoodConn
<1>11. Handling'
  <2>1. CASE handler.req = NoReq
    BY <1>2, <2>1 DEF Handling
  <2>2. CASE handler.req # NoReq
    <3>1. PICK h \in Req : h = handler.req
      BY <1>1, <2>2, HttpAssumption DEF HInv, Types, Req, NoReq
    <3>2. r[h].final /\ r'[h].final = r[h].final
      BY <1>4, <3>1, HandlerFacts
    <3> QED
      BY <1>2, <1>7, <2>2, <3>1, <3>2 DEF Handling
  <2> QED
    BY <2>1, <2>2
<1> QED
  BY <1>8, <1>9, <1>10, <1>11 DEF HInv

(* The invariant holds of a server that has just been made. *)
LEMMA InitHInv ==
  ASSUME Init
  PROVE  HInv
<1> USE DEF Init
<1>1. arrived = 0 /\ 0 \in Nat /\ MaxReq \in Nat
  BY HttpAssumption
<1>2. \A q \in Req : r[q] = Blank
  OBVIOUS
<1>3. Queued = {} /\ senders = {} /\ dispatched = {}
  BY DEF Queued, ToSet
<1>4. \A k \in Conns : conn[k] = NoConn /\ registry[k] = NoReq
  OBVIOUS
<1>5. Types
  <2>1. (CHOOSE k \in Conns : TRUE) \in Conns
    BY HttpAssumption
  <2>2. on \in [Req -> Conns]
    BY <2>1
  <2>3. Blank \in ReqRecord
    BY DEF Blank, ReqRecord
  <2>4. NoConn \in ConnRecord
    BY <1>1 DEF NoConn, ConnRecord, NoReq
  <2>5. r \in [Req -> ReqRecord] /\ conn \in [Conns -> ConnRecord]
    BY <2>3, <2>4
  <2>6. handler \in [req : 0..arrived, why : {"none", "reap", "complete", "closed", "failed"}]
    BY <1>1 DEF NotCalled, NoReq
  <2>7. registry \in [Conns -> 0..arrived] /\ arrived \in 0..MaxReq
    BY <1>1 DEF NoReq
  <2>8. queue \in Seq(Req) /\ IsInjective(queue)
    BY DEF IsInjective
  <2> QED
    BY <2>2, <2>5, <2>6, <2>7, <2>8 DEF Types
<1>6. Steps /\ Handling
  BY DEF Steps, Handling, NotCalled
<1>7. ASSUME NEW q \in Req PROVE Good(q)
  <2>1. conn[on[q]].req # q /\ handler.req # q
    BY <1>4, <1>5, HttpAssumption DEF Types, NotCalled, NoConn, Req, NoReq
  <2> QED
    BY <1>2, <1>3, <2>1
    DEF Good, Fresh, Memory, Listed, Pointer, Replied, Reported, Blank
<1>8. ASSUME NEW k \in Conns PROVE GoodConn(k)
  BY <1>4 DEF GoodConn, NoConn, NoReq
<1> QED
  BY <1>5, <1>6, <1>7, <1>8 DEF HInv

(* Every step keeps the invariant. *)
LEMMA NextHInv ==
  ASSUME HInv, [Next]_vars
  PROVE  HInv'
<1>1. CASE UNCHANGED vars
  BY <1>1 DEF vars, lists, HInv, Types, Steps, Handling, Good, Fresh, Memory, Listed, Pointer,
              Replied, Reported, GoodConn, ConnRecord, Queued
<1>2. CASE AcceptStep
  BY <1>2, PassiveHInv, DispatchHInv, StreamEndsHInv, ReapHInv DEF AcceptStep
<1>3. CASE HandlerReturns
  <2>1. ASSUME NEW k \in Conns, Completed(k) \/ Ended(k) PROVE HInv'
    <3>1. PICK q \in Req : q = conn[k].req
      <4>1. conn[k].req = handler.req /\ handler.req # NoReq
        BY <2>1 DEF Completed, Ended, HInv, Steps
      <4> QED
        BY <4>1, HttpAssumption DEF HInv, Types, Req, NoReq
    <3> QED
      BY <2>1, <3>1, CompletedHInv, EndedHInv
  <2> QED
    BY <1>3, <2>1, ReapedHInv DEF HandlerReturns
<1>4. CASE Scripts
  BY <1>4, SendStreamHInv, AnswerHInv, UpgradeHInv, CloseServerHInv DEF Scripts
<1>5. ASSUME NEW k \in Conns, ClientLeaves(k) \/ Connects(k) \/ Arrives(k) \/ LibeventReports(k)
      PROVE  HInv'
  <2>1. CASE Completes(k)
    <3>1. PICK q \in Req : q = conn[k].req
      BY <2>1, HttpAssumption DEF Completes, HInv, Types, ConnRecord, Req, NoReq
    <3> QED
      BY <2>1, <3>1, CompletesHInv
  <2>2. CASE EndsKnown(k)
    <3>1. PICK q \in Req : q = registry[k]
      BY <2>2, HttpAssumption DEF EndsKnown, HInv, Types, Req, NoReq
    <3> QED
      BY <2>2, <3>1, EndsKnownHInv
  <2> QED
    BY <1>5, <2>1, <2>2, PassiveHInv, ArrivesHInv, EndsUnknownHInv DEF LibeventReports
<1> QED
  BY <1>1, <1>2, <1>3, <1>4, <1>5 DEF Next

(* HInv holds in every state of every behaviour. *)
LEMMA Invariant == Spec => []HInv
<1>1. HInv /\ [Next]_vars => HInv'
  BY NextHInv
<1> QED
  BY <1>1, InitHInv, PTL DEF Spec

------------------------------------------------------------------------------

(* The types, and that no request is queued twice or handed out while it is queued. *)
THEOREM TypeCorrect == Spec => []TypeOK
<1>1. HInv => TypeOK
  <2> SUFFICES ASSUME HInv PROVE TypeOK
    OBVIOUS
  <2>1. ToSet(queue) \cap dispatched = {}
    <3>1. ToSet(queue) \subseteq Req
      BY DEF HInv, Types, ToSet
    <3> QED
      BY <3>1 DEF HInv, Good, Listed, Queued
  <2>2. \A q \in Req : r[q] \in ReqRecord
    BY DEF HInv, Types
  <2>3. \A q \in Req : /\ r[q].mem \in {"none", "owned", "freed", "upgraded"}
                       /\ r[q].reply \in {"none", "stream", "whole"}
    BY <2>2 DEF ReqRecord
  <2>4. handler.req \in 0..arrived /\ handler.why \in {"none", "reap", "complete", "closed", "failed"}
    BY DEF HInv, Types
  <2> QED
    BY <2>1, <2>3, <2>4 DEF HInv, Types, ConnRecord, TypeOK
<1> QED
  BY <1>1, Invariant, PTL

(* libevent, the reaping and the teardown between them free an evhttp_request at most once, and
   no request that a script can reach points to a freed one. *)
THEOREM FreesAreUnique == Spec => []FreedOnce
<1>1. HInv => FreedOnce
  <2>1. ASSUME HInv, NEW q \in Req PROVE r[q].frees <= 1 /\ (r[q].ptr => r[q].mem = "owned")
    <3>1. Memory(q)
      BY <2>1 DEF HInv, Good
    <3>2. r[q].frees \in {0, 1}
      BY <3>1 DEF Memory
    <3> QED
      BY <3>1, <3>2 DEF Memory
  <2> QED
    BY <2>1 DEF FreedOnce
<1> QED
  BY <1>1, Invariant, PTL

(* While the server is open, a response that passes ResponseGuard has its request, and the
   connection still waits for the reply: Reject and Close need no test of r->req. *)
THEOREM GuardIsEnough == Spec => []GuardSuffices
<1>1. HInv => GuardSuffices
  BY DEF HInv, Good, Pointer, Replied, GuardSuffices
<1> QED
  BY <1>1, Invariant, PTL

(* The disconnect handler is called at most once for a request, and an error of a request means
   that it was finalized and reported. *)
THEOREM ReportsAreUnique == Spec => []ReportedOnce
<1>1. HInv => ReportedOnce
  BY DEF HInv, Good, Reported, ReportedOnce
<1> QED
  BY <1>1, Invariant, PTL

(* What the callbacks find under a connection is the request that the connection waits for. *)
THEOREM RegistryIsCurrent == Spec => []RegistryCurrent
<1>1. HInv => RegistryCurrent
  BY DEF HInv, GoodConn, RegistryCurrent
<1> QED
  BY <1>1, Invariant, PTL
==============================================================================
