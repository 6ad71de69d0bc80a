------------------------------- MODULE WebSocket -------------------------------
(***************************************************************************)
(* One WebSocket of LuaWebSocket.cpp: a server's, which libevent owns and   *)
(* reports about by callbacks from event_base_loop, or a client's, whose    *)
(* frames Poll and Read fetch from curl.  All of it runs on the Lua thread. *)
(*                                                                          *)
(* libevent and curl are external.  libevent hands over whole frames, stops *)
(* reading when evws_close queues the close frame, and when that is written *)
(* or cannot be, calls EvwsCloseCb and frees the connection; evhttp_free    *)
(* does the same at once.  curl hands a frame over in pieces, and fails     *)
(* each time once the connection has ended.  Frames that we send, the       *)
(* keepalive ping, and allocations that fail are left out.                  *)
(***************************************************************************)
EXTENDS Naturals, Sequences, SequencesExt

CONSTANTS
  Readers,    (* coroutines that call Read *)
  Nobody,     (* not one of them *)
  MaxFrames,  (* bound: data and ping frames that the peer sends *)
  MaxPieces,  (* bound: pieces in which curl hands over one of them *)
  BigFrames   (* those above the size that SetMaxMessageSize sets *)

ASSUME WebSocketAssumption ==
  /\ Nobody \notin Readers /\ "poll" \notin Readers \cup {Nobody}
  /\ MaxFrames \in Nat /\ MaxPieces \in Nat \ {0}
  /\ BigFrames \subseteq 1..MaxFrames

VARIABLES
  side,       (* "server" or "client" *)
  conn,       (* of the library: "connecting", "open", "draining" or "ended" *)
  handle,     (* ws->evws or ws->easy is set *)
  connected, closed,
  capped,     (* ws->maxMsgSize is set *)
  queue,      (* messages, each the pieces it was put together from *)
  frag,       (* ws->fragBuf *)
  selfRef,
  token,      (* a client's AliveToken: "alive", which stands for none as well *)
  reader,     (* the coroutines that are in Read *)
  loop,       (* who is in the loop of WsClientRecvOne; "poll" for Poll *)
  held,       (* scripts refer to the WebSocket *)
  collected,  (* its userdata is gone *)
  peer,       (* "there", "closing" after its close frame, or "gone" *)
  wire,       (* what it has sent *)
  sent,       (* frames it has sent *)
  got,        (* history: the messages that Lua got *)
  refused     (* history: frames that were above the size when they came *)

fields == <<handle, connected, closed, capped, queue, frag, selfRef>>
lua    == <<token, reader, loop, held, collected, got>>
net    == <<peer, wire, sent>>
vars   == <<side, conn, fields, lua, net, refused>>

Piece(n, i, last) == [frame |-> n, part |-> i, last |-> last]
CloseFrame == Piece(0, 1, TRUE)
CloseMsg   == <<>>
IsData(m)  == m # CloseMsg

Init ==
  /\ side \in {"server", "client"}
  /\ conn = IF side = "server" THEN "open" ELSE "connecting"
  /\ handle = TRUE /\ connected = (side = "server") /\ closed = FALSE /\ capped = FALSE
  /\ queue = <<>> /\ frag = <<>> /\ selfRef = (side = "server")
  /\ token = "alive" /\ reader = {} /\ loop = Nobody /\ held = TRUE /\ collected = FALSE
  /\ peer = "there" /\ wire = <<>> /\ sent = 0
  /\ got = <<>> /\ refused = {}

(* Lua code runs: neither in the loop nor in Connect *)
Script == loop = Nobody /\ conn # "connecting" /\ ~collected

------------------------------------------------------------------------------
(* The peer *)

(* A server's library puts the pieces together itself. *)
PeerSends ==
  /\ peer = "there" /\ conn # "connecting" /\ sent < MaxFrames
  /\ sent' = sent + 1
  /\ \E n \in 1..(IF side = "server" THEN 1 ELSE MaxPieces) :
       wire' = wire \o [i \in 1..n |-> Piece(sent', i, i = n)]
  /\ UNCHANGED <<side, conn, fields, lua, peer, refused>>

PeerCloses ==
  /\ peer = "there" /\ conn # "connecting"
  /\ peer' = "closing" /\ wire' = Append(wire, CloseFrame)
  /\ UNCHANGED <<side, conn, fields, lua, sent, refused>>

PeerLeaves ==
  /\ peer # "gone" /\ conn # "connecting"
  /\ peer' = "gone"
  /\ UNCHANGED <<side, conn, fields, lua, wire, sent, refused>>

------------------------------------------------------------------------------
(* Messages *)

Fits(m) == ~capped \/ Last(m).frame \notin BigFrames

(* WsMsgAlloc and WsEnqueue, for a message that is not too long *)
Deliver(m) ==
  /\ queue' = IF Fits(m) THEN Append(queue, m) ELSE queue
  /\ refused' = IF Fits(m) THEN refused ELSE refused \cup {Last(m).frame}

(* Mutant: a reader goes on waiting as long as the WebSocket is not disposed *)
Finish_Closed(who) ==
  /\ queue' = IF queue = <<>> THEN queue ELSE Tail(queue)
  /\ got' = IF queue = <<>> THEN got ELSE Append(got, Head(queue))
  /\ reader' = IF queue # <<>> \/ closed THEN reader \ {who} ELSE reader
  /\ loop' = Nobody

(* The end of Poll and of Read: WsDequeue; a reader that gets nothing yields  *)
(* while the connection lasts.                                               *)
Finish(who) ==
  /\ queue' = IF queue = <<>> THEN queue ELSE Tail(queue)
  /\ got' = IF queue = <<>> THEN got ELSE Append(got, Head(queue))
  /\ reader' = IF queue # <<>> \/ closed \/ ~connected THEN reader \ {who} ELSE reader
  /\ loop' = Nobody

------------------------------------------------------------------------------
(* Server: callbacks from event_base_loop *)

EvwsMsgCb ==
  /\ side = "server" /\ conn = "open" /\ wire # <<>> /\ Head(wire) # CloseFrame
  /\ wire' = Tail(wire)
  /\ IF closed THEN UNCHANGED <<queue, refused>> ELSE Deliver(<<Head(wire)>>)
  /\ UNCHANGED <<side, conn, handle, connected, closed, capped, frag, selfRef, lua, peer, sent>>

(* evws_close: by libevent for the peer's close frame, by our event callback  *)
(* for an error or an end of file                                            *)
StartsClosing ==
  /\ side = "server" /\ conn = "open"
  /\ IF wire = <<>> THEN peer = "gone" ELSE Head(wire) = CloseFrame
  /\ conn' = "draining" /\ wire' = <<>>
  /\ UNCHANGED <<side, fields, lua, peer, sent, refused>>

EvwsCloseCb ==
  /\ handle' = FALSE
  /\ connected' = FALSE
  /\ queue' = IF closed THEN queue ELSE Append(queue, CloseMsg)
  /\ UNCHANGED <<closed, capped, frag, selfRef>>

(* The close frame is written, or cannot be. *)
Drained ==
  /\ side = "server" /\ conn = "draining"
  /\ conn' = "ended"
  /\ EvwsCloseCb
  /\ UNCHANGED <<side, lua, net, refused>>

(* HttpServer: evhttp_free ends what is left of a connection. *)
ServerCloses ==
  /\ side = "server" /\ conn \in {"open", "draining"} /\ Script
  /\ conn' = "ended"
  /\ EvwsCloseCb
  /\ UNCHANGED <<side, lua, net, refused>>

------------------------------------------------------------------------------
(* WsDisposeNative, unless it has run: closing a server's connection pumps   *)
(* the event loop ten times, in which the close frame drains or does not.    *)

DisposeNative ==
  IF closed THEN UNCHANGED <<conn, fields>>
  ELSE /\ closed' = TRUE /\ connected' = FALSE /\ handle' = FALSE
       /\ queue' = <<>> /\ frag' = <<>> /\ selfRef' = FALSE
       /\ conn' \in IF side = "server" /\ conn # "ended"
                    THEN {"draining", "ended"} ELSE {"ended"}
       /\ UNCHANGED capped

Dispose ==
  /\ Script /\ held /\ DisposeNative
  /\ UNCHANGED <<side, lua, net, refused>>

Forget ==
  /\ held /\ Script /\ held' = FALSE
  /\ UNCHANGED <<side, conn, fields, token, reader, loop, collected, got, net, refused>>

(* __gc: nothing refers to the userdata, neither a stack nor the registry. *)
GC ==
  /\ Script /\ ~held /\ reader = {} /\ ~selfRef
  /\ DisposeNative
  /\ collected' = TRUE
  /\ UNCHANGED <<side, token, reader, loop, held, got, net, refused>>

SetMaxMessageSize ==
  /\ Script /\ held /\ capped' = ~capped
  /\ UNCHANGED <<side, conn, handle, connected, closed, queue, frag, selfRef, lua, net, refused>>

TokenDies ==
  /\ side = "client" /\ token = "alive" /\ token' = "dead"
  /\ UNCHANGED <<side, conn, fields, reader, loop, held, collected, got, net, refused>>

------------------------------------------------------------------------------
(* Client: Connect, and what Poll and Read do with curl *)

WsConnectContinuation ==
  /\ conn = "connecting"
  /\ \/ /\ token = "alive"
        /\ conn' = "open" /\ connected' = TRUE
        /\ UNCHANGED <<handle, closed, capped, queue, frag, selfRef, held>>
     \/ DisposeNative /\ held' = FALSE
  /\ UNCHANGED <<side, token, reader, loop, collected, got, net, refused>>

(* A turn of a reader, or a call of Poll *)
Read(c) ==
  /\ Script /\ held /\ connected /\ ~closed
  /\ reader' = reader \cup {c}
  /\ UNCHANGED <<side, conn, fields, token, loop, held, collected, got, net, refused>>

Turn(who) == Script /\ IF who = "poll" THEN held /\ ~closed ELSE who \in reader

TokenTest(c) ==
  /\ Turn(c) /\ c # "poll" /\ token = "dead" /\ ~closed
  /\ DisposeNative
  /\ reader' = reader \ {c}
  /\ UNCHANGED <<side, token, loop, held, collected, got, net, refused>>

Alive(who) == who = "poll" \/ token = "alive" \/ closed

(* Nothing to fetch from curl *)
TakeMessage(who) ==
  /\ Turn(who) /\ Alive(who) /\ (side = "client" => ~handle)
  /\ Finish(who)
  /\ UNCHANGED <<side, conn, handle, connected, closed, capped, frag, selfRef, token, held,
                 collected, net, refused>>

BeginReceive(who) ==
  /\ Turn(who) /\ Alive(who) /\ side = "client" /\ handle
  /\ loop' = who
  /\ UNCHANGED <<side, conn, fields, token, reader, held, collected, got, net, refused>>

(* while (WsClientRecvOne(ws)): the steps that end the loop *)
InLoop == loop # Nobody
Receives(piece) == InLoop /\ wire # <<>> /\ Head(wire) = piece /\ wire' = Tail(wire)

RecvNothing ==
  /\ InLoop /\ wire = <<>> /\ peer # "gone"
  /\ Finish(loop)
  /\ UNCHANGED <<side, conn, handle, connected, closed, capped, frag, selfRef, token, held,
                 collected, net, refused>>

RecvPart(piece) ==
  /\ Receives(piece) /\ ~piece.last
  /\ frag' = Append(frag, piece)
  /\ Finish(loop)
  /\ UNCHANGED <<side, conn, handle, connected, closed, capped, selfRef, token, held,
                 collected, peer, sent, refused>>

(* ... and those that go on *)

(* Mutant: WsFragReset is left out *)
RecvLast_NoReset(piece) ==
  /\ Receives(piece) /\ piece.last /\ piece # CloseFrame
  /\ Deliver(Append(frag, piece))
  /\ frag' = Append(frag, piece)
  /\ UNCHANGED <<side, conn, handle, connected, closed, capped, selfRef, lua, peer, sent>>

RecvLast(piece) ==
  /\ Receives(piece) /\ piece.last /\ piece # CloseFrame
  /\ Deliver(Append(frag, piece))
  /\ frag' = <<>>
  /\ UNCHANGED <<side, conn, handle, connected, closed, capped, selfRef, lua, peer, sent>>

(* The queue grows by a message each time: MaxFrames + 2 stands for any length. *)
EnqueueClose ==
  /\ queue' = IF Len(queue) < MaxFrames + 2 THEN Append(queue, CloseMsg) ELSE queue
  /\ connected' = FALSE
  /\ UNCHANGED <<handle, closed, capped, frag, selfRef>>

RecvClose ==
  /\ Receives(CloseFrame)
  /\ EnqueueClose
  /\ UNCHANGED <<side, conn, lua, peer, sent, refused>>

RecvError ==
  /\ InLoop /\ wire = <<>> /\ peer = "gone"
  /\ conn' = "ended"
  /\ EnqueueClose
  /\ UNCHANGED <<side, lua, net, refused>>

------------------------------------------------------------------------------

Callers == Readers \cup {"poll"}
Pieces  == {Piece(n, i, last) : n \in 1..MaxFrames, i \in 1..MaxPieces, last \in BOOLEAN}

Loop    == RecvNothing \/ RecvClose \/ RecvError \/ \E p \in Pieces : RecvPart(p) \/ RecvLast(p)
Libevent == EvwsMsgCb \/ StartsClosing \/ Drained
Peer    == PeerSends \/ PeerCloses \/ PeerLeaves
Lua     == \/ WsConnectContinuation \/ Dispose \/ Forget \/ GC \/ SetMaxMessageSize
           \/ TokenDies \/ ServerCloses
           \/ \E c \in Readers : Read(c) \/ TokenTest(c)
           \/ \E who \in Callers : TakeMessage(who) \/ BeginReceive(who)

Next == Peer \/ Libevent \/ Loop \/ Lua
Spec == Init /\ [][Next]_vars

(* The Accept pump goes on, a suspended reader gets its turns, and the loop   *)
(* of Poll and Read runs.  That a close frame drains is due only if the peer  *)
(* has left.                                                                 *)
Fairness ==
  /\ WF_vars(EvwsMsgCb) /\ WF_vars(StartsClosing) /\ WF_vars(peer = "gone" /\ Drained)
  /\ WF_vars(Loop)
  /\ \A c \in Readers : WF_vars(TakeMessage(c)) /\ WF_vars(BeginReceive(c)) /\ WF_vars(TokenTest(c))

FairSpec == Spec /\ Fairness

------------------------------------------------------------------------------

(* Lua gets the peer's frames whole, in the order they were sent, each once,  *)
(* and none is missing between two of them but those above the size: however  *)
(* curl cuts them, whoever reads, and however the size changes meanwhile.  A  *)
(* message that the peer sends as several frames is several messages to Lua:  *)
(* CURLWS_CONT is not looked at.                                              *)
Received(ms) == {i \in DOMAIN ms : IsData(ms[i])}
Whole(m) == \A i \in 1..Len(m) : m[i] = Piece(m[1].frame, i, i = Len(m))
InOrder(ms, dropped) ==
  /\ \A i \in Received(ms) : Whole(ms[i])
  /\ \A i, j \in Received(ms) : i < j => ms[i][1].frame < ms[j][1].frame
  /\ \A i \in Received(ms), n \in 1..MaxFrames :
       n < ms[i][1].frame => n \in dropped \/ \E j \in Received(ms) : ms[j][1].frame = n
WholeInOrder == InOrder(got \o queue, refused)

(* A coroutine in Read of a server's WebSocket does not wait for ever once    *)
(* the peer has left, or the WebSocket or its server was closed.             *)
ReaderReturns ==
  \A c \in Readers :
    (side = "server" /\ c \in reader /\ (peer = "gone" \/ closed \/ conn = "ended"))
      ~> (c \notin reader)

(* "Non-blocking ... Never yields" (WebSocket:Poll in the documentation), and *)
(* Read gives the others their turn: the loop over WsClientRecvOne ends.      *)
PollReturns == (loop = "poll") ~> (loop = Nobody)
================================================================================
