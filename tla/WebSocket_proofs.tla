--------------------------- MODULE WebSocket_proofs ---------------------------
(***************************************************************************)
(* Proofs about WebSocket: Lua gets the peer's frames whole and in order,  *)
(* and none is missing but those above the size; for any set of readers,   *)
(* any number of frames, of pieces they come in, and any of them too big.  *)
(***************************************************************************)
EXTENDS WebSocket, SequenceTheorems, TLAPS

PieceSet == [frame : Nat, part : Nat, last : BOOLEAN]

Types ==
  /\ side \in {"server", "client"}
  /\ sent \in Nat
  /\ wire \in Seq(PieceSet) /\ frag \in Seq(PieceSet)
  /\ got \in Seq(Seq(PieceSet)) /\ queue \in Seq(Seq(PieceSet))

(* Who receives: only a client fetches pieces, and not once it was disposed. *)
PlaceInv ==
  /\ side = "server" => frag = <<>> /\ \A i \in 1..Len(wire) : wire[i].last
  /\ handle => ~closed
  /\ loop # Nobody => side = "client" /\ handle
  /\ conn = "connecting" => side = "client" /\ loop = Nobody

(* The piece q may come after p: the next of its frame, or the first of the  *)
(* next frame, or a close frame; nothing comes after that.                   *)
Follows(p, q) ==
  IF p.last THEN p # CloseFrame /\ (q = CloseFrame \/ (q.frame = p.frame + 1 /\ q.part = 1))
            ELSE q.frame = p.frame /\ q.part = p.part + 1

(* The pieces w come after p, each after the one before it. *)
Stream(p, w) ==
  /\ w # <<>> => Follows(p, w[1])
  /\ \A i \in 1..Len(w)-1 : Follows(w[i], w[i+1])

(* The piece that was received last, if k frames are complete. *)
Latest(k) == IF frag = <<>> THEN Piece(k, 2, TRUE) ELSE Piece(k + 1, Len(frag), FALSE)

(* The last piece on the way, or the latest received, ends the frame n. *)
EndsAt(p, w, n) ==
  LET e == IF w = <<>> THEN p ELSE w[Len(w)]
  IN  e.last /\ e.frame = n /\ e # CloseFrame

(* The messages ms are of the first k frames, and those of them that are not *)
(* among ms were dropped.                                                    *)
Complete(ms, dropped, k) ==
  /\ \A i \in Received(ms) : ms[i][1].frame \in 1..k
  /\ \A n \in 1..k : n \in dropped \/ \E j \in Received(ms) : ms[j][1].frame = n

(* k frames were received whole; the buffer has what came of the next one.   *)
ReceivedTo(k) ==
  /\ \A i \in 1..Len(frag) : frag[i] = Piece(k + 1, i, FALSE)
  /\ Stream(Latest(k), wire)
  /\ peer = "there" => EndsAt(Latest(k), wire, sent)
  /\ Complete(got \o queue, refused, k)

(* Nothing is received by a WebSocket that was disposed, nor by a server's   *)
(* once libevent has begun to close it.                                      *)
Receiving == ~closed /\ (side = "client" \/ conn = "open")
StreamInv == Receiving => \E k \in Nat : ReceivedTo(k)

Inv == Types /\ PlaceInv /\ StreamInv /\ WholeInOrder

------------------------------------------------------------------------------
(* Sequences of messages. *)
Message == Seq(PieceSet)

(* The received ones among the messages of a longer sequence. *)
LEMMA ReceivedAppend ==
  ASSUME NEW ms \in Seq(Message), NEW m \in Message
  PROVE  /\ Append(ms, m) \in Seq(Message)
         /\ \A i \in Received(ms) : i \in 1..Len(ms) /\ Append(ms, m)[i] = ms[i]
         /\ Append(ms, m)[Len(ms) + 1] = m
         /\ Received(Append(ms, m)) =
              Received(ms) \cup (IF IsData(m) THEN {Len(ms) + 1} ELSE {})
<1>1. /\ Append(ms, m) \in Seq(Message)
      /\ Len(Append(ms, m)) = Len(ms) + 1
      /\ \A i \in 1..Len(ms) : Append(ms, m)[i] = ms[i]
      /\ Append(ms, m)[Len(ms) + 1] = m
  BY AppendProperties
<1>2. DOMAIN ms = 1..Len(ms) /\ DOMAIN Append(ms, m) = 1..(Len(ms) + 1) /\ Len(ms) \in Nat
  BY <1>1
<1>3. \A i \in Received(ms) : i \in 1..Len(ms)
  BY <1>2 DEF Received
<1>4. ASSUME NEW i \in 1..(Len(ms) + 1)
      PROVE  i \in Received(Append(ms, m)) <=>
               i \in Received(ms) \cup (IF IsData(m) THEN {Len(ms) + 1} ELSE {})
  <2>1. CASE i = Len(ms) + 1
    BY <1>1, <1>2, <1>3, <2>1 DEF Received
  <2>2. CASE i # Len(ms) + 1
    BY <1>1, <1>2, <2>2 DEF Received
  <2> QED
    BY <2>1, <2>2
<1>5. Received(Append(ms, m)) \subseteq 1..(Len(ms) + 1)
  BY <1>2 DEF Received
<1> QED
  BY <1>1, <1>2, <1>3, <1>4, <1>5

(* A whole message of the next frame goes on the end. *)
LEMMA AppendMessage ==
  ASSUME NEW ms \in Seq(Message), NEW m \in Message, NEW r, NEW k \in Nat,
         IsData(m), Whole(m), m[1].frame = k + 1,
         InOrder(ms, r), Complete(ms, r, k)
  PROVE  InOrder(Append(ms, m), r) /\ Complete(Append(ms, m), r, k + 1)
<1> DEFINE l == Len(ms) + 1
           R == Received(ms)
<1>1. /\ \A i \in R : i \in 1..Len(ms) /\ Append(ms, m)[i] = ms[i]
      /\ Append(ms, m)[l] = m
      /\ Received(Append(ms, m)) = R \cup {l}
  BY ReceivedAppend
<1>2. Len(ms) \in Nat
  OBVIOUS
<1> HIDE DEF R
<1>3. \A i \in R : ms[i][1].frame \in 1..k
  BY DEF Complete, R
<1>4. \A n \in 1..k : n \in r \/ \E j \in R : ms[j][1].frame = n
  BY DEF Complete, R
<1>5. \A i, j \in R : i < j => ms[i][1].frame < ms[j][1].frame
  BY DEF InOrder, R
<1>6. \A i \in R \cup {l} : Whole(Append(ms, m)[i])
  <2>1. \A i \in R : Whole(ms[i])
    BY DEF InOrder, R
  <2> QED
    BY <1>1, <2>1
<1>7. \A i \in R \cup {l} : Append(ms, m)[i][1].frame \in 1..(k + 1)
  BY <1>1, <1>3
<1>8. \A n \in 1..(k + 1) : n \in r \/ \E j \in R \cup {l} : Append(ms, m)[j][1].frame = n
  BY <1>1, <1>4
<1>9. \A i, j \in R \cup {l} :
        i < j => Append(ms, m)[i][1].frame < Append(ms, m)[j][1].frame
  BY <1>1, <1>2, <1>3, <1>5
<1>10. Complete(Append(ms, m), r, k + 1)
  BY <1>1, <1>7, <1>8 DEF Complete
<1> QED
  BY <1>1, <1>6, <1>7, <1>8, <1>9, <1>10, WebSocketAssumption DEF InOrder

(* A frame above the size is dropped. *)
LEMMA DropMessage ==
  ASSUME NEW ms, NEW r, NEW k \in Nat, InOrder(ms, r), Complete(ms, r, k)
  PROVE  InOrder(ms, r \cup {k + 1}) /\ Complete(ms, r \cup {k + 1}, k + 1)
BY DEF InOrder, Complete

(* A close message says nothing of the frames. *)
LEMMA AppendClose ==
  ASSUME NEW ms \in Seq(Message), NEW r
  PROVE  /\ Append(ms, CloseMsg) \in Seq(Message)
         /\ InOrder(ms, r) => InOrder(Append(ms, CloseMsg), r)
         /\ \A k \in Nat : Complete(ms, r, k) => Complete(Append(ms, CloseMsg), r, k)
<1>1. CloseMsg \in Message /\ ~IsData(CloseMsg)
  BY DEF Message, IsData, CloseMsg
<1>2. PICK m \in Message : m = CloseMsg /\ ~IsData(m)
  BY <1>1
<1>3. /\ Append(ms, m) \in Seq(Message)
      /\ Received(Append(ms, m)) = Received(ms)
      /\ \A i \in Received(ms) : Append(ms, m)[i] = ms[i]
  BY <1>2, ReceivedAppend
<1> QED
  BY <1>2, <1>3 DEF InOrder, Complete

(* What Lua has is in order when the queue after it is thrown away. *)
LEMMA InOrderPrefix ==
  ASSUME NEW ms \in Seq(Message), NEW ns \in Seq(Message), NEW r, InOrder(ms \o ns, r)
  PROVE  InOrder(ms \o <<>>, r)
<1>1. ms \o <<>> = ms
  BY ConcatEmptySeq
<1>2. /\ Len(ms \o ns) = Len(ms) + Len(ns) /\ Len(ms) \in Nat /\ Len(ns) \in Nat
      /\ DOMAIN ms = 1..Len(ms) /\ DOMAIN (ms \o ns) = 1..(Len(ms) + Len(ns))
      /\ \A i \in 1..Len(ms) : (ms \o ns)[i] = ms[i]
  BY ConcatProperties
<1> DEFINE a == ms \o ns
<1>3. \A i \in 1..(Len(ms) + Len(ns)) : i \in Received(ms) <=> i \in Received(a) /\ i <= Len(ms)
  BY <1>2 DEF Received
<1>4. Received(ms) \subseteq Received(a) /\ \A i \in Received(ms) : i \in 1..Len(ms) /\ a[i] = ms[i]
  BY <1>2, <1>3 DEF Received
<1>5. Received(a) \subseteq 1..(Len(ms) + Len(ns))
  BY <1>2 DEF Received
<1> HIDE DEF a
<1>6. InOrder(a, r) /\ \A i \in Received(a) : a[i][1].frame \in Nat
  <2>1. a \in Seq(Message)
    BY ConcatProperties DEF a
  <2>2. ASSUME NEW m \in Message, IsData(m) PROVE m[1].frame \in Nat
    <3>1. m[1] \in PieceSet
      BY <2>2 DEF IsData, CloseMsg, Message
    <3> QED
      BY <3>1 DEF PieceSet
  <2>3. \A i \in Received(a) : a[i] \in Message /\ IsData(a[i])
    BY <2>1 DEF Received
  <2> QED
    BY <2>2, <2>3 DEF a
<1>7. \A i \in Received(ms) : Whole(ms[i])
  BY <1>4, <1>6 DEF InOrder
<1>8. \A i, j \in Received(ms) : i < j => ms[i][1].frame < ms[j][1].frame
  BY <1>4, <1>6 DEF InOrder
<1>9. ASSUME NEW i \in Received(ms), NEW n \in 1..MaxFrames, n < ms[i][1].frame, n \notin r
      PROVE  \E j \in Received(ms) : ms[j][1].frame = n
  <2>1. PICK j \in Received(a) : a[j][1].frame = n
    BY <1>4, <1>6, <1>9 DEF InOrder
  <2>2. ~(i < j)
    BY <1>4, <1>6, <1>9, <2>1 DEF InOrder
  <2>3. i # j
    BY <1>4, <1>6, <1>9, <2>1
  <2>4. j \in 1..Len(ms)
    BY <1>2, <1>4, <1>5, <2>1, <2>2, <2>3
  <2>5. j \in Received(ms)
    BY <1>2, <1>3, <2>1, <2>4
  <2> QED
    BY <1>4, <2>1, <2>5
<1> QED
  BY <1>1, <1>7, <1>8, <1>9 DEF InOrder

------------------------------------------------------------------------------
(* Streams of pieces. *)

(* The fields of a piece. *)
LEMMA PieceFields ==
  ASSUME NEW n \in Nat, NEW i \in Nat, NEW l \in BOOLEAN
  PROVE  /\ Piece(n, i, l) \in PieceSet
         /\ Piece(n, i, l).frame = n /\ Piece(n, i, l).part = i /\ Piece(n, i, l).last = l
         /\ Piece(n, i, l) = CloseFrame <=> n = 0 /\ i = 1 /\ l
BY DEF Piece, PieceSet, CloseFrame

(* A message is whole if its pieces are the first to the last of a frame. *)
LEMMA WholeIs ==
  ASSUME NEW m \in Message, m # <<>>, NEW n \in Nat,
         \A i \in 1..Len(m) : m[i].frame = n /\ m[i].part = i /\ (m[i].last <=> i = Len(m))
  PROVE  Whole(m) /\ m[1].frame = n
<1>1. 1 \in 1..Len(m)
  BY DEF Message
<1>2. m[1].frame = n
  BY <1>1
<1>3. ASSUME NEW i \in 1..Len(m) PROVE m[i] = Piece(n, i, i = Len(m))
  <2>1. m[i] \in PieceSet
    BY DEF Message
  <2>2. m[i] = [frame |-> m[i].frame, part |-> m[i].part, last |-> m[i].last] /\ m[i].last \in BOOLEAN
    BY <2>1 DEF PieceSet
  <2>3. CASE i = Len(m)
    <3>1. m[i].last = TRUE /\ (i = Len(m)) = TRUE
      BY <2>2, <2>3
    <3> QED
      BY <2>2, <3>1 DEF Piece
  <2>4. CASE i # Len(m)
    <3>1. m[i].last = FALSE /\ (i = Len(m)) = FALSE
      BY <2>2, <2>4
    <3> QED
      BY <2>2, <3>1 DEF Piece
  <2> QED
    BY <2>3, <2>4
<1> QED
  BY <1>2, <1>3 DEF Whole

LEMMA CloseIsPiece == CloseFrame \in PieceSet /\ CloseFrame.last
BY DEF CloseFrame, Piece, PieceSet

(* The rest of a sequence of pieces. *)
LEMMA TailPieces ==
  ASSUME NEW w \in Seq(PieceSet), w # <<>>
  PROVE  /\ Head(w) = w[1] /\ Head(w) \in PieceSet /\ Tail(w) \in Seq(PieceSet)
         /\ Len(Tail(w)) = Len(w) - 1 /\ Len(w) \in Nat /\ Len(w) > 0
         /\ \A i \in 1..Len(Tail(w)) : i + 1 \in 1..Len(w) /\ Tail(w)[i] = w[i + 1]
         /\ Tail(w) = <<>> <=> Len(w) = 1
<1>1. /\ Head(w) = w[1] /\ Head(w) \in PieceSet /\ Tail(w) \in Seq(PieceSet)
      /\ Len(Tail(w)) = Len(w) - 1 /\ Len(w) \in Nat /\ Len(w) > 0
      /\ \A i \in 1..Len(Tail(w)) : Tail(w)[i] = w[i + 1]
  BY HeadTailProperties
<1>2. PICK t \in Seq(PieceSet) : t = Tail(w)
  BY <1>1
<1>3. t = <<>> <=> Len(t) = 0
  OBVIOUS
<1> QED
  BY <1>1, <1>2, <1>3

(* The rest of a stream comes after its first piece. *)
LEMMA StreamTail ==
  ASSUME NEW p \in PieceSet, NEW w \in Seq(PieceSet), w # <<>>, Stream(p, w)
  PROVE  /\ Follows(p, Head(w))
         /\ Stream(Head(w), Tail(w))
         /\ \A n : EndsAt(p, w, n) => EndsAt(Head(w), Tail(w), n)
<1>1. /\ Head(w) = w[1]
      /\ Len(Tail(w)) = Len(w) - 1 /\ Len(w) \in Nat /\ Len(w) > 0
      /\ \A i \in 1..Len(Tail(w)) : Tail(w)[i] = w[i + 1]
  BY TailPieces
<1>2. Tail(w) = <<>> <=> Len(w) = 1
  BY TailPieces
<1>3. Follows(p, Head(w))
  BY <1>1 DEF Stream
<1>4. Stream(Head(w), Tail(w))
  <2>1. Tail(w) # <<>> => Follows(Head(w), Tail(w)[1])
    BY <1>1, <1>2 DEF Stream
  <2>2. ASSUME NEW i \in 1..Len(Tail(w)) - 1 PROVE Follows(Tail(w)[i], Tail(w)[i + 1])
    <3>1. i + 1 \in 1..Len(w) - 1 /\ Tail(w)[i] = w[i + 1] /\ Tail(w)[i + 1] = w[i + 1 + 1]
      BY <1>1, <2>2
    <3> QED
      BY <3>1 DEF Stream
  <2> QED
    BY <2>1, <2>2 DEF Stream
<1>5. ASSUME NEW n, EndsAt(p, w, n) PROVE EndsAt(Head(w), Tail(w), n)
  <2>1. w[Len(w)] = IF Tail(w) = <<>> THEN Head(w) ELSE Tail(w)[Len(Tail(w))]
    BY <1>1, <1>2
  <2> QED
    BY <1>5, <2>1 DEF EndsAt
<1> QED
  BY <1>3, <1>4, <1>5

(* What comes after the last piece of a frame depends on the frame only. *)
LEMMA StreamAfterLast ==
  ASSUME NEW p \in PieceSet, NEW q \in PieceSet, NEW w \in Seq(PieceSet),
         p.last, q.last, p.frame = q.frame, q # CloseFrame, Stream(p, w)
  PROVE  Stream(q, w) /\ \A n : EndsAt(p, w, n) => EndsAt(q, w, n)
BY DEF Stream, Follows, EndsAt

(* A frame in m pieces. *)
Frame(n, m) == [i \in 1..m |-> Piece(n, i, i = m)]

(* The pieces of the frame that the peer sends. *)
LEMMA SendPieces ==
  ASSUME NEW n \in Nat, NEW m \in Nat \ {0}
  PROVE  \E v \in Seq(PieceSet) :
           /\ v = Frame(n + 1, m) /\ Len(v) = m
           /\ \A i \in 1..m : /\ v[i].frame = n + 1 /\ v[i].part = i /\ (v[i].last <=> i = m)
                            /\ v[i] # CloseFrame
<1> DEFINE v == Frame(n + 1, m)
<1>0. \A i \in 1..m : \E l \in BOOLEAN : (l <=> i = m) /\ Piece(n + 1, i, i = m) = Piece(n + 1, i, l)
  OBVIOUS
<1>1. /\ v \in Seq(PieceSet) /\ Len(v) = m
      /\ \A i \in 1..m : v[i] = Piece(n + 1, i, i = m)
  <2>1. \A i \in 1..m : Piece(n + 1, i, i = m) \in PieceSet
    <3> TAKE i \in 1..m
    <3>1. PICK l \in BOOLEAN : Piece(n + 1, i, i = m) = Piece(n + 1, i, l)
      BY <1>0
    <3>2. n + 1 \in Nat /\ i \in Nat
      OBVIOUS
    <3> QED
      BY <3>1, <3>2, PieceFields
  <2> QED
    BY <2>1 DEF Frame
<1>2. \A i \in 1..m : /\ v[i].frame = n + 1 /\ v[i].part = i /\ (v[i].last <=> i = m)
                      /\ v[i] # CloseFrame /\ v[i] \in PieceSet
  <2> SUFFICES ASSUME NEW i \in 1..m
               PROVE  /\ v[i].frame = n + 1 /\ v[i].part = i /\ (v[i].last <=> i = m)
                      /\ v[i] # CloseFrame /\ v[i] \in PieceSet
    OBVIOUS
  <2>1. PICK l \in BOOLEAN : (l <=> i = m) /\ Piece(n + 1, i, i = m) = Piece(n + 1, i, l)
    BY <1>0
  <2>2. n + 1 \in Nat /\ i \in Nat /\ n + 1 # 0 /\ v[i] = Piece(n + 1, i, l)
    BY <1>1, <2>1
  <2> QED
    BY <2>1, <2>2, PieceFields
<1> QED
  BY <1>1, <1>2

(* The peer sends its next frame. *)
LEMMA StreamSend ==
  ASSUME NEW p \in PieceSet, NEW w \in Seq(PieceSet), NEW n \in Nat, NEW m \in Nat \ {0},
         Stream(p, w), EndsAt(p, w, n)
  PROVE  Stream(p, w \o Frame(n + 1, m)) /\ EndsAt(p, w \o Frame(n + 1, m), n + 1)
<1>1. PICK v \in Seq(PieceSet) :
        /\ v = Frame(n + 1, m) /\ Len(v) = m
        /\ \A i \in 1..m : /\ v[i].frame = n + 1 /\ v[i].part = i /\ (v[i].last <=> i = m)
                         /\ v[i] # CloseFrame
  BY SendPieces
<1>2. \A i \in 1..m : /\ v[i].frame = n + 1 /\ v[i].part = i /\ (v[i].last <=> i = m)
                      /\ v[i] # CloseFrame
  BY <1>1
<1>3. /\ w \o v \in Seq(PieceSet) /\ Len(w \o v) = Len(w) + m /\ Len(w) \in Nat
      /\ \A i \in 1..Len(w) + m : (w \o v)[i] = IF i <= Len(w) THEN w[i] ELSE v[i - Len(w)]
  <2>1. /\ w \o v \in Seq(PieceSet) /\ Len(w \o v) = Len(w) + Len(v)
        /\ \A i \in 1..Len(w) + Len(v) : (w \o v)[i] = IF i <= Len(w) THEN w[i] ELSE v[i - Len(w)]
    BY ConcatProperties
  <2>2. Len(v) = m /\ Len(w) \in Nat
    BY <1>1
  <2> QED
    BY <2>1, <2>2
<1> DEFINE e == IF w = <<>> THEN p ELSE w[Len(w)]
<1>4. e.last /\ e.frame = n /\ e # CloseFrame
  BY DEF EndsAt
<1>5. Follows(e, v[1])
  BY <1>2, <1>4 DEF Follows
<1>6. \A i \in 1..m - 1 : Follows(v[i], v[i + 1])
  <2> SUFFICES ASSUME NEW i \in 1..m - 1 PROVE Follows(v[i], v[i + 1])
    OBVIOUS
  <2>1. i \in 1..m /\ i + 1 \in 1..m /\ i # m
    OBVIOUS
  <2> QED
    BY <1>2, <2>1 DEF Follows
<1> DEFINE s == w \o v
<1>7. w = <<>> <=> Len(w) = 0
  BY <1>3
<1>8. s # <<>> /\ Follows(p, s[1])
  <2>1. CASE w = <<>>
    BY <1>3, <1>5, <1>7, <2>1
  <2>2. CASE w # <<>>
    BY <1>3, <1>7, <2>2 DEF Stream
  <2> QED
    BY <2>1, <2>2
<1>9. ASSUME NEW i \in 1..Len(s) - 1 PROVE Follows(s[i], s[i + 1])
  <2>1. CASE i < Len(w)
    BY <1>3, <2>1 DEF Stream
  <2>2. CASE i = Len(w)
    <3>1. s[i] = e /\ s[i + 1] = v[1]
      BY <1>3, <1>7, <2>2
    <3> QED
      BY <1>5, <3>1
  <2>3. CASE i > Len(w)
    <3>1. i - Len(w) \in 1..m - 1 /\ s[i] = v[i - Len(w)] /\ s[i + 1] = v[(i - Len(w)) + 1]
      BY <1>3, <2>3
    <3> QED
      BY <1>6, <3>1
  <2>4. i \in Int /\ Len(w) \in Int
    BY <1>3
  <2> QED
    BY <2>1, <2>2, <2>3, <2>4
<1>10. Stream(p, s)
  BY <1>8, <1>9 DEF Stream
<1>11. s[Len(s)] = v[m]
  BY <1>3
<1>12. EndsAt(p, s, n + 1)
  <2>1. m \in 1..m
    OBVIOUS
  <2>2. v[m].last /\ v[m].frame = n + 1 /\ v[m] # CloseFrame
    BY <1>2, <2>1
  <2> HIDE DEF s
  <2> QED
    BY <1>8, <1>11, <2>2 DEF EndsAt
<1> QED
  BY <1>1, <1>10, <1>12

(* The peer sends its close frame. *)
LEMMA StreamClose ==
  ASSUME NEW p \in PieceSet, NEW w \in Seq(PieceSet), NEW n, Stream(p, w), EndsAt(p, w, n)
  PROVE  Stream(p, Append(w, CloseFrame))
<1> DEFINE s == Append(w, CloseFrame)
<1>1. /\ s \in Seq(PieceSet) /\ Len(s) = Len(w) + 1 /\ Len(w) \in Nat /\ s # <<>>
      /\ \A i \in 1..Len(w) : s[i] = w[i]
      /\ s[Len(w) + 1] = CloseFrame
  BY CloseIsPiece, AppendProperties
<1>2. w = <<>> <=> Len(w) = 0
  OBVIOUS
<1> HIDE DEF s
<1>3. Follows(p, s[1])
  BY <1>1, <1>2 DEF Stream, EndsAt, Follows
<1>4. \A i \in 1..Len(s) - 1 : Follows(s[i], s[i + 1])
  <2> TAKE i \in 1..Len(s) - 1
  <2>1. CASE i < Len(w)
    BY <1>1, <2>1 DEF Stream
  <2>2. CASE i = Len(w)
    <3>1. w[i].last /\ w[i] # CloseFrame
      BY <1>1, <1>2, <2>2 DEF EndsAt
    <3> QED
      BY <1>1, <2>2, <3>1 DEF Follows
  <2> QED
    BY <1>1, <2>1, <2>2
<1>5. Stream(p, s)
  BY <1>3, <1>4 DEF Stream
<1> QED
  BY <1>5 DEF s

------------------------------------------------------------------------------
(* The messages that Lua has and the queue after them. *)

(* Lua takes a message off the queue, or nothing. *)
LEMMA FinishKeeps ==
  ASSUME Types, NEW who, Finish(who)
  PROVE  /\ got' \in Seq(Message) /\ queue' \in Seq(Message)
         /\ got' \o queue' = got \o queue
<1>1. got \in Seq(Message) /\ queue \in Seq(Message)
  BY DEF Types, Message
<1>2. CASE queue = <<>>
  BY <1>1, <1>2 DEF Finish
<1>3. CASE queue # <<>>
  <2>1. got' = Append(got, Head(queue)) /\ queue' = Tail(queue)
    BY <1>3 DEF Finish
  <2>2. Head(queue) \in Message /\ Tail(queue) \in Seq(Message)
    BY <1>1, <1>3, HeadTailProperties
  <2>3. Append(got, Head(queue)) \in Seq(Message)
    BY <1>1, <2>2, AppendProperties
  <2>4. Append(got, Head(queue)) \o Tail(queue) = got \o queue
    <3>1. PICK h \in Message, t \in Seq(Message) : h = Head(queue) /\ t = Tail(queue)
      BY <2>2
    <3>2. Append(got, h) = got \o <<h>> /\ <<h>> \in Seq(Message)
      BY <1>1, <3>1, AppendIsConcat
    <3>3. (got \o <<h>>) \o t = got \o (<<h>> \o t)
      BY <1>1, <3>1, <3>2, ConcatAssociative
    <3>4. <<h>> \o t = queue
      BY <1>1, <1>3, <3>1
    <3> QED
      BY <3>1, <3>2, <3>3, <3>4
  <2> QED
    BY <2>1, <2>2, <2>3, <2>4
<1> QED
  BY <1>2, <1>3

(* A message on the end of the queue is one on the end of all. *)
LEMMA AppendToQueue ==
  ASSUME NEW g \in Seq(Message), NEW q \in Seq(Message), NEW m \in Message
  PROVE  /\ Append(q, m) \in Seq(Message) /\ g \o q \in Seq(Message)
         /\ g \o Append(q, m) = Append(g \o q, m)
<1>1. Append(q, m) = q \o <<m>> /\ <<m>> \in Seq(Message) /\ Append(q, m) \in Seq(Message)
  BY AppendIsConcat, AppendProperties
<1>2. g \o q \in Seq(Message)
  BY ConcatProperties
<1>3. Append(g \o q, m) = (g \o q) \o <<m>>
  BY <1>2, AppendIsConcat
<1>4. (g \o q) \o <<m>> = g \o (q \o <<m>>)
  BY <1>1, ConcatAssociative
<1> QED
  BY <1>1, <1>2, <1>3, <1>4

(* A close message on the end of the queue. *)
LEMMA CloseQueued ==
  ASSUME Types, WholeInOrder, UNCHANGED <<got, refused>>,
         queue' \in {queue, Append(queue, CloseMsg)}
  PROVE  /\ got' \in Seq(Message) /\ queue' \in Seq(Message)
         /\ WholeInOrder'
         /\ \A k \in Nat : Complete(got \o queue, refused, k) => Complete(got' \o queue', refused', k)
<1>1. got \in Seq(Message) /\ queue \in Seq(Message)
  BY DEF Types, Message
<1>2. CASE queue' = queue
  BY <1>1, <1>2 DEF WholeInOrder
<1>3. CASE queue' = Append(queue, CloseMsg)
  <2>0. CloseMsg \in Message
    BY DEF Message, CloseMsg
  <2>1. PICK m \in Message : m = CloseMsg
    BY <2>0
  <2>2. /\ Append(queue, m) \in Seq(Message) /\ got \o queue \in Seq(Message)
        /\ got \o Append(queue, m) = Append(got \o queue, m)
    BY <1>1, <2>1, AppendToQueue
  <2>3. PICK ms \in Seq(Message) : ms = got \o queue
    BY <2>2
  <2>4. got' \o queue' = Append(ms, CloseMsg)
    BY <1>3, <2>1, <2>2, <2>3
  <2>5. /\ InOrder(ms, refused) => InOrder(Append(ms, CloseMsg), refused)
        /\ \A k \in Nat : Complete(ms, refused, k) => Complete(Append(ms, CloseMsg), refused, k)
    BY AppendClose
  <2> QED
    BY <1>1, <1>3, <2>1, <2>2, <2>3, <2>4, <2>5 DEF WholeInOrder
<1> QED
  BY <1>2, <1>3

(* A whole message of the next frame is queued, or dropped for its size. *)
LEMMA DeliverNext ==
  ASSUME Types, WholeInOrder, NEW k \in Nat, Complete(got \o queue, refused, k),
         NEW m \in Message, m # <<>>, Whole(m), m[1].frame = k + 1,
         Deliver(m), got' = got
  PROVE  /\ queue' \in Seq(Message)
         /\ WholeInOrder'
         /\ Complete(got' \o queue', refused', k + 1)
<1>1. got \in Seq(Message) /\ queue \in Seq(Message)
  BY DEF Types, Message
<1>2. Last(m).frame = k + 1
  <2>1. Len(m) \in 1..Len(m)
    BY DEF Message
  <2>2. m[Len(m)] = Piece(m[1].frame, Len(m), Len(m) = Len(m))
    BY <2>1 DEF Whole
  <2> QED
    BY <2>2 DEF Last, Piece
<1>3. IsData(m)
  BY DEF IsData, CloseMsg
<1>4. /\ Append(queue, m) \in Seq(Message) /\ got \o queue \in Seq(Message)
      /\ got \o Append(queue, m) = Append(got \o queue, m)
  BY <1>1, AppendToQueue
<1>5. PICK ms \in Seq(Message) : ms = got \o queue
  BY <1>4
<1>6. InOrder(ms, refused) /\ Complete(ms, refused, k)
  BY <1>5 DEF WholeInOrder
<1>7. CASE Fits(m)
  <2>1. queue' = Append(queue, m) /\ refused' = refused
    BY <1>7 DEF Deliver
  <2>2. InOrder(Append(ms, m), refused) /\ Complete(Append(ms, m), refused, k + 1)
    BY <1>3, <1>6, AppendMessage
  <2> QED
    BY <1>4, <1>5, <2>1, <2>2 DEF WholeInOrder
<1>8. CASE ~Fits(m)
  <2>1. queue' = queue /\ refused' = refused \cup {k + 1}
    BY <1>2, <1>8 DEF Deliver
  <2>2. InOrder(ms, refused \cup {k + 1}) /\ Complete(ms, refused \cup {k + 1}, k + 1)
    BY <1>6, DropMessage
  <2> QED
    BY <1>1, <1>5, <2>1, <2>2 DEF WholeInOrder
<1> QED
  BY <1>7, <1>8

------------------------------------------------------------------------------
(* The steps. *)

(* The piece that was received last is one. *)
LEMMA LatestIsPiece ==
  ASSUME Types, NEW k \in Nat
  PROVE  Latest(k) \in PieceSet
<1>1. Len(frag) \in Nat /\ k + 1 \in Nat /\ 2 \in Nat
  BY DEF Types
<1> QED
  BY <1>1, PieceFields DEF Latest

(* At first nothing was sent. *)
LEMMA InitInv == Init => Inv
<1> SUFFICES ASSUME Init PROVE Inv
  OBVIOUS
<1>1. Types
  BY DEF Init, Types
<1>2. PlaceInv
  BY DEF Init, PlaceInv
<1>3. got \o queue = <<>> /\ Received(<<>>) = {}
  BY DEF Init, Received
<1>4. WholeInOrder
  BY <1>3 DEF WholeInOrder, InOrder
<1>5. ReceivedTo(0)
  <2>1. Latest(0) = Piece(0, 2, TRUE) /\ wire = <<>> /\ frag = <<>> /\ sent = 0
    BY DEF Latest, Init
  <2>2. Piece(0, 2, TRUE).last /\ Piece(0, 2, TRUE).frame = 0 /\ Piece(0, 2, TRUE) # CloseFrame
    BY DEF Piece, CloseFrame
  <2>3. Stream(Latest(0), wire) /\ EndsAt(Latest(0), wire, sent)
    <3>1. PICK p : p = Piece(0, 2, TRUE) /\ p.last /\ p.frame = 0 /\ p # CloseFrame
      BY <2>2
    <3>0. <<>> \in Seq(PieceSet) /\ Len(<<>>) = 0
      OBVIOUS
    <3>2. PICK w \in Seq(PieceSet) : w = <<>> /\ Len(w) = 0
      BY <3>0
    <3>3. Stream(p, w)
      BY <3>2 DEF Stream
    <3>4. EndsAt(p, w, 0)
      BY <3>1, <3>2 DEF EndsAt
    <3> QED
      BY <2>1, <3>1, <3>2, <3>3, <3>4
  <2>4. Complete(got \o queue, refused, 0)
    BY <1>3 DEF Complete
  <2> QED
    BY <2>1, <2>3, <2>4 DEF ReceivedTo
<1> QED
  BY <1>1, <1>2, <1>4, <1>5 DEF Inv, StreamInv

(* A step that leaves the messages alone and does not begin to receive. *)
LEMMA Untouched ==
  ASSUME Inv, UNCHANGED <<side, queue, frag, wire, sent, got, refused>>,
         PlaceInv', Receiving' => Receiving, peer' = "there" => peer = "there"
  PROVE  Inv'
<1>1. Types' /\ WholeInOrder'
  BY DEF Inv, Types, WholeInOrder
<1>2. ASSUME NEW k \in Nat, ReceivedTo(k) PROVE ReceivedTo(k)'
  BY <1>2 DEF ReceivedTo, Latest
<1>3. StreamInv'
  BY <1>2 DEF Inv, StreamInv
<1> QED
  BY <1>1, <1>3 DEF Inv

(* Disposing of it throws the queue away and ends the receiving. *)
LEMMA Disposed ==
  ASSUME Inv, DisposeNative, UNCHANGED <<side, loop, peer, wire, sent, got, refused>>,
         loop = Nobody
  PROVE  Inv'
<1>1. CASE closed
  <2>1. UNCHANGED <<conn, handle, closed, queue, frag>>
    BY <1>1 DEF DisposeNative, fields
  <2>2. PlaceInv' /\ (Receiving' => Receiving)
    BY <2>1 DEF Inv, PlaceInv, Receiving
  <2> QED
    BY <2>1, <2>2, Untouched
<1>2. CASE ~closed
  <2>1. closed' /\ ~handle' /\ queue' = <<>> /\ frag' = <<>> /\ conn' \in {"draining", "ended"}
    BY <1>2 DEF DisposeNative
  <2>2. got \in Seq(Message) /\ queue \in Seq(Message)
    BY DEF Inv, Types, Message
  <2>3. WholeInOrder'
    <3>1. PICK ms \in Seq(Message), ns \in Seq(Message) : ms = got /\ ns = queue
      BY <2>2
    <3>2. InOrder(ms \o <<>>, refused)
      BY <3>1, InOrderPrefix DEF Inv, WholeInOrder
    <3> QED
      BY <2>1, <3>1, <3>2 DEF WholeInOrder
  <2>4. Types'
    BY <2>1 DEF Inv, Types
  <2>5. PlaceInv'
    BY <2>1 DEF Inv, PlaceInv
  <2>6. StreamInv'
    BY <2>1 DEF StreamInv, Receiving
  <2> QED
    BY <2>3, <2>4, <2>5, <2>6 DEF Inv
<1> QED
  BY <1>1, <1>2

(* The peer sends, closes or leaves. *)
LEMMA PeerStep ==
  ASSUME Inv, Peer PROVE Inv'
<1>1. CASE PeerSends
  <2>1. PICK m \in 1..(IF side = "server" THEN 1 ELSE MaxPieces) :
          wire' = wire \o [i \in 1..m |-> Piece(sent', i, i = m)]
    BY <1>1 DEF PeerSends
  <2>2. m \in Nat \ {0} /\ (side = "server" => m = 1) /\ sent \in Nat /\ sent' = sent + 1
    BY <1>1, <2>1, WebSocketAssumption DEF PeerSends, Inv, Types
  <2>3. wire' = wire \o Frame(sent + 1, m)
    BY <2>1, <2>2 DEF Frame
  <2>4. wire \in Seq(PieceSet)
    BY DEF Inv, Types
  <2>5. peer = "there"
    BY <1>1 DEF PeerSends
  <2>6. UNCHANGED <<side, conn, handle, closed, queue, frag, loop, got, peer, refused>>
    BY <1>1 DEF PeerSends, fields, lua
  <2>7. PICK v \in Seq(PieceSet) :
          /\ v = Frame(sent + 1, m) /\ Len(v) = m
          /\ \A i \in 1..m : /\ v[i].frame = sent + 1 /\ v[i].part = i /\ (v[i].last <=> i = m)
                           /\ v[i] # CloseFrame
    BY <2>2, SendPieces
  <2>8. /\ wire' \in Seq(PieceSet) /\ Len(wire') = Len(wire) + Len(v) /\ Len(wire) \in Nat
        /\ \A i \in 1..Len(wire) + Len(v) :
             wire'[i] = IF i <= Len(wire) THEN wire[i] ELSE v[i - Len(wire)]
    BY <2>3, <2>4, <2>7, ConcatProperties
  <2>9. Types'
    BY <2>2, <2>6, <2>8 DEF Inv, Types
  <2>10. PlaceInv'
    <3>1. ASSUME side = "server", NEW i \in 1..Len(wire') PROVE wire'[i].last
      <4>1. Len(v) = 1 /\ v[1].last
        BY <2>2, <2>7, <3>1
      <4>2. CASE i <= Len(wire)
        BY <2>8, <3>1, <4>2 DEF Inv, PlaceInv
      <4>3. CASE i = Len(wire) + 1
        BY <2>8, <4>1, <4>3
      <4> QED
        BY <2>8, <4>1, <4>2, <4>3
    <3> QED
      BY <2>6, <3>1 DEF Inv, PlaceInv
  <2>11. StreamInv'
    <3> SUFFICES ASSUME Receiving' PROVE \E k \in Nat : ReceivedTo(k)'
      BY DEF StreamInv
    <3>1. PICK k \in Nat : ReceivedTo(k)
      BY <2>6 DEF Receiving, Inv, StreamInv
    <3>2. PICK p \in PieceSet : p = Latest(k)
      BY LatestIsPiece DEF Inv
    <3>3. Stream(p, wire) /\ EndsAt(p, wire, sent)
      BY <2>5, <3>1, <3>2 DEF ReceivedTo
    <3>4. Stream(p, wire') /\ EndsAt(p, wire', sent')
      BY <2>2, <2>3, <2>4, <3>3, StreamSend
    <3>5. Latest(k)' = p
      BY <2>6, <3>2 DEF Latest
    <3> QED
      BY <2>6, <3>1, <3>4, <3>5 DEF ReceivedTo
  <2>12. WholeInOrder'
    BY <2>6 DEF Inv, WholeInOrder
  <2> QED
    BY <2>9, <2>10, <2>11, <2>12 DEF Inv
<1>2. CASE PeerCloses
  <2>1. wire' = Append(wire, CloseFrame) /\ peer = "there" /\ peer' = "closing"
    BY <1>2 DEF PeerCloses
  <2>2. UNCHANGED <<side, conn, handle, closed, queue, frag, loop, got, sent, refused>>
    BY <1>2 DEF PeerCloses, fields, lua
  <2>3. /\ wire \in Seq(PieceSet) /\ wire' \in Seq(PieceSet) /\ Len(wire') = Len(wire) + 1
        /\ \A i \in 1..Len(wire) : wire'[i] = wire[i]
        /\ wire'[Len(wire) + 1] = CloseFrame
    <3>1. wire \in Seq(PieceSet)
      BY DEF Inv, Types
    <3> QED
      BY <2>1, <3>1, CloseIsPiece, AppendProperties
  <2>4. Types' /\ WholeInOrder'
    BY <2>2, <2>3 DEF Inv, Types, WholeInOrder
  <2>5. PlaceInv'
    BY <2>2, <2>3, CloseIsPiece DEF Inv, PlaceInv
  <2>6. StreamInv'
    <3> SUFFICES ASSUME Receiving' PROVE \E k \in Nat : ReceivedTo(k)'
      BY DEF StreamInv
    <3>1. PICK k \in Nat : ReceivedTo(k)
      BY <2>2 DEF Receiving, Inv, StreamInv
    <3>2. PICK p \in PieceSet : p = Latest(k)
      BY LatestIsPiece DEF Inv
    <3>3. Stream(p, wire) /\ EndsAt(p, wire, sent)
      BY <2>1, <3>1, <3>2 DEF ReceivedTo
    <3>4. Stream(p, wire')
      BY <2>1, <2>3, <3>3, StreamClose
    <3>5. Latest(k)' = p
      BY <2>2, <3>2 DEF Latest
    <3> QED
      BY <2>1, <2>2, <3>1, <3>4, <3>5 DEF ReceivedTo
  <2> QED
    BY <2>4, <2>5, <2>6 DEF Inv
<1>3. CASE PeerLeaves
  <2>1. UNCHANGED <<side, conn, handle, closed, queue, frag, loop, wire, sent, got, refused>>
    BY <1>3 DEF PeerLeaves, fields, lua
  <2>2. PlaceInv' /\ (Receiving' => Receiving)
    BY <2>1 DEF Inv, PlaceInv, Receiving
  <2> QED
    BY <1>3, <2>1, <2>2, Untouched DEF PeerLeaves
<1> QED
  BY <1>1, <1>2, <1>3 DEF Peer

(* The connection of a server's WebSocket is over. *)
LEMMA ServerClosed ==
  ASSUME Inv, side = "server", conn' = "ended", EvwsCloseCb,
         UNCHANGED <<side, lua, net, refused>>
  PROVE  Inv'
<1>1. UNCHANGED <<side, loop, got, peer, wire, sent, refused, closed, frag>> /\ ~handle'
  BY DEF EvwsCloseCb, lua, net
<1>2. queue' \in {queue, Append(queue, CloseMsg)}
  BY DEF EvwsCloseCb
<1>3. queue' \in Seq(Message) /\ WholeInOrder'
  BY <1>1, <1>2, CloseQueued DEF Inv
<1>4. Types'
  BY <1>1, <1>3 DEF Inv, Types, Message
<1>5. PlaceInv'
  BY <1>1 DEF Inv, PlaceInv
<1>6. StreamInv'
  BY <1>1 DEF StreamInv, Receiving
<1> QED
  BY <1>3, <1>4, <1>5, <1>6 DEF Inv

(* libevent hands over a frame, begins to close, or has closed. *)
LEMMA LibeventStep ==
  ASSUME Inv, Libevent PROVE Inv'
<1>1. CASE EvwsMsgCb
  <2>1. side = "server" /\ wire # <<>> /\ Head(wire) # CloseFrame /\ wire' = Tail(wire)
    BY <1>1 DEF EvwsMsgCb
  <2>2. UNCHANGED <<side, conn, handle, closed, frag, loop, got, peer, sent>>
    BY <1>1 DEF EvwsMsgCb, lua
  <2>3. wire \in Seq(PieceSet)
    BY DEF Inv, Types
  <2>4. /\ Head(wire) = wire[1] /\ Head(wire) \in PieceSet /\ Tail(wire) \in Seq(PieceSet)
        /\ \A i \in 1..Len(Tail(wire)) : i + 1 \in 1..Len(wire) /\ Tail(wire)[i] = wire[i + 1]
        /\ 1 \in 1..Len(wire)
    BY <2>1, <2>3, TailPieces
  <2>5. PlaceInv'
    BY <2>1, <2>2, <2>4 DEF Inv, PlaceInv
  <2>6. CASE closed
    <3>1. UNCHANGED <<queue, refused>>
      BY <1>1, <2>6 DEF EvwsMsgCb
    <3>2. Types' /\ WholeInOrder'
      BY <2>1, <2>2, <2>4, <3>1 DEF Inv, Types, WholeInOrder
    <3>3. StreamInv'
      BY <2>2, <2>6 DEF StreamInv, Receiving
    <3> QED
      BY <2>5, <3>2, <3>3 DEF Inv
  <2>7. CASE ~closed
    <3>1. Receiving
      BY <1>1, <2>7 DEF EvwsMsgCb, Receiving
    <3>2. PICK k \in Nat : ReceivedTo(k)
      BY <3>1 DEF Inv, StreamInv
    <3>3. frag = <<>>
      BY <2>1 DEF Inv, PlaceInv
    <3>4. PICK p \in PieceSet : p = Latest(k)
      BY LatestIsPiece DEF Inv
    <3>5. p = Piece(k, 2, TRUE)
      BY <3>3, <3>4 DEF Latest
    <3>6. PICK h \in PieceSet : h = Head(wire)
      BY <2>4
    <3>7. Follows(p, h) /\ Stream(h, wire') /\ \A n : EndsAt(p, wire, n) => EndsAt(h, wire', n)
      BY <2>1, <2>3, <3>2, <3>4, <3>6, StreamTail DEF ReceivedTo
    <3>8. h.last /\ h # CloseFrame
      BY <2>1, <2>4, <3>6 DEF Inv, PlaceInv
    <3>9. p.last /\ p.frame = k
      BY <3>5, PieceFields
    <3>10. h.frame = k + 1 /\ h.part = 1
      BY <3>7, <3>8, <3>9 DEF Follows
    <3>11. <<h>> \in Message
      BY DEF Message
    <3>12. PICK m \in Message : m = <<h>>
      BY <3>11
    <3>13. m # <<>> /\ Whole(m) /\ m[1].frame = k + 1
      <4>1. m # <<>> /\ Len(m) = 1 /\ m[1] = h
        BY <3>12
      <4>2. \A i \in 1..Len(m) : m[i].frame = k + 1 /\ m[i].part = i /\ (m[i].last <=> i = Len(m))
        BY <3>8, <3>10, <4>1
      <4>3. k + 1 \in Nat
        OBVIOUS
      <4> QED
        BY <4>1, <4>2, <4>3, WholeIs
    <3>14. Deliver(m)
      BY <1>1, <2>7, <3>6, <3>12 DEF EvwsMsgCb
    <3>15. /\ queue' \in Seq(Message) /\ WholeInOrder'
           /\ Complete(got' \o queue', refused', k + 1)
      BY <2>2, <3>2, <3>13, <3>14, DeliverNext DEF Inv, ReceivedTo
    <3>16. Types'
      BY <2>1, <2>2, <2>4, <3>15 DEF Inv, Types, Message
    <3>17. ReceivedTo(k + 1)'
      <4>1. Latest(k + 1)' = Piece(k + 1, 2, TRUE)
        BY <2>2, <3>3 DEF Latest
      <4>2. PICK q \in PieceSet : q = Piece(k + 1, 2, TRUE) /\ q.last /\ q.frame = k + 1 /\ q # CloseFrame
        <5>1. k + 1 \in Nat /\ 2 \in Nat /\ k + 1 # 0
          OBVIOUS
        <5> QED
          BY <5>1, PieceFields
      <4>3. wire' \in Seq(PieceSet)
        BY <2>1, <2>4
      <4>4. Stream(q, wire') /\ \A n : EndsAt(h, wire', n) => EndsAt(q, wire', n)
        BY <3>7, <3>8, <3>10, <4>2, <4>3, StreamAfterLast
      <4>5. peer' = "there" => EndsAt(q, wire', sent')
        BY <2>2, <3>2, <3>4, <3>7, <4>4 DEF ReceivedTo
      <4>6. Stream(Latest(k + 1)', wire') /\ (peer' = "there" => EndsAt(Latest(k + 1)', wire', sent'))
        BY <4>1, <4>2, <4>4, <4>5
      <4>7. \A i \in 1..Len(frag') : frag'[i] = Piece((k + 1) + 1, i, FALSE)
        BY <2>2, <3>3
      <4> QED
        BY <3>15, <4>6, <4>7 DEF ReceivedTo
    <3>18. StreamInv'
      BY <3>17 DEF StreamInv
    <3> QED
      BY <2>5, <3>15, <3>16, <3>18 DEF Inv
  <2> QED
    BY <2>6, <2>7
<1>2. CASE StartsClosing
  <2>1. side = "server" /\ conn' = "draining" /\ wire' = <<>>
    BY <1>2 DEF StartsClosing
  <2>2. UNCHANGED <<side, handle, closed, queue, frag, loop, sent, got, refused>>
    BY <1>2 DEF StartsClosing, fields, lua
  <2>3. Types' /\ PlaceInv' /\ WholeInOrder'
    BY <2>1, <2>2 DEF Inv, Types, PlaceInv, WholeInOrder
  <2>4. StreamInv'
    BY <2>1, <2>2 DEF StreamInv, Receiving
  <2> QED
    BY <2>3, <2>4 DEF Inv
<1>3. CASE Drained
  BY <1>3, ServerClosed DEF Drained
<1> QED
  BY <1>1, <1>2, <1>3 DEF Libevent

(* Lua takes a message, and nothing is received. *)
LEMMA TakenStep ==
  ASSUME Inv, NEW who, Finish(who),
         UNCHANGED <<side, conn, handle, closed, frag, wire, peer, sent, refused>>
  PROVE  Inv'
<1>1. got' \in Seq(Message) /\ queue' \in Seq(Message) /\ got' \o queue' = got \o queue
  BY FinishKeeps DEF Inv
<1>2. Types' /\ WholeInOrder'
  BY <1>1 DEF Inv, Types, WholeInOrder, Message
<1>3. PlaceInv'
  BY DEF Inv, PlaceInv, Finish
<1>4. ASSUME NEW k \in Nat, ReceivedTo(k) PROVE ReceivedTo(k)'
  BY <1>1, <1>4 DEF ReceivedTo, Latest
<1>5. StreamInv'
  BY <1>4 DEF Inv, StreamInv, Receiving
<1> QED
  BY <1>2, <1>3, <1>5 DEF Inv

(* The loop of Poll and Read. *)
LEMMA LoopStep ==
  ASSUME Inv, Loop PROVE Inv'
<1>1. InLoop /\ side = "client" /\ ~closed /\ Receiving
  BY DEF Loop, RecvNothing, RecvClose, RecvError, RecvPart, RecvLast, Receives, InLoop, Inv,
     PlaceInv, Receiving
<1>2. PICK k \in Nat : ReceivedTo(k)
  BY <1>1 DEF Inv, StreamInv
<1>3. wire \in Seq(PieceSet) /\ frag \in Seq(PieceSet) /\ Len(frag) \in Nat
  BY DEF Inv, Types
<1>4. PICK p \in PieceSet : p = Latest(k)
  BY LatestIsPiece DEF Inv
<1>5. Stream(p, wire) /\ (peer = "there" => EndsAt(p, wire, sent))
  BY <1>2, <1>4 DEF ReceivedTo
<1>6. /\ frag = <<>> => p.last /\ p.frame = k
      /\ frag # <<>> => ~p.last /\ p.frame = k + 1 /\ p.part = Len(frag)
  <2>1. CASE frag = <<>>
    BY <1>4, <2>1 DEF Latest, Piece
  <2>2. CASE frag # <<>>
    BY <1>4, <2>2 DEF Latest, Piece
  <2> QED
    BY <2>1, <2>2
<1>7. CASE RecvNothing
  <2>1. UNCHANGED <<side, conn, handle, closed, frag, wire, peer, sent, refused>> /\ Finish(loop)
    BY <1>7 DEF RecvNothing, net
  <2> QED
    BY <2>1, TakenStep DEF Inv
<1>8. ASSUME NEW h \in Pieces, RecvPart(h) PROVE Inv'
  <2>1. wire # <<>> /\ Head(wire) = h /\ wire' = Tail(wire) /\ ~h.last /\ frag' = Append(frag, h)
    BY <1>8 DEF RecvPart, Receives
  <2>2. UNCHANGED <<side, conn, handle, closed, peer, sent, refused>> /\ Finish(loop)
    BY <1>8 DEF RecvPart
  <2>3. got' \in Seq(Message) /\ queue' \in Seq(Message) /\ got' \o queue' = got \o queue
    BY <2>2, FinishKeeps DEF Inv
  <2>4. h \in PieceSet /\ Tail(wire) \in Seq(PieceSet)
    BY <1>3, <2>1, TailPieces
  <2>5. /\ Follows(p, h) /\ Stream(h, Tail(wire))
        /\ \A n : EndsAt(p, wire, n) => EndsAt(h, Tail(wire), n)
    BY <1>3, <1>5, <2>1, StreamTail
  <2>6. ~p.last => FALSE \/ (h.frame = k + 1 /\ h.part = Len(frag) + 1)
    BY <1>6, <2>5 DEF Follows
  <2>7. p.last => h.frame = k + 1 /\ h.part = 1 /\ Len(frag) = 0
    BY <1>3, <1>6, <2>1, <2>5, CloseIsPiece DEF Follows
  <2>8. h.frame = k + 1 /\ h.part = Len(frag) + 1
    BY <2>6, <2>7
  <2>9. h = Piece(k + 1, Len(frag) + 1, FALSE)
    <3>1. h = [frame |-> h.frame, part |-> h.part, last |-> h.last] /\ h.last = FALSE
      BY <2>1, <2>4 DEF PieceSet
    <3> QED
      BY <2>8, <3>1 DEF Piece
  <2>10. /\ frag' \in Seq(PieceSet) /\ Len(frag') = Len(frag) + 1 /\ frag' # <<>>
         /\ \A i \in 1..Len(frag) : frag'[i] = frag[i]
         /\ frag'[Len(frag) + 1] = h
    BY <1>3, <2>1, <2>4, AppendProperties
  <2>11. Types' /\ WholeInOrder'
    BY <2>1, <2>2, <2>3, <2>4, <2>10 DEF Inv, Types, WholeInOrder, Message
  <2>12. PlaceInv'
    BY <1>1, <2>2 DEF Inv, PlaceInv, Finish
  <2>13. ReceivedTo(k)'
    <3>1. \A i \in 1..Len(frag') : frag'[i] = Piece(k + 1, i, FALSE)
      <4>1. \A i \in 1..Len(frag) : frag[i] = Piece(k + 1, i, FALSE)
        BY <1>2 DEF ReceivedTo
      <4>2. \A i \in 1..Len(frag') : i \in 1..Len(frag) \/ i = Len(frag) + 1
        BY <1>3, <2>10
      <4> QED
        BY <2>9, <2>10, <4>1, <4>2
    <3>2. Latest(k)' = h
      BY <2>9, <2>10 DEF Latest
    <3>3. Stream(Latest(k)', wire') /\ (peer' = "there" => EndsAt(Latest(k)', wire', sent'))
      BY <1>5, <2>1, <2>2, <2>5, <3>2
    <3>4. Complete(got' \o queue', refused', k)
      BY <1>2, <2>2, <2>3 DEF ReceivedTo
    <3> QED
      BY <3>1, <3>3, <3>4 DEF ReceivedTo
  <2>14. StreamInv'
    BY <2>13 DEF StreamInv
  <2> QED
    BY <2>11, <2>12, <2>14 DEF Inv
<1>9. ASSUME NEW h \in Pieces, RecvLast(h) PROVE Inv'
  <2>1. wire # <<>> /\ Head(wire) = h /\ wire' = Tail(wire) /\ h.last /\ h # CloseFrame /\ frag' = <<>>
    BY <1>9 DEF RecvLast, Receives
  <2>2. UNCHANGED <<side, conn, handle, closed, loop, got, peer, sent>>
    BY <1>9 DEF RecvLast, lua
  <2>3. h \in PieceSet /\ Tail(wire) \in Seq(PieceSet)
    BY <1>3, <2>1, TailPieces
  <2>4. /\ Follows(p, h) /\ Stream(h, Tail(wire))
        /\ \A n : EndsAt(p, wire, n) => EndsAt(h, Tail(wire), n)
    BY <1>3, <1>5, <2>1, StreamTail
  <2>5. ~p.last => h.frame = k + 1 /\ h.part = Len(frag) + 1
    BY <1>6, <2>4 DEF Follows
  <2>6. p.last => h.frame = k + 1 /\ h.part = 1 /\ Len(frag) = 0
    BY <1>3, <1>6, <2>1, <2>4 DEF Follows
  <2>7. h.frame = k + 1 /\ h.part = Len(frag) + 1
    BY <2>5, <2>6
  <2>8. Append(frag, h) \in Message
    BY <1>3, <2>3, AppendProperties DEF Message
  <2>9. PICK m \in Message : m = Append(frag, h)
    BY <2>8
  <2>10. m # <<>> /\ Whole(m) /\ m[1].frame = k + 1
    <3>1. /\ m # <<>> /\ Len(m) = Len(frag) + 1
          /\ \A i \in 1..Len(frag) : m[i] = frag[i]
          /\ m[Len(frag) + 1] = h
      BY <1>3, <2>3, <2>9, AppendProperties
    <3>2. \A i \in 1..Len(frag) : frag[i].frame = k + 1 /\ frag[i].part = i /\ ~frag[i].last
      <4> TAKE i \in 1..Len(frag)
      <4>1. frag[i] = Piece(k + 1, i, FALSE)
        BY <1>2 DEF ReceivedTo
      <4> QED
        BY <4>1 DEF Piece
    <3>3. \A i \in 1..Len(m) : m[i].frame = k + 1 /\ m[i].part = i /\ (m[i].last <=> i = Len(m))
      <4> TAKE i \in 1..Len(m)
      <4>1. CASE i \in 1..Len(frag)
        BY <1>3, <3>1, <3>2, <4>1
      <4>2. CASE i = Len(frag) + 1
        BY <2>1, <2>7, <3>1, <4>2
      <4> QED
        BY <1>3, <3>1, <4>1, <4>2
    <3>4. k + 1 \in Nat
      OBVIOUS
    <3> QED
      BY <3>1, <3>3, <3>4, WholeIs
  <2>11. Deliver(m)
    BY <1>9, <2>9 DEF RecvLast
  <2>12. /\ queue' \in Seq(Message) /\ WholeInOrder'
         /\ Complete(got' \o queue', refused', k + 1)
    BY <1>2, <2>2, <2>10, <2>11, DeliverNext DEF Inv, ReceivedTo
  <2>13. Types'
    BY <2>1, <2>2, <2>3, <2>12 DEF Inv, Types, Message
  <2>14. PlaceInv'
    BY <1>1, <2>2 DEF Inv, PlaceInv
  <2>15. ReceivedTo(k + 1)'
    <3>1. Latest(k + 1)' = Piece(k + 1, 2, TRUE)
      BY <2>1 DEF Latest
    <3>2. PICK q \in PieceSet : q = Piece(k + 1, 2, TRUE) /\ q.last /\ q.frame = k + 1 /\ q # CloseFrame
      <4>1. k + 1 \in Nat /\ 2 \in Nat /\ k + 1 # 0
        OBVIOUS
      <4> QED
        BY <4>1, PieceFields
    <3>3. wire' \in Seq(PieceSet)
      BY <2>1, <2>3
    <3>4. Stream(h, wire')
      BY <2>1, <2>4
    <3>5. Stream(q, wire') /\ \A n : EndsAt(h, wire', n) => EndsAt(q, wire', n)
      BY <2>1, <2>3, <2>7, <3>2, <3>3, <3>4, StreamAfterLast
    <3>6. peer' = "there" => EndsAt(q, wire', sent')
      BY <1>5, <2>1, <2>2, <2>4, <3>5
    <3>7. Stream(Latest(k + 1)', wire') /\ (peer' = "there" => EndsAt(Latest(k + 1)', wire', sent'))
      BY <3>1, <3>2, <3>5, <3>6
    <3>8. \A i \in 1..Len(frag') : frag'[i] = Piece((k + 1) + 1, i, FALSE)
      BY <2>1
    <3> QED
      BY <2>12, <3>7, <3>8 DEF ReceivedTo
  <2>16. StreamInv'
    <3>1. k + 1 \in Nat
      OBVIOUS
    <3> QED
      BY <2>15, <3>1 DEF StreamInv
  <2> QED
    BY <2>12, <2>13, <2>14, <2>16 DEF Inv
<1>10. CASE RecvClose
  <2>1. wire # <<>> /\ Head(wire) = CloseFrame /\ wire' = Tail(wire)
    BY <1>10 DEF RecvClose, Receives
  <2>2. UNCHANGED <<side, conn, handle, closed, frag, loop, got, peer, sent, refused>>
    BY <1>10 DEF RecvClose, EnqueueClose, lua
  <2>3. queue' \in {queue, Append(queue, CloseMsg)}
    BY <1>10 DEF RecvClose, EnqueueClose
  <2>4. /\ got' \in Seq(Message) /\ queue' \in Seq(Message) /\ WholeInOrder'
        /\ Complete(got' \o queue', refused', k)
    BY <1>2, <2>2, <2>3, CloseQueued DEF Inv, ReceivedTo
  <2>5. /\ wire[1] = CloseFrame /\ Tail(wire) \in Seq(PieceSet) /\ Len(Tail(wire)) = Len(wire) - 1
        /\ Len(wire) \in Nat /\ Len(wire) > 0 /\ (Tail(wire) = <<>> <=> Len(wire) = 1)
    BY <1>3, <2>1, TailPieces
  <2>6. Len(wire) = 1
    <3>1. ~(1 \in 1..Len(wire) - 1)
      BY <1>5, <2>5, CloseIsPiece DEF Stream, Follows
    <3> QED
      BY <2>5, <3>1
  <2>7. wire' = <<>> /\ peer # "there"
    BY <1>5, <2>1, <2>5, <2>6 DEF EndsAt
  <2>8. Types' /\ PlaceInv'
    BY <1>1, <2>2, <2>4, <2>7 DEF Inv, Types, PlaceInv, Message
  <2>9. ReceivedTo(k)'
    <3>1. Stream(Latest(k)', wire')
      <4>0. <<>> \in Seq(PieceSet) /\ Len(<<>>) = 0
        OBVIOUS
      <4>1. PICK w \in Seq(PieceSet) : w = <<>> /\ Len(w) = 0
        BY <4>0
      <4>2. Stream(Latest(k)', w)
        BY <4>1 DEF Stream
      <4> QED
        BY <2>7, <4>1, <4>2
    <3>2. \A i \in 1..Len(frag') : frag'[i] = Piece(k + 1, i, FALSE)
      BY <1>2, <2>2 DEF ReceivedTo
    <3> QED
      BY <2>2, <2>4, <2>7, <3>1, <3>2 DEF ReceivedTo
  <2>10. StreamInv'
    BY <2>9 DEF StreamInv
  <2> QED
    BY <2>4, <2>8, <2>10 DEF Inv
<1>11. CASE RecvError
  <2>1. UNCHANGED <<side, handle, closed, frag, loop, got, wire, peer, sent, refused>> /\ conn' = "ended"
    BY <1>11 DEF RecvError, EnqueueClose, lua, net
  <2>2. queue' \in {queue, Append(queue, CloseMsg)}
    BY <1>11 DEF RecvError, EnqueueClose
  <2>3. /\ got' \in Seq(Message) /\ queue' \in Seq(Message) /\ WholeInOrder'
        /\ Complete(got' \o queue', refused', k)
    BY <1>2, <2>1, <2>2, CloseQueued DEF Inv, ReceivedTo
  <2>4. Types' /\ PlaceInv'
    BY <1>1, <2>1, <2>3 DEF Inv, Types, PlaceInv, Message
  <2>5. ReceivedTo(k)'
    BY <1>2, <2>1, <2>3 DEF ReceivedTo, Latest
  <2>6. StreamInv'
    BY <2>5 DEF StreamInv
  <2> QED
    BY <2>3, <2>4, <2>6 DEF Inv
<1> QED
  BY <1>7, <1>8, <1>9, <1>10, <1>11 DEF Loop

(* What Lua and the Accept pump do. *)
LEMMA LuaStep ==
  ASSUME Inv, Lua PROVE Inv'
<1>1. CASE WsConnectContinuation
  <2>1. UNCHANGED <<side, loop, got, peer, wire, sent, refused>> /\ conn = "connecting"
    BY <1>1 DEF WsConnectContinuation, net
  <2>2. CASE conn' = "open" /\ UNCHANGED <<handle, closed, capped, queue, frag, selfRef, held>>
    <3>1. PlaceInv' /\ (Receiving' => Receiving)
      BY <2>1, <2>2 DEF Inv, PlaceInv, Receiving
    <3> QED
      BY <2>1, <2>2, <3>1, Untouched
  <2>3. CASE DisposeNative
    <3>1. loop = Nobody
      BY <2>1 DEF Inv, PlaceInv
    <3> QED
      BY <2>1, <2>3, <3>1, Disposed
  <2> QED
    BY <1>1, <2>2, <2>3 DEF WsConnectContinuation
<1>2. CASE Dispose \/ GC
  <2>1. DisposeNative /\ loop = Nobody /\ UNCHANGED <<side, loop, peer, wire, sent, got, refused>>
    BY <1>2 DEF Dispose, GC, Script, lua, net
  <2> QED
    BY <2>1, Disposed
<1>3. ASSUME NEW c \in Readers, TokenTest(c) PROVE Inv'
  <2>1. DisposeNative /\ loop = Nobody /\ UNCHANGED <<side, loop, peer, wire, sent, got, refused>>
    BY <1>3 DEF TokenTest, Turn, Script, net
  <2> QED
    BY <2>1, Disposed
<1>4. CASE Forget \/ SetMaxMessageSize \/ TokenDies \/ \E c \in Readers : Read(c)
  <2>1. UNCHANGED <<side, conn, handle, closed, queue, frag, loop, wire, peer, sent, got, refused>>
    BY <1>4 DEF Forget, SetMaxMessageSize, TokenDies, Read, fields, lua, net
  <2>2. PlaceInv' /\ (Receiving' => Receiving)
    BY <2>1 DEF Inv, PlaceInv, Receiving
  <2> QED
    BY <2>1, <2>2, Untouched
<1>5. ASSUME NEW who \in Callers, BeginReceive(who) PROVE Inv'
  <2>1. UNCHANGED <<side, conn, handle, closed, queue, frag, wire, peer, sent, got, refused>>
    BY <1>5 DEF BeginReceive, fields, net
  <2>2. PlaceInv' /\ (Receiving' => Receiving)
    BY <1>5, <2>1 DEF Inv, PlaceInv, Receiving, BeginReceive, Turn, Script
  <2> QED
    BY <2>1, <2>2, Untouched
<1>6. ASSUME NEW who \in Callers, TakeMessage(who) PROVE Inv'
  <2>1. /\ UNCHANGED <<side, conn, handle, closed, frag, wire, peer, sent, refused>>
        /\ Finish(who)
    BY <1>6 DEF TakeMessage, net
  <2> QED
    BY <2>1, TakenStep
<1>7. CASE ServerCloses
  BY <1>7, ServerClosed DEF ServerCloses
<1> QED
  BY <1>1, <1>2, <1>3, <1>4, <1>5, <1>6, <1>7 DEF Lua

(* The invariant is inductive. *)
LEMMA InvNext == Inv /\ [Next]_vars => Inv'
<1> SUFFICES ASSUME Inv, [Next]_vars PROVE Inv'
  OBVIOUS
<1>1. CASE Next
  BY <1>1, PeerStep, LibeventStep, LoopStep, LuaStep DEF Next
<1>2. CASE UNCHANGED vars
  <2>1. UNCHANGED <<side, conn, handle, closed, queue, frag, loop, wire, peer, sent, got, refused>>
    BY <1>2 DEF vars, fields, lua, net
  <2>2. PlaceInv' /\ (Receiving' => Receiving)
    BY <2>1 DEF Inv, PlaceInv, Receiving
  <2> QED
    BY <2>1, <2>2, Untouched
<1> QED
  BY <1>1, <1>2

(* Lua gets the peer's frames whole, in the order they were sent, and none is *)
(* missing between two of them but those above the size: for any readers, any *)
(* number of frames and of pieces, whichever of them are too big.             *)
THEOREM WholeFrames == Spec => []WholeInOrder
<1>1. Inv => WholeInOrder
  BY DEF Inv
<1> QED
  BY <1>1, InitInv, InvNext, PTL DEF Spec

====
