-------------------------- MODULE MongoWorker_proofs -------------------------
(***************************************************************************)
(* The handover of an operation between Lua and the worker thread of a     *)
(* MongoDB connection: what the worker uses is kept, what is freed is      *)
(* freed once, and a cut-off result was asked for and is not handed out.   *)
(* For any number of coroutines and operations.                            *)
(***************************************************************************)
EXTENDS MongoWorker, TLAPS

(* TypeOK in three parts: the flags, what has finitely many values, and what counts operations. *)
Flags ==
  /\ open \in BOOLEAN /\ stop \in BOOLEAN /\ cancelled \in BOOLEAN
  /\ workReady \in BOOLEAN /\ workDone \in BOOLEAN
  /\ shared \in BOOLEAN /\ killed \in BOOLEAN

Kinds ==
  /\ state \in {"IDLE", "RUNNING", "DONE", "ERROR"}
  /\ worker \in {"wait", "woken", "test", "run", "ended", "store", "signal", "exit"}
  /\ outcome \in Fates \cup {"broken"}
  /\ worker = "ended" => outcome \in {"complete", "cut", "broken"}
  /\ worker = "store" => outcome \in {"complete", "cut", "failed"}
  /\ cont \in [Coros -> {"none", "wait", "get", "cancel"}]
  /\ closing \in {"no", "stop", "waitDone", "ready", "join"}
  /\ token \in {"alive", "dead"}

Counts ==
  /\ lastOp \in 0..MaxOps /\ op \in 0..lastOp /\ mine \in 0..lastOp
  /\ fate \in [Ops -> Fates]
  /\ freed \subseteq 1..lastOp /\ delivered \subseteq 0..lastOp /\ askedOff \subseteq 0..lastOp

Busy == worker \in {"test", "run", "ended", "store"}

(* What a Close has done so far. *)
Closing ==
  /\ stop => ~open \/ closing \in {"waitDone", "ready", "join"}
  /\ closing \in {"waitDone", "ready", "join"} => stop
  /\ worker = "exit" => stop
  /\ ~open => worker = "exit" /\ closing = "no"

(* An operation that Lua handed over is with the event or with the worker, not with both, until
   its state is stored. *)
HandedOver ==
  /\ open /\ state = "RUNNING" => op # NoOp
  /\ Busy => open /\ state = "RUNNING" /\ mine = op
  /\ ~stop /\ (workReady \/ worker = "woken") => state = "RUNNING"
  /\ ~stop /\ workReady => worker # "woken" /\ ~Busy

(* An operation that was handed over has an end before the state is anything but RUNNING. *)
Begun ==
  /\ \A o \in 1..lastOp : fate[o] # "none"
  /\ op # NoOp /\ fate[op] = "dispatched" => state = "RUNNING"

Asked ==
  /\ open /\ cancelled /\ state = "RUNNING" => op \in askedOff
  /\ worker \in {"ended", "store"} /\ outcome = "cut" => mine \in askedOff

(* What keeps others from a connection on which an operation is ended early. *)
Withheld == ~LuaRuns \/ \E c \in Coros : cont[c] = "cancel"

Unshared ==
  ~shared /\ ~killed =>
    /\ \A c, d \in Coros : cont[c] # "none" /\ cont[d] # "none" => c = d
    /\ LuaRuns => \A c \in Coros : cont[c] = "get" => op # NoOp
    /\ cancelled /\ state = "RUNNING" => Withheld
    /\ worker \in {"ended", "store"} /\ outcome = "cut" => Withheld
    /\ op # NoOp /\ fate[op] = "cut" => Withheld

DeliveredIsFreed == \A o \in delivered : o = NoOp \/ o \in freed

MInv == /\ Flags /\ Kinds /\ Counts /\ Closing /\ HandedOver /\ Begun /\ OwnedOrFreed /\ Asked /\ CutOnlyIfAsked
        /\ Unshared /\ DeliveredIsFreed /\ WholeResults

------------------------------------------------------------------------------

(* In the initial state no operation exists. *)
LEMMA InitMInv == Init => MInv
<1> SUFFICES ASSUME Init PROVE MInv
  OBVIOUS
<1> USE MongoAssumption DEF Init, NoOp, Fates
<1>0. Flags
  BY DEF Flags
<1>1. Kinds /\ Counts
  BY DEF Kinds, Counts
<1>2. Closing /\ HandedOver /\ Begun /\ OwnedOrFreed /\ Asked
  BY DEF Closing, HandedOver, Busy, Begun, OwnedOrFreed, Asked
<1>3. CutOnlyIfAsked /\ Unshared /\ DeliveredIsFreed /\ WholeResults
  BY DEF CutOnlyIfAsked, Unshared, DeliveredIsFreed, WholeResults
<1> QED
  BY <1>0, <1>1, <1>2, <1>3 DEF MInv

(* A step that leaves the variables of a part of the invariant alone keeps that part. *)
LEMMA Undisturbed ==
  ASSUME MInv
  PROVE  /\ UNCHANGED <<open, stop, cancelled, workReady, workDone, shared, killed>> => Flags'
         /\ UNCHANGED <<state, worker, outcome, cont, closing, token>> => Kinds'
         /\ UNCHANGED <<lastOp, op, mine, fate, freed, delivered, askedOff>> => Counts'
         /\ UNCHANGED <<stop, open, closing, worker>> => Closing'
         /\ UNCHANGED <<open, state, op, worker, mine, stop, workReady>> => HandedOver'
         /\ UNCHANGED <<lastOp, op, fate, state>> => Begun'
         /\ UNCHANGED <<lastOp, op, freed>> => OwnedOrFreed'
         /\ UNCHANGED <<open, cancelled, state, op, askedOff, worker, outcome, mine>> => Asked'
         /\ UNCHANGED <<fate, askedOff>> => CutOnlyIfAsked'
         /\ UNCHANGED <<shared, killed, cont, open, closing, op, cancelled, state, worker, outcome, fate>> => Unshared'
         /\ UNCHANGED <<delivered, freed>> => DeliveredIsFreed'
         /\ UNCHANGED <<shared, killed, delivered, fate>> => WholeResults'
<1>1. UNCHANGED <<open, stop, cancelled, workReady, workDone, shared, killed>> => Flags'
  BY DEF MInv, Flags
<1>2. UNCHANGED <<state, worker, outcome, cont, closing, token>> => Kinds'
  BY DEF MInv, Kinds
<1>3. UNCHANGED <<lastOp, op, mine, fate, freed, delivered, askedOff>> => Counts'
  BY DEF MInv, Counts
<1>4. UNCHANGED <<stop, open, closing, worker>> => Closing'
  BY DEF MInv, Closing
<1>5. UNCHANGED <<open, state, op, worker, mine, stop, workReady>> => HandedOver'
  BY DEF MInv, HandedOver, Busy
<1>6. UNCHANGED <<lastOp, op, freed>> => OwnedOrFreed'
  BY DEF MInv, OwnedOrFreed
<1>7. UNCHANGED <<open, cancelled, state, op, askedOff, worker, outcome, mine>> => Asked'
  BY DEF MInv, Asked
<1>8. UNCHANGED <<fate, askedOff>> => CutOnlyIfAsked'
  BY DEF MInv, CutOnlyIfAsked
<1>9. UNCHANGED <<shared, killed, cont, open, closing, op, cancelled, state, worker, outcome, fate>> => Unshared'
  BY DEF MInv, Unshared, Withheld, LuaRuns
<1>10. UNCHANGED <<delivered, freed>> => DeliveredIsFreed'
  BY DEF MInv, DeliveredIsFreed
<1>11. UNCHANGED <<shared, killed, delivered, fate>> => WholeResults'
  BY DEF MInv, WholeResults
<1>12. UNCHANGED <<lastOp, op, fate, state>> => Begun'
  BY DEF MInv, Begun
<1> QED
  BY <1>1, <1>2, <1>3, <1>4, <1>5, <1>6, <1>7, <1>8, <1>9, <1>10, <1>11, <1>12

(* The worker has met a cancel, now or before. *)
MayCut == cancelled \/ (worker = "ended" /\ outcome = "cut")

(* A step in which the worker only goes on with its operation: an outcome is a cut only if the
   worker met the cancel, now or before. *)
LEMMA WorkerGoesOn ==
  ASSUME MInv, Busy, NEW how \in Fates \cup {"broken"},
         NEW next \in {"run", "ended", "store"}, Worker(next, how),
         next = "ended" => how \in {"complete", "cut", "broken"},
         next = "store" => how \in {"complete", "cut", "failed"},
         how = "cut" => MayCut
  PROVE  MInv'
<1> USE DEF Worker, MayCut, opVars, events, workerVars
<1>1. Flags' /\ Counts' /\ Begun' /\ OwnedOrFreed' /\ CutOnlyIfAsked' /\ DeliveredIsFreed' /\ WholeResults'
  BY Undisturbed
<1>2. Kinds'
  BY DEF MInv, Kinds
<1>3. Closing'
  BY DEF MInv, Closing, Busy
<1>4. HandedOver'
  BY DEF MInv, HandedOver
<1>5. Asked'
  BY DEF MInv, Asked, HandedOver
<1>6. Unshared'
  BY DEF MInv, Unshared, Withheld, HandedOver, LuaRuns
<1> QED
  BY <1>1, <1>2, <1>3, <1>4, <1>5, <1>6 DEF MInv

(* Every step of the worker keeps the invariant. *)
LEMMA WorkerMInv == MInv /\ WorkerStep => MInv'
<1> SUFFICES ASSUME MInv, WorkerStep PROVE MInv'
  OBVIOUS
<1>1. CASE WorkerWakes
  <2> USE <1>1 DEF WorkerWakes, opVars, events, workerVars
  <2>1. Counts' /\ Begun' /\ OwnedOrFreed' /\ CutOnlyIfAsked' /\ DeliveredIsFreed' /\ WholeResults'
    BY Undisturbed
  <2>2. Flags'
    BY DEF MInv, Flags
  <2>3. Kinds'
    BY DEF MInv, Kinds
  <2>4. Closing'
    BY DEF MInv, Closing
  <2>5. HandedOver'
    BY DEF MInv, HandedOver, Busy
  <2>6. Asked'
    BY DEF MInv, Asked
  <2>7. Unshared'
    BY DEF MInv, Unshared, Withheld, LuaRuns
  <2> QED
    BY <2>1, <2>2, <2>3, <2>4, <2>5, <2>6, <2>7 DEF MInv
<1>2. CASE WorkerTakes
  <2> USE <1>2 DEF WorkerTakes, opVars, events, workerVars
  <2>1. Flags' /\ Begun' /\ OwnedOrFreed' /\ CutOnlyIfAsked' /\ DeliveredIsFreed' /\ WholeResults'
    BY Undisturbed
  <2>2. Kinds'
    BY DEF MInv, Kinds
  <2>3. Counts'
    BY MongoAssumption DEF MInv, Counts
  <2>4. Closing'
    BY DEF MInv, Closing
  <2>5. HandedOver'
    BY DEF MInv, Closing, HandedOver, Busy
  <2>6. Asked'
    BY DEF MInv, Asked
  <2>7. Unshared'
    BY DEF MInv, Unshared, Withheld, LuaRuns
  <2> QED
    BY <2>1, <2>2, <2>3, <2>4, <2>5, <2>6, <2>7 DEF MInv
<1>3. CASE WorkerStoresState
  <2> USE <1>3 DEF WorkerStoresState, opVars, events, workerVars
  <2>1. Flags' /\ OwnedOrFreed' /\ DeliveredIsFreed'
    BY Undisturbed
  <2>2. Kinds'
    BY DEF MInv, Kinds
  <2>3. Counts'
    BY MongoAssumption DEF MInv, Counts, Kinds
  <2>4. Closing'
    BY DEF MInv, Closing
  <2>5. HandedOver'
    BY DEF MInv, HandedOver, Busy
  <2>6. Asked'
    BY DEF MInv, Asked
  <2>7. CutOnlyIfAsked'
    BY DEF MInv, Asked, CutOnlyIfAsked
  <2>8. Unshared'
    BY DEF MInv, Unshared, Withheld, LuaRuns
  <2>9. WholeResults'
    <3>1. mine = op /\ op \in 1..lastOp
      BY DEF MInv, Counts, HandedOver, Busy, NoOp
    <3>2. mine \notin delivered
      BY <3>1 DEF MInv, OwnedOrFreed, DeliveredIsFreed, NoOp
    <3> QED
      BY <3>2 DEF MInv, Counts, WholeResults
  <2>10. Begun'
    <3>1. mine = op /\ fate' = [fate EXCEPT ![op] = outcome] /\ outcome \notin {"none", "dispatched"}
      BY DEF MInv, Kinds, HandedOver, Busy
    <3>2. op \in DOMAIN fate
      BY MongoAssumption DEF MInv, Counts, HandedOver, Busy, NoOp, Ops
    <3>3. fate'[op] = outcome /\ \A o \in Ops \ {op} : fate'[o] = fate[o]
      BY <3>1, <3>2 DEF MInv, Counts
    <3>4. 1..lastOp \subseteq Ops
      BY MongoAssumption DEF MInv, Counts, Ops
    <3> QED
      BY <3>1, <3>3, <3>4 DEF MInv, Begun
  <2> QED
    BY <2>1, <2>2, <2>3, <2>4, <2>5, <2>6, <2>7, <2>8, <2>9, <2>10 DEF MInv
<1>4. CASE WorkerSignals
  <2> USE <1>4 DEF WorkerSignals, opVars, events, workerVars
  <2>1. Begun' /\ OwnedOrFreed' /\ CutOnlyIfAsked' /\ DeliveredIsFreed' /\ WholeResults'
    BY Undisturbed
  <2>2. Flags'
    BY DEF MInv, Flags
  <2>3. Kinds'
    BY DEF MInv, Kinds, Fates
  <2>4. Counts'
    BY MongoAssumption DEF MInv, Counts, NoOp
  <2>5. Closing'
    BY DEF MInv, Closing
  <2>6. HandedOver'
    BY DEF MInv, HandedOver, Busy
  <2>7. Asked'
    BY DEF MInv, Asked
  <2>8. Unshared'
    BY DEF MInv, Unshared, Withheld, LuaRuns
  <2> QED
    BY <2>1, <2>2, <2>3, <2>4, <2>5, <2>6, <2>7, <2>8 DEF MInv
<1>5. CASE WorkerTests
  <2>1. CASE cancelled
    <3>1. Worker("store", "cut")
      BY <1>5, <2>1 DEF WorkerTests
    <3>2. "cut" \in Fates \cup {"broken"} /\ "cut" # "broken"
          /\ Busy /\ "store" \in {"run", "ended", "store"}
      BY <1>5 DEF WorkerTests, Busy, Fates
    <3> QED
      <4>1. MayCut
        BY <2>1 DEF MayCut
      <4> QED
        BY <3>1, <3>2, <4>1, WorkerGoesOn
  <2>2. CASE ~cancelled
    <3>1. Worker("run", "none")
      BY <1>5, <2>2 DEF WorkerTests
    <3> QED
      BY <1>5, <3>1, WorkerGoesOn DEF WorkerTests, Busy, Fates
  <2> QED
    BY <2>1, <2>2
<1>6. CASE WorkerRuns
  <2>1. ASSUME cancelled, Worker("ended", "cut") PROVE MInv'
    <3>1. "cut" \in Fates \cup {"broken"} /\ "ended" # "store"
          /\ Busy /\ "ended" \in {"run", "ended", "store"}
      BY <1>6 DEF WorkerRuns, Busy, Fates
    <3> QED
      <4>1. MayCut
        BY <2>1 DEF MayCut
      <4> QED
        BY <2>1, <3>1, <4>1, WorkerGoesOn
  <2>2. ASSUME NEW how \in {"complete", "broken"}, Worker("ended", how) PROVE MInv'
    BY <1>6, <2>2, WorkerGoesOn DEF WorkerRuns, Busy, Fates
  <2>3. ASSUME NEW how \in {"complete", "failed"}, Worker("store", how) PROVE MInv'
    BY <1>6, <2>3, WorkerGoesOn DEF WorkerRuns, Busy, Fates
  <2> QED
    BY <1>6, <2>1, <2>2, <2>3 DEF WorkerRuns
<1>7. CASE WorkerEndsCursor
  <2> DEFINE how == IF outcome # "broken" THEN outcome ELSE IF cancelled THEN "cut" ELSE "failed"
  <2>1. how \in Fates /\ how \in {"complete", "cut", "failed"}
    BY <1>7 DEF WorkerEndsCursor, MInv, Kinds, Fates
  <2>2. how = "cut" => MayCut
    <3>1. CASE outcome # "broken"
      BY <1>7, <3>1 DEF WorkerEndsCursor, MayCut
    <3>2. CASE outcome = "broken"
      <4>1. CASE cancelled
        BY <4>1 DEF MayCut
      <4>2. CASE ~cancelled
        BY <3>2, <4>2
      <4> QED
        BY <4>1, <4>2
    <3> QED
      BY <3>1, <3>2
  <2>3. Worker("store", how)
    BY <1>7 DEF WorkerEndsCursor
  <2> HIDE DEF how
  <2> QED
    BY <1>7, <2>1, <2>2, <2>3, WorkerGoesOn DEF WorkerEndsCursor, Busy
<1> QED
  BY <1>1, <1>2, <1>3, <1>4, <1>5, <1>6, <1>7 DEF WorkerStep

(* So does every step of MongoDB_Close and MongoDB_GC. *)
LEMMA CloseMInv == MInv /\ CloseStep => MInv'
<1> SUFFICES ASSUME MInv, CloseStep PROVE MInv'
  OBVIOUS
<1>1. CASE CloseStops
  <2> USE <1>1 DEF CloseStops, opVars, events, workerVars
  <2>1. Counts' /\ Begun' /\ OwnedOrFreed' /\ Asked' /\ CutOnlyIfAsked' /\ DeliveredIsFreed' /\ WholeResults'
    BY Undisturbed
  <2>2. Flags'
    BY DEF MInv, Flags
  <2>3. Kinds'
    BY DEF MInv, Kinds
  <2>4. Closing'
    BY DEF MInv, Closing
  <2>5. HandedOver'
    BY DEF MInv, HandedOver, Busy
  <2>6. Unshared'
    BY DEF MInv, Unshared, Withheld, LuaRuns
  <2> QED
    BY <2>1, <2>2, <2>3, <2>4, <2>5, <2>6 DEF MInv
<1>2. CASE CloseWaits
  <2> USE <1>2 DEF CloseWaits, opVars, events, workerVars
  <2>1. Counts' /\ HandedOver' /\ Begun' /\ OwnedOrFreed' /\ Asked' /\ CutOnlyIfAsked' /\ DeliveredIsFreed' /\ WholeResults'
    BY Undisturbed
  <2>2. Flags'
    BY DEF MInv, Flags
  <2>3. Kinds'
    BY DEF MInv, Kinds
  <2>4. Closing'
    BY DEF MInv, Closing
  <2>5. Unshared'
    BY DEF MInv, Unshared, Withheld, LuaRuns
  <2> QED
    BY <2>1, <2>2, <2>3, <2>4, <2>5 DEF MInv
<1>3. CASE CloseWakes
  <2> USE <1>3 DEF CloseWakes, opVars, events, workerVars
  <2>1. Counts' /\ Begun' /\ OwnedOrFreed' /\ Asked' /\ CutOnlyIfAsked' /\ DeliveredIsFreed' /\ WholeResults'
    BY Undisturbed
  <2>2. Flags'
    BY DEF MInv, Flags
  <2>3. Kinds'
    BY DEF MInv, Kinds
  <2>4. Closing'
    BY DEF MInv, Closing
  <2>5. HandedOver'
    BY DEF MInv, Closing, HandedOver, Busy
  <2>6. Unshared'
    BY DEF MInv, Unshared, Withheld, LuaRuns
  <2> QED
    BY <2>1, <2>2, <2>3, <2>4, <2>5, <2>6 DEF MInv
<1>4. CASE CloseJoins
  <2> USE <1>4 DEF CloseJoins, Freed, Joined, opVars, events, workerVars
  <2>1. CutOnlyIfAsked' /\ WholeResults'
    BY Undisturbed
  <2>2. Flags'
    BY DEF MInv, Flags
  <2>3. Kinds'
    BY DEF MInv, Kinds
  <2>4. Counts'
    BY MongoAssumption DEF MInv, Counts, NoOp
  <2>5. Closing'
    BY DEF MInv, Closing
  <2>6. HandedOver'
    BY DEF MInv, HandedOver, Busy
  <2>7. OwnedOrFreed'
    BY DEF MInv, OwnedOrFreed, NoOp
  <2>8. Asked'
    BY DEF MInv, Asked
  <2>9. Unshared'
    BY DEF MInv, Unshared, Withheld, LuaRuns
  <2>10. DeliveredIsFreed'
    BY DEF MInv, DeliveredIsFreed
  <2>11. Begun'
    BY DEF MInv, Begun
  <2> QED
    BY <2>1, <2>2, <2>3, <2>4, <2>5, <2>6, <2>7, <2>8, <2>9, <2>10, <2>11 DEF MInv
<1> QED
  BY <1>1, <1>2, <1>3, <1>4 DEF CloseStep

(* So does every other call of Lua: a new operation, Cancel, GetResult, a query's reading. *)
LEMMA CallsMInv ==
  ASSUME MInv, NEW c \in Coros, LuaCalls(c)
  PROVE  MInv'
<1>1. CASE StartOp(c)
  <2> USE <1>1 DEF StartOp, MayStart, Freed, Uncancel, opVars, events, workerVars
  <2>1. Closing'
    BY Undisturbed
  <2>2. Flags'
    BY DEF MInv, Flags
  <2>3. Kinds'
    BY DEF MInv, Kinds
  <2>4. Counts'
    BY MongoAssumption DEF MInv, Counts, Fates, Ops, NoOp
  <2>5. HandedOver'
    BY DEF MInv, Counts, HandedOver, Busy, NoOp
  <2>6. OwnedOrFreed'
    BY DEF MInv, Counts, OwnedOrFreed, NoOp
  <2>7. Asked'
    BY DEF MInv, Asked
  <2>8. CutOnlyIfAsked'
    BY DEF MInv, CutOnlyIfAsked
  <2>9. Unshared'
    <3>1. op' \notin delivered /\ op' \in Ops /\ fate'[op'] # "cut" /\ op' # NoOp
      BY MongoAssumption DEF MInv, Counts, Ops, NoOp
    <3> QED
      BY <3>1 DEF MInv, Unshared, HandedOver, Busy
  <2>10. DeliveredIsFreed'
    BY DEF MInv, DeliveredIsFreed
  <2>11. WholeResults'
    <3>1. op' \notin delivered /\ op' \in Ops /\ fate'[op'] # "cut" /\ op' # NoOp
      BY MongoAssumption DEF MInv, Counts, Ops, NoOp
    <3> QED
      BY <3>1 DEF MInv, WholeResults
  <2>12. Begun'
    BY MongoAssumption DEF MInv, Begun, Counts, Ops
  <2> QED
    BY <2>1, <2>2, <2>3, <2>4, <2>5, <2>6, <2>7, <2>8, <2>9, <2>10, <2>11, <2>12 DEF MInv
<1>2. CASE RefuseEarly(c)
  <2> USE <1>2 DEF RefuseEarly, Calls, MayStart, Freed, opVars, events, workerVars
  <2>1. Flags' /\ Kinds' /\ Closing' /\ CutOnlyIfAsked' /\ WholeResults'
    BY Undisturbed
  <2>2. Counts'
    BY MongoAssumption DEF MInv, Counts, NoOp
  <2>3. HandedOver'
    BY DEF MInv, HandedOver, Busy
  <2>4. OwnedOrFreed'
    BY DEF MInv, OwnedOrFreed, NoOp
  <2>5. Asked'
    BY DEF MInv, Asked
  <2>6. Unshared'
    BY DEF MInv, Unshared, HandedOver, Busy
  <2>7. DeliveredIsFreed'
    BY DEF MInv, DeliveredIsFreed
  <2>8. Begun'
    BY DEF MInv, Begun
  <2> QED
    BY <2>1, <2>2, <2>3, <2>4, <2>5, <2>6, <2>7, <2>8 DEF MInv
<1>3. CASE RefuseLate(c)
  <2> USE <1>3 DEF RefuseLate, MayStart, Freed, opVars, events, workerVars
  <2>1. Flags' /\ Kinds' /\ Closing'
    BY Undisturbed
  <2>2. Counts'
    BY MongoAssumption DEF MInv, Counts, Fates, Ops, NoOp
  <2>3. HandedOver'
    BY DEF MInv, HandedOver, Busy
  <2>4. OwnedOrFreed'
    BY DEF MInv, Counts, OwnedOrFreed, NoOp
  <2>5. Asked'
    BY DEF MInv, Asked
  <2>6. CutOnlyIfAsked'
    BY DEF MInv, CutOnlyIfAsked
  <2>7. Unshared'
    <3>1. op' \notin delivered /\ op' \in Ops /\ fate'[op'] # "cut" /\ op' # NoOp
      BY MongoAssumption DEF MInv, Counts, Ops, NoOp
    <3> QED
      BY <3>1 DEF MInv, Unshared, HandedOver, Busy
  <2>8. DeliveredIsFreed'
    BY DEF MInv, DeliveredIsFreed
  <2>9. WholeResults'
    <3>1. op' \notin delivered /\ op' \in Ops /\ fate'[op'] # "cut" /\ op' # NoOp
      BY MongoAssumption DEF MInv, Counts, Ops, NoOp
    <3> QED
      BY <3>1 DEF MInv, WholeResults
  <2>10. Begun'
    BY MongoAssumption DEF MInv, Begun, Counts, Ops, NoOp
  <2> QED
    BY <2>1, <2>2, <2>3, <2>4, <2>5, <2>6, <2>7, <2>8, <2>9, <2>10 DEF MInv
<1>4. CASE GetResult(c)
  <2> USE <1>4 DEF GetResult, Calls, Freed, HasOp, PushOpResult, opVars, events, workerVars
  <2>1. Flags' /\ Closing' /\ CutOnlyIfAsked'
    BY Undisturbed
  <2>2. Kinds'
    BY DEF MInv, Kinds
  <2>3. Counts'
    BY MongoAssumption DEF MInv, Counts, NoOp
  <2>4. HandedOver'
    BY DEF MInv, HandedOver, Busy
  <2>5. OwnedOrFreed'
    BY DEF MInv, OwnedOrFreed, NoOp
  <2>6. Asked'
    BY DEF MInv, Asked
  <2>7. Unshared'
    BY DEF MInv, Unshared, HandedOver, Busy
  <2>8. DeliveredIsFreed'
    BY DEF MInv, DeliveredIsFreed
  <2>9. WholeResults'
    <3>1. ~shared /\ ~killed => op \in Ops /\ fate[op] \in {"complete", "failed", "setup"}
      BY MongoAssumption DEF MInv, Kinds, Counts, Begun, Unshared, Withheld, Fates, Ops, NoOp
    <3> QED
      BY <3>1 DEF MInv, WholeResults
  <2>10. Begun'
    BY DEF MInv, Begun
  <2> QED
    BY <2>1, <2>2, <2>3, <2>4, <2>5, <2>6, <2>7, <2>8, <2>9, <2>10 DEF MInv
<1>5. CASE Cancel(c)
  <2> USE <1>5 DEF Cancel, Calls, Suspend, CancelOp, opVars, events, workerVars
  <2>1. Closing' /\ HandedOver' /\ Begun' /\ OwnedOrFreed' /\ DeliveredIsFreed' /\ WholeResults'
    BY Undisturbed
  <2>2. Flags'
    BY DEF MInv, Flags
  <2>3. Kinds'
    BY DEF MInv, Kinds
  <2>4. Counts'
    BY MongoAssumption DEF MInv, Counts
  <2>5. Asked'
    BY DEF MInv, Asked
  <2>6. CutOnlyIfAsked'
    BY DEF MInv, CutOnlyIfAsked
  <2>7. Unshared'
    BY DEF MInv, Kinds, Unshared, Withheld
  <2> QED
    BY <2>1, <2>2, <2>3, <2>4, <2>5, <2>6, <2>7 DEF MInv
<1>6. CASE CancelTooLate(c)
  <2> USE <1>6 DEF CancelTooLate, opVars, events, workerVars
  <2>1. Flags' /\ Kinds' /\ Closing' /\ HandedOver' /\ Begun' /\ OwnedOrFreed' /\ Unshared' /\ DeliveredIsFreed' /\ WholeResults'
    BY Undisturbed
  <2>2. Counts'
    BY MongoAssumption DEF MInv, Counts
  <2>3. Asked'
    BY DEF MInv, Asked
  <2>4. CutOnlyIfAsked'
    BY DEF MInv, CutOnlyIfAsked
  <2> QED
    BY <2>1, <2>2, <2>3, <2>4 DEF MInv
<1>7. CASE Close(c)
  <2> USE <1>7 DEF Close, Calls, LuaRuns, opVars, events, workerVars
  <2>1. Begun' /\ OwnedOrFreed' /\ DeliveredIsFreed' /\ WholeResults'
    BY Undisturbed
  <2>2. Flags'
    BY DEF MInv, Flags
  <2>3. Kinds'
    BY DEF MInv, Kinds
  <2>4. Counts'
    BY MongoAssumption DEF MInv, Counts
  <2>5. Closing'
    BY DEF MInv, Closing
  <2>6. HandedOver'
    BY DEF MInv, HandedOver, Busy
  <2>7. Asked'
    BY DEF MInv, Asked
  <2>8. CutOnlyIfAsked'
    BY DEF MInv, CutOnlyIfAsked
  <2>9. Unshared'
    BY DEF MInv, Unshared, Withheld
  <2> QED
    BY <2>1, <2>2, <2>3, <2>4, <2>5, <2>6, <2>7, <2>8, <2>9 DEF MInv
<1>8. CASE SetAliveToken(c)
  <2> USE <1>8 DEF SetAliveToken, opVars, events, workerVars
  <2>1. Flags' /\ Counts' /\ Closing' /\ HandedOver' /\ Begun' /\ OwnedOrFreed' /\ Asked' /\ CutOnlyIfAsked' /\ Unshared' /\ DeliveredIsFreed' /\ WholeResults'
    BY Undisturbed
  <2>2. Kinds'
    BY DEF MInv, Kinds
  <2> QED
    BY <2>1, <2>2 DEF MInv
<1>9. ASSUME NEW k \in {"wait", "get"}, WaitOrGet(c, k) PROVE MInv'
  <2> USE <1>9 DEF WaitOrGet, Calls, Suspend, HasOp, opVars, events, workerVars
  <2>1. Flags' /\ Counts' /\ Closing' /\ HandedOver' /\ Begun' /\ OwnedOrFreed' /\ Asked' /\ CutOnlyIfAsked' /\ DeliveredIsFreed' /\ WholeResults'
    BY Undisturbed
  <2>2. Kinds'
    BY DEF MInv, Kinds
  <2>3. Unshared'
    BY DEF MInv, Unshared, Withheld
  <2> QED
    BY <2>1, <2>2, <2>3 DEF MInv
<1> QED
  BY <1>1, <1>2, <1>3, <1>4, <1>5, <1>6, <1>7, <1>8, <1>9 DEF LuaCalls

(* So does every pass of a waiting coroutine's continuation, also one that is killed. *)
LEMMA ContinueMInv ==
  ASSUME MInv, NEW c \in Coros, Continue(c) \/ Kill(c)
  PROVE  MInv'
<1>1. CASE WaitCont(c)
  <2> USE <1>1 DEF WaitCont, Suspend, Resumed, opVars, events, workerVars
  <2>1. Flags' /\ Counts' /\ Closing' /\ HandedOver' /\ Begun' /\ OwnedOrFreed' /\ Asked' /\ CutOnlyIfAsked' /\ DeliveredIsFreed' /\ WholeResults'
    BY Undisturbed
  <2>2. Kinds'
    BY DEF MInv, Kinds
  <2>3. Unshared'
    BY DEF MInv, Unshared, Withheld
  <2> QED
    BY <2>1, <2>2, <2>3 DEF MInv
<1>2. CASE GetResultCont(c)
  <2> USE <1>2 DEF GetResultCont, Freed, Suspend, PushOpResult, Resumed, opVars, events, workerVars
  <2>1. Flags' /\ Closing' /\ CutOnlyIfAsked'
    BY Undisturbed
  <2>2. Kinds'
    BY DEF MInv, Kinds
  <2>3. Counts'
    BY MongoAssumption DEF MInv, Counts, NoOp
  <2>4. HandedOver'
    BY DEF MInv, HandedOver, Busy
  <2>5. OwnedOrFreed'
    BY DEF MInv, OwnedOrFreed, NoOp
  <2>6. Asked'
    BY DEF MInv, Asked
  <2>7. Unshared'
    BY DEF MInv, Kinds, Unshared, HandedOver, Busy
  <2>8. DeliveredIsFreed'
    BY DEF MInv, DeliveredIsFreed
  <2>9. WholeResults'
    <3>1. ~shared /\ ~killed => op \in Ops /\ fate[op] \in {"complete", "failed", "setup"}
      BY MongoAssumption DEF MInv, Kinds, Counts, Begun, Unshared, Withheld, Fates, Ops, NoOp
    <3> QED
      BY <3>1 DEF MInv, WholeResults
  <2>10. Begun'
    BY DEF MInv, Begun
  <2> QED
    BY <2>1, <2>2, <2>3, <2>4, <2>5, <2>6, <2>7, <2>8, <2>9, <2>10 DEF MInv
<1>3. CASE CancelCont(c)
  <2> USE <1>3 DEF CancelCont, Freed, Suspend, Resumed, WorkerIsDone, opVars, events, workerVars
  <2>1. Flags' /\ Closing' /\ CutOnlyIfAsked' /\ WholeResults'
    BY Undisturbed
  <2>2. Kinds'
    BY DEF MInv, Kinds
  <2>3. Counts'
    BY MongoAssumption DEF MInv, Counts, NoOp
  <2>4. HandedOver'
    BY DEF MInv, HandedOver, Busy
  <2>5. OwnedOrFreed'
    BY DEF MInv, OwnedOrFreed, NoOp
  <2>6. Asked'
    BY DEF MInv, Asked
  <2>7. Unshared'
    BY DEF MInv, Unshared, HandedOver, Busy
  <2>8. DeliveredIsFreed'
    BY DEF MInv, DeliveredIsFreed
  <2>9. Begun'
    BY DEF MInv, Begun
  <2> QED
    BY <2>1, <2>2, <2>3, <2>4, <2>5, <2>6, <2>7, <2>8, <2>9 DEF MInv
<1>4. CASE TokenDied(c)
  <2> USE <1>4 DEF TokenDied, Suspend, CancelOp, Resumed, opVars, events, workerVars
  <2>1. Closing' /\ HandedOver' /\ Begun' /\ OwnedOrFreed' /\ DeliveredIsFreed' /\ WholeResults'
    BY Undisturbed
  <2>2. Flags'
    BY DEF MInv, Flags
  <2>3. Kinds'
    BY DEF MInv, Kinds
  <2>4. Counts'
    BY MongoAssumption DEF MInv, Counts
  <2>5. Asked'
    BY DEF MInv, Asked
  <2>6. CutOnlyIfAsked'
    BY DEF MInv, CutOnlyIfAsked
  <2>7. Unshared'
    BY DEF MInv, Kinds, Unshared, Withheld
  <2> QED
    BY <2>1, <2>2, <2>3, <2>4, <2>5, <2>6, <2>7 DEF MInv
<1>5. CASE Kill(c)
  <2> USE <1>5 DEF Kill, Suspend, opVars, events, workerVars
  <2>1. Counts' /\ Closing' /\ HandedOver' /\ Begun' /\ OwnedOrFreed' /\ Asked' /\ CutOnlyIfAsked' /\ DeliveredIsFreed'
    BY Undisturbed
  <2>2. Flags'
    BY DEF MInv, Flags
  <2>3. Kinds'
    BY DEF MInv, Kinds
  <2>4. Unshared'
    BY DEF MInv, Unshared
  <2>5. WholeResults'
    BY DEF MInv, WholeResults
  <2> QED
    BY <2>1, <2>2, <2>3, <2>4, <2>5 DEF MInv
<1> QED
  BY <1>1, <1>2, <1>3, <1>4, <1>5 DEF Continue

(* The invariant is inductive. *)
LEMMA NextMInv == MInv /\ [Next]_vars => MInv'
<1> SUFFICES ASSUME MInv, [Next]_vars PROVE MInv'
  OBVIOUS
<1>1. CASE UNCHANGED vars
  BY <1>1, Undisturbed DEF vars, opVars, events, workerVars, MInv
<1>2. CASE DisposeToken
  <2> USE <1>2 DEF DisposeToken, opVars, events, workerVars
  <2>1. Flags' /\ Counts' /\ Closing' /\ HandedOver' /\ Begun' /\ OwnedOrFreed' /\ Asked' /\ CutOnlyIfAsked' /\ Unshared' /\ DeliveredIsFreed' /\ WholeResults'
    BY Undisturbed
  <2>2. Kinds'
    BY DEF MInv, Kinds
  <2> QED
    BY <2>1, <2>2 DEF MInv
<1> QED
  BY <1>1, <1>2, WorkerMInv, CloseMInv, CallsMInv, ContinueMInv DEF Next

(* Whatever Lua, the worker and the server do, the fields stay within their values: the state of
   the worker, its event flags, and operations that were set up. *)
THEOREM TypeCorrect == Spec => []TypeOK
<1>1. MInv => TypeOK
  BY DEF MInv, Flags, Kinds, Counts, TypeOK
<1> QED
  BY <1>1, InitMInv, NextMInv, PTL DEF Spec

(* From the worker's look at w->op until it has stored the state, no call of Lua frees or replaces
   the operation, and MongoDB_GC deletes the connection only after the thread has ended. *)
THEOREM WorkerKeepsOperation == Spec => []OperationKept
<1>1. MInv => OperationKept
  <2> SUFFICES ASSUME MInv PROVE OperationKept
    OBVIOUS
  <2>1. ASSUME Busy PROVE mine = op /\ op \in Ops \ freed
    <3>1. mine = op /\ op \in 1..lastOp
      BY <2>1 DEF MInv, Counts, HandedOver, NoOp
    <3>2. op \notin freed
      BY <3>1 DEF MInv, OwnedOrFreed
    <3> QED
      BY <3>1, <3>2, MongoAssumption DEF MInv, Counts, Ops
  <2> QED
    BY <2>1 DEF MInv, Closing, Busy, OperationKept
<1> QED
  BY <1>1, InitMInv, NextMInv, PTL DEF Spec

(* No operation leaks and none is freed twice. *)
THEOREM FreedOnce == Spec => []OwnedOrFreed
<1>1. MInv => OwnedOrFreed
  BY DEF MInv
<1> QED
  BY <1>1, InitMInv, NextMInv, PTL DEF Spec

(* The worker cuts an operation off only after Cancel, Close or a dead token asked for that one,
   not because of a cancel that was meant for an operation before. *)
THEOREM CutWasAsked == Spec => []CutOnlyIfAsked
<1>1. MInv => CutOnlyIfAsked
  BY DEF MInv
<1> QED
  BY <1>1, InitMInv, NextMInv, PTL DEF Spec

(* A connection used by one coroutine at a time, which nobody kills, hands out no partial result
   and no result of an operation that is gone. *)
THEOREM ResultsWhole == Spec => []WholeResults
<1>1. MInv => WholeResults
  BY DEF MInv
<1> QED
  BY <1>1, InitMInv, NextMInv, PTL DEF Spec
==============================================================================
