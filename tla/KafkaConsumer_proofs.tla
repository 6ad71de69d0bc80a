-------------------------- MODULE KafkaConsumer_proofs --------------------------
(***************************************************************************)
(* The group's offset passes only messages that a program was done with or *)
(* passed over: for any number of consumers, messages, moves and faults.   *)
(***************************************************************************)
EXTENDS KafkaConsumer, TLAPS

Types ==
  /\ log \in Nat /\ committed \in Nat /\ commits \subseteq Nat
  /\ fetching \in [Consumers -> BOOLEAN]
  /\ position \in [Consumers -> Nat]
  /\ msg \in [Consumers -> Nat \cup {NoMsg}]

(* Nothing below the offset is open. *)
Done(o) == 0..(o - 1) \subseteq processed \cup skipped

CommittedDone == Done(committed)
CommitsDone   == \A o \in commits : Done(o + 1)
BelowMsgDone  == \A c \in Consumers : msg[c] # NoMsg => Done(msg[c])
BelowPosition ==
  \A c \in Consumers :
    fetching[c] => 0..(position[c] - 1) \subseteq processed \cup skipped \cup {msg[c]}

KInv == Types /\ CommittedDone /\ CommitsDone /\ BelowMsgDone /\ BelowPosition

------------------------------------------------------------------------------

(* In the initial state nothing is committed, on its way, or pending. *)
LEMMA InitKInv == Init => KInv
  BY DEF Init, KInv, Types, CommittedDone, CommitsDone, BelowMsgDone, BelowPosition, Done, NoMsg

(* What is done stays done: a step that only adds to the histories, and     *)
(* leaves commits and messages alone, keeps those parts of the invariant.    *)
LEMMA DoneStays ==
  ASSUME KInv, processed \subseteq processed', skipped \subseteq skipped'
  PROVE  /\ UNCHANGED committed => CommittedDone'
         /\ commits' \subseteq commits => CommitsDone'
         /\ UNCHANGED msg => BelowMsgDone'
         /\ UNCHANGED <<msg, position, fetching>> => BelowPosition'
  BY DEF KInv, CommittedDone, CommitsDone, BelowMsgDone, BelowPosition, Done

(* What the broker does keeps the invariant: a new member starts at the      *)
(* committed offset, and only a commit that was sent can arrive.             *)
LEMMA BrokerKInv == KInv /\ Broker => KInv'
<1> SUFFICES ASSUME KInv, Broker PROVE KInv'
  OBVIOUS
<1>1. CASE Produce
  BY <1>1, DoneStays DEF Produce, KInv, Types, consumer
<1>2. CASE SessionTimeout
  BY <1>2, DoneStays DEF SessionTimeout, KInv, Types, consumer
<1>3. ASSUME NEW o \in commits, CommitArrives(o) PROVE KInv'
  <2> USE <1>3 DEF CommitArrives, consumer
  <2>1. Types'
    BY DEF KInv, Types
  <2>2. CommittedDone'
    BY DEF KInv, CommittedDone, CommitsDone, Done
  <2> QED
    BY <2>1, <2>2, DoneStays DEF KInv
<1>4. ASSUME NEW o \in commits, CommitFails(o) PROVE KInv'
  BY <1>4, DoneStays DEF CommitFails, KInv, Types, consumer
<1>5. ASSUME NEW c \in Consumers, JoinGroup(c) PROVE KInv'
  <2> USE <1>5 DEF JoinGroup
  <2>1. Types'
    BY DEF KInv, Types
  <2>2. BelowPosition'
    BY DEF KInv, Types, BelowPosition, CommittedDone, Done
  <2> QED
    BY <2>1, <2>2, DoneStays DEF KInv
<1>6. ASSUME NEW c \in Consumers, Revoked(c) PROVE KInv'
  <2> USE <1>6 DEF Revoked, broker
  <2>1. Types'
    BY DEF KInv, Types
  <2>2. BelowPosition'
    BY DEF KInv, Types, BelowPosition
  <2> QED
    BY <2>1, <2>2, DoneStays DEF KInv
<1> QED
  BY <1>1, <1>2, <1>3, <1>4, <1>5, <1>6 DEF Broker, Rebalance, Assigned

(* Opening, closing and dying, and a subscription, end a consumer's fetching *)
(* or leave it, and drop its message or leave it.                            *)
LEMMA LifeKInv ==
  ASSUME KInv, NEW c \in Consumers,
         NewConsumer(c) \/ Subscribe(c) \/ Gone(c)
  PROVE  KInv'
<1>1. CASE NewConsumer(c)
  BY <1>1, DoneStays DEF NewConsumer, KInv, Types, broker
<1>2. CASE Subscribe(c)
  <2>1. Types'
    BY <1>2 DEF Subscribe, KInv, Types, broker
  <2>2. BelowPosition'
    BY <1>2 DEF Subscribe, KInv, Types, BelowPosition
  <2> QED
    BY <1>2, <2>1, <2>2, DoneStays DEF Subscribe, KInv, broker
<1>3. CASE Gone(c)
  <2>1. Types'
    BY <1>3 DEF Gone, KInv, Types
  <2>2. BelowMsgDone' /\ BelowPosition'
    BY <1>3 DEF Gone, KInv, Types, BelowMsgDone, BelowPosition, Done
  <2> QED
    BY <1>3, <2>1, <2>2, DoneStays DEF Gone, KInv
<1> QED
  BY <1>1, <1>2, <1>3

(* An Assign and a Seek count what they pass over, but for the pending       *)
(* message, which the next Poll commits.                                     *)
LEMMA MoveKInv ==
  ASSUME KInv, NEW c \in Consumers, Assign(c) \/ Seek(c)
  PROVE  KInv'
<1>1. CASE Assign(c)
  <2>1. PICK o \in {committed} \cup 0..log :
          /\ position' = [position EXCEPT ![c] = o]
          /\ skipped' = skipped \cup Passed(c, committed, o)
    BY <1>1 DEF Assign
  <2>2. o \in Nat
    BY DEF KInv, Types
  <2>3. Types'
    BY <1>1, <2>1, <2>2 DEF Assign, KInv, Types, broker
  <2>4. 0..(o - 1) \subseteq processed \cup skipped' \cup {msg[c]}
    BY <2>1, <2>2 DEF KInv, Types, CommittedDone, Done, Passed
  <2>5. BelowPosition'
    BY <1>1, <2>1, <2>4 DEF Assign, KInv, Types, BelowPosition
  <2> QED
    BY <1>1, <2>1, <2>3, <2>5, DoneStays DEF Assign, KInv, broker
<1>2. CASE Seek(c)
  <2>1. PICK o \in 0..log :
          /\ position' = [position EXCEPT ![c] = o]
          /\ skipped' = skipped \cup Passed(c, position[c], o)
    BY <1>2 DEF Seek
  <2>2. o \in Nat
    BY DEF KInv, Types
  <2>3. Types'
    BY <1>2, <2>1, <2>2 DEF Seek, KInv, Types, broker
  <2>4. 0..(o - 1) \subseteq processed \cup skipped' \cup {msg[c]}
    BY <1>2, <2>1, <2>2 DEF Seek, KInv, Types, BelowPosition, Passed
  <2>5. BelowPosition'
    BY <1>2, <2>1, <2>4 DEF Seek, KInv, Types, BelowPosition
  <2> QED
    BY <1>2, <2>1, <2>3, <2>5, DoneStays DEF Seek, KInv, broker
<1> QED
  BY <1>1, <1>2

(* A Poll commits the message before, below which nothing is open, and       *)
(* leaves nothing open below the one it returns.                             *)
LEMMA PollKInv ==
  ASSUME KInv, NEW c \in Consumers, Poll(c)
  PROVE  KInv'
<1>1. CommitPrevious(c) /\ UNCHANGED <<log, committed, fetching, skipped>>
  BY DEF Poll, Receive, ReceiveOther
<1>2. /\ processed \subseteq processed'
      /\ msg[c] # NoMsg => msg[c] \in processed'
      /\ commits' \subseteq commits \cup {msg[c]}
      /\ NoMsg \notin commits'
      /\ processed' \subseteq processed \cup {msg[c]}
  BY <1>1 DEF CommitPrevious, KInv, Types, NoMsg
<1>3. CommittedDone'
  BY <1>1, <1>2, DoneStays
<1>4. CommitsDone'
  <2> SUFFICES ASSUME NEW o \in commits' PROVE Done(o + 1)'
    BY DEF CommitsDone
  <2>1. CASE o \in commits
    BY <2>1, <1>1, <1>2 DEF KInv, CommitsDone, Done
  <2>2. CASE o = msg[c]
    <3>1. o # NoMsg /\ o \in Nat /\ o \in processed'
      BY <1>2, <2>2 DEF KInv, Types
    <3>2. 0..(o - 1) \subseteq processed' \cup skipped'
      BY <1>1, <1>2, <2>2, <3>1 DEF KInv, BelowMsgDone, Done
    <3> QED
      BY <3>1, <3>2 DEF Done
  <2> QED
    BY <1>2, <2>1, <2>2
<1>5. commits' \subseteq Nat
  BY <1>2 DEF KInv, Types
<1>6. CASE Receive(c)
  <2>1. Types'
    BY <1>1, <1>5, <1>6 DEF Receive, KInv, Types
  <2>2. 0..(position[c] - 1) \subseteq processed' \cup skipped'
    <3>1. 0..(position[c] - 1) \subseteq processed \cup skipped \cup {msg[c]}
      BY <1>6 DEF Receive, KInv, BelowPosition
    <3>2. NoMsg \notin 0..(position[c] - 1)
      BY DEF NoMsg, KInv, Types
    <3> QED
      BY <1>1, <1>2, <3>1, <3>2
  <2>3. BelowMsgDone'
    BY <1>1, <1>2, <1>6, <2>2 DEF Receive, KInv, Types, BelowMsgDone, Done
  <2>4. BelowPosition'
    <3>1. 0..(position'[c] - 1) \subseteq processed' \cup skipped' \cup {msg'[c]}
      BY <1>6, <2>2 DEF Receive, KInv, Types
    <3> QED
      BY <1>1, <1>2, <1>6, <3>1 DEF Receive, KInv, Types, BelowPosition
  <2> QED
    BY <1>3, <1>4, <2>1, <2>3, <2>4 DEF KInv
<1>7. CASE ReceiveOther(c)
  <2>1. Types'
    BY <1>1, <1>5, <1>7 DEF ReceiveOther, KInv, Types
  <2>2. BelowMsgDone'
    BY <1>1, <1>2, <1>7 DEF ReceiveOther, KInv, Types, BelowMsgDone, Done
  <2>3. BelowPosition'
    <3> SUFFICES ASSUME NEW d \in Consumers, fetching'[d]
                 PROVE  0..(position'[d] - 1) \subseteq processed' \cup skipped' \cup {msg'[d]}
      BY DEF BelowPosition
    <3>1. 0..(position[d] - 1) \subseteq processed \cup skipped \cup {msg[d]}
      BY <1>1 DEF KInv, BelowPosition
    <3>2. NoMsg \notin 0..(position[d] - 1)
      BY DEF NoMsg, KInv, Types
    <3>3. position' = position /\ (d # c => msg'[d] = msg[d])
      BY <1>7 DEF ReceiveOther, KInv, Types
    <3> QED
      BY <1>1, <1>2, <3>1, <3>2, <3>3
  <2> QED
    BY <1>3, <1>4, <2>1, <2>2, <2>3 DEF KInv
<1> QED
  BY <1>6, <1>7 DEF Poll

(* Every step keeps the invariant. *)
LEMMA NextKInv == KInv /\ [Next]_vars => KInv'
<1> SUFFICES ASSUME KInv, [Next]_vars PROVE KInv'
  OBVIOUS
<1>1. CASE Broker
  BY <1>1, BrokerKInv
<1>2. ASSUME NEW c \in Consumers, Consumer(c) PROVE KInv'
  BY <1>2, LifeKInv, MoveKInv, PollKInv
     DEF Consumer, FirstSubscribe, Resubscribe, Close, Crash
<1>3. CASE UNCHANGED vars
  BY <1>3, DoneStays DEF vars, broker, consumer, KInv, Types
<1> QED
  BY <1>1, <1>2, <1>3 DEF Next

(* At least once, for any number of consumers, messages, moves and faults:   *)
(* no crash, rebalance, or lost, late or repeated commit takes the group past *)
(* a message that no program was done with and none passed over on purpose.  *)
THEOREM CommittedWasProcessed == Spec => []AtLeastOnce
<1>1. KInv => AtLeastOnce
  BY DEF KInv, CommittedDone, Done, AtLeastOnce
<1> QED
  BY <1>1, InitKInv, NextKInv, PTL DEF Spec
================================================================================
