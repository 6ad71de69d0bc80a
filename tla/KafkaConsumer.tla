---------------------------- MODULE KafkaConsumer ----------------------------
(***************************************************************************)
(* The consumers of LuaKafkaConsumer.cpp that read one partition, with as  *)
(* much of the broker and of librdkafka as they rely on.  Poll commits the *)
(* message that the previous Poll returned, by a request that nobody waits *)
(* for, and remembers the one it returns.  A consumer may be closed, moved *)
(* or cut off, and its process may die, before that commit.                *)
(*                                                                         *)
(* One coroutine uses a consumer: it is done with a message when it calls  *)
(* Poll again.  Offsets count from one that the group has committed.       *)
(***************************************************************************)
EXTENDS Integers

CONSTANTS
  Consumers,
  Nobody,    (* not a consumer *)
  MaxOffset, (* bound: messages that producers write *)
  MaxMoves,  (* bound: calls of Subscribe, Assign, Seek, and rebalances *)
  MaxFaults  (* bound: closes, crashes and lost commits *)

ASSUME KafkaAssumption ==
  Nobody \notin Consumers /\ {MaxOffset, MaxMoves, MaxFaults} \subseteq Nat

NoMsg == -1

VARIABLES
  log,        (* broker: messages in the partition, at offsets 0..log - 1 *)
  committed,  (* broker: the group's committed offset *)
  member,     (* broker: the consumer to which the group assigned the partition *)
  commits,    (* offsets in commit requests on their way *)
  mode,       (* "closed", "open", "subscribed" or "assigned" *)
  fetching,   (* librdkafka: does the consumer fetch from the partition? *)
  position,   (* librdkafka: the next offset it hands out *)
  msg,        (* c->msg, as an offset *)
  processed,  (* history: offsets whose message the Lua code was done with *)
  skipped,    (* history: offsets that an Assign or a Seek passed over *)
  moves, faults

broker == <<log, committed, member, commits>>
consumer == <<mode, fetching, position, msg>>
vars == <<broker, consumer, processed, skipped, moves, faults>>

Init ==
  /\ log = 0
  /\ committed = 0
  /\ member = Nobody
  /\ commits = {}
  /\ mode = [c \in Consumers |-> "closed"]
  /\ fetching = [c \in Consumers |-> FALSE]
  /\ position = [c \in Consumers |-> 0]
  /\ msg = [c \in Consumers |-> NoMsg]
  /\ processed = {}
  /\ skipped = {}
  /\ moves = 0
  /\ faults = 0

Moves == moves < MaxMoves /\ moves' = moves + 1
Fails == faults < MaxFaults /\ faults' = faults + 1

------------------------------------------------------------------------------
(* Producers, broker and librdkafka *)

Produce ==
  /\ log < MaxOffset
  /\ log' = log + 1
  /\ UNCHANGED <<committed, member, commits, consumer, processed, skipped, moves, faults>>

(* The group gives the partition to c, which starts where the group is.  The  *)
(* former member goes on until it hears of it.                               *)
JoinGroup(c) ==
  /\ mode[c] = "subscribed"
  /\ member' = c
  /\ fetching' = [fetching EXCEPT ![c] = TRUE]
  /\ position' = [position EXCEPT ![c] = committed]
  /\ UNCHANGED <<log, committed, commits, mode, msg, processed, skipped, faults>>

(* Nobody has the partition, or an earlier consumer of the same program *)
Orphaned(c) == member \in {Nobody, c} /\ ~(member = c /\ fetching[c])

Assigned(c) == Orphaned(c) /\ JoinGroup(c) /\ UNCHANGED moves
Rebalance(c) == ~Orphaned(c) /\ member # c /\ Moves /\ JoinGroup(c)

Revoked(c) ==
  /\ mode[c] = "subscribed" /\ fetching[c] /\ member # c
  /\ fetching' = [fetching EXCEPT ![c] = FALSE]
  /\ UNCHANGED <<broker, mode, position, msg, processed, skipped, moves, faults>>

SessionTimeout ==
  /\ member # Nobody /\ mode[member] # "subscribed"
  /\ member' = Nobody
  /\ UNCHANGED <<log, committed, commits, consumer, processed, skipped, moves, faults>>

(* A commit names the offset to read next.  It may overtake others, and be   *)
(* sent again.                                                               *)
CommitArrives(o) ==
  /\ o \in commits
  /\ commits' \in {commits, commits \ {o}}
  /\ committed' = o + 1
  /\ UNCHANGED <<log, member, consumer, processed, skipped, moves, faults>>

(* Lost, or rejected because the group has changed *)
CommitFails(o) ==
  /\ o \in commits /\ Fails
  /\ commits' = commits \ {o}
  /\ UNCHANGED <<log, committed, member, consumer, processed, skipped, moves>>

------------------------------------------------------------------------------
(* The functions of the consumer *)

NewConsumer(c) ==
  /\ mode[c] = "closed"
  /\ mode' = [mode EXCEPT ![c] = "open"]
  /\ UNCHANGED <<broker, fetching, position, msg, processed, skipped, moves, faults>>

Subscribe(c) ==
  /\ mode' = [mode EXCEPT ![c] = "subscribed"]
  /\ fetching' = [fetching EXCEPT ![c] = FALSE]
  /\ UNCHANGED <<broker, position, msg, processed, skipped, faults>>

FirstSubscribe(c) == mode[c] = "open" /\ Subscribe(c) /\ UNCHANGED moves
Resubscribe(c) == mode[c] = "assigned" /\ Moves /\ Subscribe(c)

(* The offsets from one position up to another, but for a message that c has *)
Passed(c, from, to) == (from..(to - 1)) \ {msg[c]}

(* "topic:partition:offset", or the stored offset, outside the group *)
Assign(c) ==
  /\ mode[c] # "closed" /\ Moves
  /\ \E o \in {committed} \cup 0..log :
       /\ position' = [position EXCEPT ![c] = o]
       /\ skipped' = skipped \cup Passed(c, committed, o)
  /\ mode' = [mode EXCEPT ![c] = "assigned"]
  /\ fetching' = [fetching EXCEPT ![c] = TRUE]
  /\ UNCHANGED <<broker, msg, processed, faults>>

(* A seek leaves c->msg alone. *)
Seek(c) ==
  /\ fetching[c] /\ Moves
  /\ \E o \in 0..log :
       /\ position' = [position EXCEPT ![c] = o]
       /\ skipped' = skipped \cup Passed(c, position[c], o)
  /\ UNCHANGED <<broker, mode, fetching, msg, processed, faults>>

(* rd_kafka_commit_message of c->msg, without waiting *)
CommitPrevious(c) ==
  IF msg[c] = NoMsg
  THEN UNCHANGED <<commits, processed>>
  ELSE /\ commits' = commits \cup {msg[c]}
       /\ processed' = processed \cup {msg[c]}

(* Mutant: the message is committed by the Poll that returns it *)
Receive_Commits(c) ==
  /\ fetching[c] /\ position[c] < log
  /\ msg' = [msg EXCEPT ![c] = position[c]]
  /\ commits' = commits \cup {position[c]}
  /\ processed' = processed \cup ({msg[c]} \ {NoMsg})
  /\ position' = [position EXCEPT ![c] = @ + 1]

(* A message, which is kept for the next Poll *)
Receive(c) ==
  /\ fetching[c] /\ position[c] < log
  /\ CommitPrevious(c)
  /\ msg' = [msg EXCEPT ![c] = position[c]]
  /\ position' = [position EXCEPT ![c] = @ + 1]

(* Mutant: the previous message is committed only if another one has come *)
ReceiveOther_CommitsNothing(c) == UNCHANGED <<commits, processed, msg, position>>

(* No message, an error, or the end of the partition *)
ReceiveOther(c) ==
  /\ CommitPrevious(c)
  /\ msg' = [msg EXCEPT ![c] = NoMsg]
  /\ UNCHANGED position

Poll(c) ==
  /\ mode[c] # "closed"
  /\ Receive(c) \/ ReceiveOther(c)
  /\ UNCHANGED <<log, committed, member, mode, fetching, skipped, moves, faults>>

(* The message is dropped, and with it its commit. *)
Gone(c) ==
  /\ mode[c] # "closed" /\ Fails
  /\ mode' = [mode EXCEPT ![c] = "closed"]
  /\ fetching' = [fetching EXCEPT ![c] = FALSE]
  /\ msg' = [msg EXCEPT ![c] = NoMsg]
  /\ UNCHANGED <<log, committed, commits, position, processed, skipped, moves>>

(* The group hears of it, unless closing takes longer than ten seconds. *)
Close(c) ==
  /\ Gone(c)
  /\ member' \in {member, IF member = c THEN Nobody ELSE member}

Crash(c) == Gone(c) /\ UNCHANGED member

------------------------------------------------------------------------------

Broker == \/ Produce \/ SessionTimeout
          \/ \E o \in commits : CommitArrives(o) \/ CommitFails(o)
          \/ \E c \in Consumers : Rebalance(c) \/ Assigned(c) \/ Revoked(c)

Consumer(c) == \/ NewConsumer(c) \/ FirstSubscribe(c) \/ Resubscribe(c)
               \/ Assign(c) \/ Seek(c) \/ Poll(c) \/ Close(c) \/ Crash(c)

Next == Broker \/ \E c \in Consumers : Consumer(c)

Spec == Init /\ [][Next]_vars

(* Producers produce, the broker notices who left, and the program polls:    *)
(* it opens a consumer again, subscribes, and calls Poll in a loop, in which *)
(* a message that is there is returned sooner or later.                      *)
Fairness ==
  /\ WF_vars(Produce) /\ WF_vars(SessionTimeout)
  /\ \A c \in Consumers :
       /\ WF_vars(NewConsumer(c)) /\ WF_vars(FirstSubscribe(c))
       /\ WF_vars(Assigned(c)) /\ WF_vars(Revoked(c))
       /\ WF_vars(Poll(c) /\ Receive(c)) /\ WF_vars(Poll(c) /\ msg[c] # NoMsg)

FairSpec == Spec /\ Fairness

------------------------------------------------------------------------------

(* At least once: the group's offset passes a message only when a Lua        *)
(* program was done with it, or had moved past it on purpose; whoever polls, *)
(* is closed, dies or is moved meanwhile, and whichever commits are lost,    *)
(* late or sent twice.                                                       *)
AtLeastOnce == \A o \in 0..(committed - 1) : o \in processed \cup skipped

(* A program that goes on polling is done with every message some day,       *)
(* though consumers are closed and die.                                      *)
EventuallyProcessed ==
  \A o \in 0..(MaxOffset - 1) : <>(o \in processed \cup skipped)
==============================================================================
