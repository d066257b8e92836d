------------------------------ MODULE BrokerBus ------------------------------
(***************************************************************************)
(* The message buses with a broker: NatsBus of rinfra-plugins/src/mq/      *)
(* nats.rs (a JetStream work queue) and RedisStreamBus of redis_streams.rs *)
(* (a stream with one consumer group).  mq.backend chooses one of them or  *)
(* InMemoryBus, which this module extends.                                 *)
(*                                                                         *)
(* A subscriber is a task that takes messages from the broker and puts     *)
(* them into the bounded channel of its MessageReceiver.  The streams of   *)
(* different topics have nothing in common: there is one.                  *)
(***************************************************************************)
EXTENDS InMemoryBus, SequencesExt

CONSTANTS
  MaxMsgs,      \* bound: messages published
  Readers,      \* the calls of subscribe on a broker
  BatchSize,    \* RedisStreamMqConfig.batch_size
  MaxLen,       \* RedisStreamMqConfig.max_len
  MaxFaults     \* bound: crashes of the process, failed commands, lost streams

ASSUME BrokerAssumption ==
  MaxMsgs \in Nat /\ BatchSize \in Nat \ {0} /\ MaxLen \in Nat \ {0} /\ MaxFaults \in Nat

VARIABLES
  mq,         \* mq.backend
  published,  \* the messages are numbered in the order they are published
  queue,      \* broker: what waits to be delivered
  pending,    \* broker: what is delivered and not acknowledged
  acked,      \* broker: what is acknowledged
  ack_map,    \* NatsBus.ack_map, as the messages it has an entry for
  reader,     \* each subscriber: its task, what it is about to send, its
              \*   channel, and whether the receiver is still there
  held,       \* what consumers have received and not acknowledged
  got,        \* history: how often a message was received, up to 2
  again,      \* history: the messages the broker delivered again
  group,      \* the consumer group of Redis: does it exist, and has the process
              \*   noted in created_groups that it made it
  faults

brokerVars ==
  <<published, queue, pending, acked, ack_map, reader, held, got, again, group, faults>>
busVars == <<vars, mq, brokerVars>>

Msgs == 1 .. MaxMsgs

NoReader == [at |-> "none", batch |-> << >>, chan |-> << >>, open |-> FALSE]

(* connect; its failure fails the build of the plugin. *)
BrokerInit ==
  /\ Init
  /\ mq \in {"memory", "nats", "redis_streams"}
  /\ published = 0 /\ queue = << >> /\ pending = {} /\ acked = {} /\ ack_map = {}
  /\ reader = [r \in Readers |-> NoReader]
  /\ held = {} /\ got = [m \in Msgs |-> 0] /\ again = {} /\ faults = 0
  /\ group = [exists |-> FALSE, created |-> FALSE]

Fault == faults < MaxFaults /\ faults' = faults + 1

-----------------------------------------------------------------------------
(* publish and publish_with_headers *)

(* ensure_group: XGROUP CREATE from the first entry on, once in a process.   *)
EnsureGroup ==
  group' = IF mq = "redis_streams" /\ ~ group.created
             THEN [exists |-> TRUE, created |-> TRUE]
             ELSE group

(* MAXLEN ~ may remove the oldest entries, delivered or not. *)
Stores(m) ==
  /\ published' = m
  /\ \/ queue' = Append(queue, m)
     \/ /\ mq = "redis_streams" /\ Len(queue) >= MaxLen
        /\ queue' = Append(Tail(queue), m)

BrokerPublish(m) ==
  /\ mq # "memory" /\ m = published + 1
  /\ EnsureGroup /\ Stores(m)
  /\ UNCHANGED <<pending, acked, ack_map, reader, held, got, again, faults>>

-----------------------------------------------------------------------------
(* subscribe: the task of a subscriber *)

(* get_or_create_consumer or ensure_group, then the task is spawned: what    *)
(* fails after that is not told to the caller.                               *)
BrokerSubscribe(r) ==
  /\ mq # "memory" /\ reader[r].at = "none"
  /\ EnsureGroup
  /\ reader' = [reader EXCEPT ![r].at = "loop", ![r].open = TRUE]
  /\ UNCHANGED <<published, queue, pending, acked, ack_map, held, got, again, faults>>

Takes(r, n) ==
  /\ queue # << >>
  /\ queue' = SubSeq(queue, n + 1, Len(queue))
  /\ pending' = pending \cup ToSet(SubSeq(queue, 1, n))
  /\ reader' = [reader EXCEPT ![r].at = "sending", ![r].batch = SubSeq(queue, 1, n)]

(* Defect: the message is acknowledged as soon as it is taken. *)
NatsAutoAck(r) ==
  /\ mq = "nats" /\ reader[r].at = "loop" /\ reader[r].open
  /\ queue # << >>
  /\ queue' = Tail(queue) /\ acked' = acked \cup {Head(queue)}
  /\ reader' = [reader EXCEPT ![r].at = "sending", ![r].batch = <<Head(queue)>>]
  /\ UNCHANGED <<published, pending, ack_map, held, got, again, faults, group>>

NatsMessage(r) ==
  /\ mq = "nats" /\ reader[r].at = "loop" /\ reader[r].open
  /\ Takes(r, 1)
  /\ ack_map' = ack_map \cup {Head(queue)}
  /\ UNCHANGED <<published, acked, held, got, again, faults, group>>

(* take_while: the message that finds the receiver gone is not passed on. *)
NatsReaderEnds(r) ==
  /\ mq = "nats" /\ reader[r].at = "loop" /\ ~ reader[r].open
  /\ queue # << >>
  /\ queue' = Tail(queue) /\ pending' = pending \cup {Head(queue)}
  /\ reader' = [reader EXCEPT ![r].at = "done"]
  /\ UNCHANGED <<published, acked, ack_map, held, got, again, faults, group>>

(* consumer.messages() fails, or its stream ends: the task is over while the *)
(* receiver is there.  It has what is in its channel, and then the end.      *)
NatsStreamEnds(r) ==
  /\ mq = "nats" /\ reader[r].at = "loop" /\ Fault
  /\ reader' = [reader EXCEPT ![r].at = "done"]
  /\ UNCHANGED <<published, queue, pending, acked, ack_map, held, got, again, group>>

Batch == IF Len(queue) < BatchSize THEN Len(queue) ELSE BatchSize

(* XREADGROUP ... >; NOGROUP is answered by a pause and the same call again. *)
XReadGroup(r) ==
  /\ mq = "redis_streams" /\ reader[r].at = "loop" /\ reader[r].open
  /\ group.exists
  /\ Takes(r, Batch)
  /\ UNCHANGED <<published, acked, ack_map, held, got, again, faults, group>>

(* The reply is lost: after a pause the next call asks for new entries only. *)
XReadGroupFails(r) ==
  /\ mq = "redis_streams" /\ reader[r].at = "loop" /\ reader[r].open
  /\ group.exists /\ queue # << >> /\ Fault
  /\ queue' = SubSeq(queue, Batch + 1, Len(queue))
  /\ pending' = pending \cup ToSet(SubSeq(queue, 1, Batch))
  /\ UNCHANGED <<published, acked, ack_map, reader, held, got, again, group>>

(* tx.is_closed() *)
RedisReaderEnds(r) ==
  /\ mq = "redis_streams" /\ reader[r].at = "loop" /\ ~ reader[r].open
  /\ reader' = [reader EXCEPT ![r].at = "done"]
  /\ UNCHANGED <<published, queue, pending, acked, ack_map, held, got, again, faults, group>>

(* Defect: the entry that was sent stays in the batch. *)
TxSendRepeats(r) ==
  LET k == reader[r]
  IN  /\ k.at = "sending"
      /\ k.open /\ Len(k.chan) < Capacity
      /\ reader' = [reader EXCEPT ![r].chan = Append(@, Head(k.batch))]
      /\ UNCHANGED <<published, queue, pending, acked, ack_map, held, got, again, faults, group>>

(* tx.send waits for room; without a receiver the task ends, and the rest of *)
(* its batch with it.                                                        *)
TxSend(r) ==
  LET k == reader[r]
  IN  /\ k.at = "sending"
      /\ \/ /\ k.open /\ Len(k.chan) < Capacity
            /\ reader' = [reader EXCEPT ![r].chan = Append(@, Head(k.batch)),
                                        ![r].batch = Tail(@),
                                        ![r].at = IF Len(k.batch) = 1 THEN "loop" ELSE @]
         \/ /\ ~ k.open
            /\ reader' = [reader EXCEPT ![r].at = "done", ![r].batch = << >>]
      /\ UNCHANGED <<published, queue, pending, acked, ack_map, held, got, again, faults, group>>

-----------------------------------------------------------------------------
(* The consumers *)

Receive(r) ==
  LET m == Head(reader[r].chan)
  IN  /\ reader[r].open /\ reader[r].chan # << >>
      /\ reader' = [reader EXCEPT ![r].chan = Tail(@)]
      /\ held' = held \cup {m}
      /\ got' = [got EXCEPT ![m] = IF @ = 2 THEN 2 ELSE @ + 1]
      /\ UNCHANGED <<published, queue, pending, acked, ack_map, again, faults, group>>

DropReceiver(r) ==
  /\ reader[r].open
  /\ reader' = [reader EXCEPT ![r].open = FALSE, ![r].chan = << >>]
  /\ UNCHANGED <<published, queue, pending, acked, ack_map, held, got, again, faults, group>>

Forget(m) ==
  /\ ack_map' = ack_map \ {m}
  /\ held' = held \ {m}

(* The broker removes the message; NatsBus looks for it in ack_map. *)
BrokerAck(m) ==
  /\ m \in held
  /\ mq = "nats" => m \in ack_map
  /\ Forget(m)
  /\ acked' = acked \cup {m} /\ pending' = pending \ {m}
  /\ queue' = Keep(queue, {i \in DOMAIN queue : queue[i] # m})
  /\ UNCHANGED <<published, reader, got, again, faults, group>>

(* The call fails; the entry of ack_map is gone by then. *)
BrokerAckFails(m) ==
  /\ m \in held /\ Fault
  /\ Forget(m)
  /\ UNCHANGED <<published, queue, pending, acked, reader, got, again, group>>

-----------------------------------------------------------------------------
(* The broker, and the process *)

(* JetStream delivers again what is not acknowledged within ack_wait; a     *)
(* Redis group does so only for XCLAIM or an explicit id, which nobody uses. *)
Redelivers(m) ==
  /\ mq = "nats" /\ m \in pending
  /\ pending' = pending \ {m} /\ queue' = Append(queue, m)
  /\ again' = again \cup {m}
  /\ UNCHANGED <<published, acked, ack_map, reader, held, got, faults, group>>

(* The stream is deleted, or Redis comes back without it, and the group is   *)
(* gone with it.  XADD makes a new stream; the group, this process does not  *)
(* make again.                                                               *)
GroupDisappears ==
  /\ mq = "redis_streams" /\ group.exists /\ Fault
  /\ group' = [group EXCEPT !.exists = FALSE]
  /\ queue' = << >> /\ pending' = {}
  /\ UNCHANGED <<published, acked, ack_map, reader, held, got, again>>

(* The process restarts; the broker goes on. *)
Crash ==
  /\ mq # "memory" /\ Fault
  /\ group' = [group EXCEPT !.created = FALSE]
  /\ reader' = [r \in Readers |-> NoReader]
  /\ ack_map' = {} /\ held' = {}
  /\ UNCHANGED <<published, queue, pending, acked, got, again>>

-----------------------------------------------------------------------------

ReaderStep(r) ==
  \/ NatsMessage(r) \/ NatsReaderEnds(r) \/ XReadGroup(r) \/ RedisReaderEnds(r)
  \/ TxSend(r)

BrokerNext ==
  \/ \E m \in Msgs : BrokerPublish(m) \/ BrokerAck(m) \/ BrokerAckFails(m) \/ Redelivers(m)
  \/ \E r \in Readers :
       \/ BrokerSubscribe(r) \/ ReaderStep(r) \/ NatsStreamEnds(r) \/ XReadGroupFails(r)
       \/ Receive(r) \/ DropReceiver(r)
  \/ GroupDisappears \/ Crash

BusNext ==
  /\ \/ mq = "memory" /\ Next /\ UNCHANGED brokerVars
     \/ BrokerNext /\ UNCHANGED vars
  /\ UNCHANGED mq

(* The tasks run, the consumers of open receivers go on receiving, and the   *)
(* broker delivers again what stays unacknowledged.                          *)
BrokerFairness ==
  /\ \A r \in Readers : WF_brokerVars(ReaderStep(r)) /\ WF_brokerVars(Receive(r))
  /\ \A m \in Msgs : WF_brokerVars(Redelivers(m))

BusSpec == BrokerInit /\ [][BusNext]_busVars /\ Fairness /\ BrokerFairness

-----------------------------------------------------------------------------
(* Properties *)

OnTheWay(m) == \/ m \in held
               \/ \E r \in Readers : m \in ToSet(reader[r].batch) \cup ToSet(reader[r].chan)

(* Read from the stream by somebody who is gone, trimmed, or deleted with it. *)
LostInRedis(m) ==
  mq = "redis_streams" /\ m =< published /\ m \notin acked \cup ToSet(queue) /\ ~ OnTheWay(m)

(* A receiver with a task that can read for it. *)
Fed(r) ==
  /\ reader[r].open /\ reader[r].at # "done"
  /\ mq = "redis_streams" => group.exists

(* "delivers each message to exactly one subscriber": a second consumer gets *)
(* a message only when the broker delivered it again, and what is            *)
(* acknowledged was received.                                                *)
ToExactlyOne ==
  \A m \in Msgs : /\ got[m] > 1 => m \in again
                  /\ m \in acked => got[m] > 0

(* One subscriber for each message, and evenly where this process chooses     *)
(* the subscriber.                                                            *)
Distributed == ToExactlyOne /\ Balanced

(* A published message is received as long as there is a receiver whose      *)
(* task runs and, over Redis, whose group exists.  Over NATS that is so      *)
(* whatever crashes, closed receivers, ended tasks and failed acks lie       *)
(* between; over Redis unless the entry was read by a call whose reply was   *)
(* lost or by a subscriber that ended, was trimmed, or deleted with its      *)
(* stream.                                                                   *)
PublishedReceived ==
  \A m \in Msgs :
    m =< published ~>
      \/ got[m] > 0 \/ LostInRedis(m)
      \/ ~ \E r \in Readers : Fed(r)

(* Not kept by the code - a receiver that is there is fed: subscribe has      *)
(* returned Ok, and nothing starts its task or makes its group again.        *)
ReceiversFed == \A r \in Readers : reader[r].open => Fed(r)

(* Not kept by the code - "at-least-once semantics": no published message    *)
(* leaves the broker without an acknowledgement, nor becomes undeliverable.  *)
AtLeastOnce == \A m \in Msgs : ~ LostInRedis(m)
=============================================================================
