----------------------------- MODULE InMemoryBus -----------------------------
(***************************************************************************)
(* InMemoryBus of rinfra-plugins/src/mq/memory.rs: a bounded channel per   *)
(* subscriber, the senders of every topic behind one mutex, and a round-   *)
(* robin index per topic behind a second one that is only ever taken under *)
(* the first, so that both are one lock here.  do_publish keeps the lock   *)
(* while it waits for room in the channel it chose.                        *)
(*                                                                         *)
(* Messages are counted, not named: a channel is the number of messages in *)
(* it.                                                                     *)
(***************************************************************************)
EXTENDS Integers, Sequences, FiniteSets

CONSTANTS
  Topics,
  Publishers,   \* tasks that publish
  Subscribers,  \* each one subscribes once
  Capacity,     \* MemoryMqConfig.channel_capacity
  Nobody, NoTopic

ASSUME BusAssumption ==
  /\ Capacity \in Nat \ {0}
  /\ Subscribers # {} /\ IsFiniteSet(Subscribers)
  /\ Nobody \notin Publishers \cup Subscribers /\ NoTopic \notin Topics

VARIABLES
  senders,      \* per topic, the subscribers in the order they were pushed
  round_robin,  \* per topic, the index of the next one
  bus,          \* who holds the lock
  pub,          \* each publisher: where it is, its topic and its target
  sub,          \* each subscriber: where it is, its topic, its channel
  share         \* history: messages each subscriber was sent since the list
                \*   of its topic last changed, less what all of them got

vars == <<senders, round_robin, bus, pub, sub, share>>

Idle == [at |-> "idle", topic |-> NoTopic, target |-> Nobody]

Init ==
  /\ senders = [t \in Topics |-> << >>]
  /\ round_robin = [t \in Topics |-> 0]
  /\ bus = Nobody
  /\ pub = [p \in Publishers |-> Idle]
  /\ sub = [s \in Subscribers |-> [at |-> "none", topic |-> NoTopic, queued |-> 0]]
  /\ share = [s \in Subscribers |-> 0]

IsOpen(s) == sub[s].at = "open"

(* What is in list at the indices of kept, in the order of list. *)
Keep(list, kept) ==
  [k \in 1 .. Cardinality(kept) |->
     list[CHOOSE i \in kept : Cardinality({j \in kept : j =< i}) = k]]

(* retain(|sender| !sender.is_closed()) *)
Retain(list) == Keep(list, {i \in DOMAIN list : IsOpen(list[i])})

(* The list of topic t becomes list, with the history of its shares. *)
SetSenders(t, list) ==
  /\ senders' = [senders EXCEPT ![t] = list]
  /\ share' = IF list = senders[t] THEN share
              ELSE [s \in Subscribers |-> IF sub[s].topic = t THEN 0 ELSE share[s]]

(* One message less for each subscriber of the list when all have one. *)
Shares(list, sh) ==
  LET members == {list[i] : i \in DOMAIN list}
  IN  IF \A s \in members : sh[s] > 0
        THEN [s \in Subscribers |-> IF s \in members THEN sh[s] - 1 ELSE sh[s]]
        ELSE sh

Publish(p) ==
  /\ pub[p].at = "idle"
  /\ \E t \in Topics : pub' = [pub EXCEPT ![p] = [Idle EXCEPT !.at = "waiting",
                                                             !.topic = t]]
  /\ UNCHANGED <<senders, round_robin, bus, sub, share>>

(* Closed senders are removed; without any other the message is dropped. *)
PublishDropped(p) ==
  LET t == pub[p].topic
      list == Retain(senders[t])
  IN  /\ pub[p].at = "waiting" /\ bus = Nobody
      /\ list = << >>
      /\ SetSenders(t, list)
      /\ pub' = [pub EXCEPT ![p] = Idle]
      /\ UNCHANGED <<round_robin, bus, sub>>

(* The index is brought into range and its sender is waited for. *)
PublishSelects(p) ==
  LET t == pub[p].topic
      list == Retain(senders[t])
      idx == round_robin[t] % Len(list)
  IN  /\ pub[p].at = "waiting" /\ bus = Nobody
      /\ list # << >>
      /\ SetSenders(t, list)
      /\ round_robin' = [round_robin EXCEPT ![t] = idx]
      /\ bus' = p
      /\ pub' = [pub EXCEPT ![p].at = "sending", ![p].target = list[idx + 1]]
      /\ UNCHANGED sub

Advance(t) ==
  round_robin' = [round_robin EXCEPT ![t] = (@ + 1) % Len(senders[t])]

(* There is room in the channel. *)
SendDelivers(p) ==
  LET s == pub[p].target
  IN  /\ pub[p].at = "sending"
      /\ IsOpen(s) /\ sub[s].queued < Capacity
      /\ sub' = [sub EXCEPT ![s].queued = @ + 1]
      /\ share' = Shares(senders[pub[p].topic], [share EXCEPT ![s] = @ + 1])
      /\ Advance(pub[p].topic)
      /\ bus' = Nobody
      /\ pub' = [pub EXCEPT ![p] = Idle]
      /\ UNCHANGED senders

(* Defect: a failed send returns with the lock held. *)
SendFailsLocked(p) ==
  /\ pub[p].at = "sending"
  /\ ~ IsOpen(pub[p].target)
  /\ pub' = [pub EXCEPT ![p] = Idle]
  /\ UNCHANGED <<senders, round_robin, bus, sub, share>>

(* The receiver was dropped meanwhile: MqPublishFailed. *)
SendFails(p) ==
  /\ pub[p].at = "sending"
  /\ ~ IsOpen(pub[p].target)
  /\ bus' = Nobody
  /\ pub' = [pub EXCEPT ![p] = Idle]
  /\ UNCHANGED <<senders, round_robin, sub, share>>

(* The caller gives up (drops the future) while it waits. *)
PublishAbandoned(p) ==
  /\ pub[p].at \in {"waiting", "sending"}
  /\ bus' = IF bus = p THEN Nobody ELSE bus
  /\ pub' = [pub EXCEPT ![p] = Idle]
  /\ UNCHANGED <<senders, round_robin, sub, share>>

(* subscribe creates its channel and waits for the lock. *)
Subscribe(s) ==
  /\ sub[s].at = "none"
  /\ \E t \in Topics : sub' = [sub EXCEPT ![s].at = "joining", ![s].topic = t]
  /\ UNCHANGED <<senders, round_robin, bus, pub, share>>

Subscribed(s) ==
  /\ sub[s].at = "joining" /\ bus = Nobody
  /\ sub' = [sub EXCEPT ![s].at = "open"]
  /\ SetSenders(sub[s].topic, Append(senders[sub[s].topic], s))
  /\ UNCHANGED <<round_robin, bus, pub>>

Recv(s) ==
  /\ IsOpen(s) /\ sub[s].queued > 0
  /\ sub' = [sub EXCEPT ![s].queued = @ - 1]
  /\ UNCHANGED <<senders, round_robin, bus, pub, share>>

(* The MessageReceiver is dropped, with what is left in its channel. *)
Unsubscribe(s) ==
  /\ IsOpen(s)
  /\ sub' = [sub EXCEPT ![s].at = "closed", ![s].queued = 0]
  /\ UNCHANGED <<senders, round_robin, bus, pub, share>>

PublisherStep(p) ==
  \/ Publish(p) \/ PublishDropped(p) \/ PublishSelects(p) \/ SendDelivers(p)
  \/ SendFails(p) \/ PublishAbandoned(p)

SubscriberStep(s) ==
  Subscribe(s) \/ Subscribed(s) \/ Recv(s) \/ Unsubscribe(s)

Next ==
  \/ \E p \in Publishers : PublisherStep(p)
  \/ \E s \in Subscribers : SubscriberStep(s)

Spec == Init /\ [][Next]_vars

(* tokio's mutex serves its waiters in order (which strong fairness stands   *)
(* for), and every consumer goes on receiving, or drops its receiver.        *)
Fairness ==
  /\ \A p \in Publishers :
       /\ SF_vars(PublishDropped(p) \/ PublishSelects(p))
       /\ WF_vars(SendDelivers(p)) /\ WF_vars(SendFails(p))
  /\ \A s \in Subscribers : SF_vars(Subscribed(s)) /\ WF_vars(Recv(s))

FairSpec == Spec /\ Fairness

-----------------------------------------------------------------------------
(* Properties *)

(* The type of every variable. *)
TypeOK ==
  /\ \A t \in Topics : senders[t] \in Seq(Subscribers)
  /\ round_robin \in [Topics -> 0 .. (Cardinality(Subscribers) - 1)]
  /\ bus \in Publishers \cup {Nobody}
  /\ pub \in [Publishers -> [at : {"idle", "waiting", "sending"},
                             topic : Topics \cup {NoTopic},
                             target : Subscribers \cup {Nobody}]]
  /\ sub \in [Subscribers -> [at : {"none", "joining", "open", "closed"},
                              topic : Topics \cup {NoTopic},
                              queued : 0 .. Capacity]]
  /\ share \in [Subscribers -> Nat]

(* "load distribution": as long as the list of a topic does not change, the  *)
(* numbers of messages its subscribers were sent differ by at most one,      *)
(* whatever failed and abandoned publishes lie between them.                 *)
Balanced ==
  \A t \in Topics : \A i, j \in DOMAIN senders[t] :
    share[senders[t][i]] =< share[senders[t][j]] + 1

(* Every publish returns as long as consumers go on receiving, although a    *)
(* publisher that waits for a full channel stops those of all other topics.  *)
PublishReturns == \A p \in Publishers : pub[p].at = "waiting" ~> pub[p].at = "idle"
=============================================================================
