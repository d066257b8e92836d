--------------------------- MODULE TrpcConnection ---------------------------
(***************************************************************************)
(* One tRPC connection: TrpcClient of rinfra-plugins/src/rpc/trpc/         *)
(* client.rs with its write loop and read loop, and handle_connection of   *)
(* server.rs, which answers one frame after the other.                     *)
(*                                                                         *)
(* A frame is its kind, its request id and the request it stands for (who  *)
(* asked, and which of its asks it was), from which a handler computes its *)
(* answer.                                                                 *)
(***************************************************************************)
EXTENDS Integers, Sequences

CONSTANTS
  Callers,      \* tasks that share the client
  MaxAsks,      \* bound: asks of one caller
  MaxId,        \* bound: request ids
  Capacity,     \* capacity of the write channel (256)
  MaxWire       \* bound: frames the sockets hold in one direction

ASSUME TrpcAssumption ==
  MaxAsks \in Nat /\ MaxId \in Nat /\ Capacity \in Nat \ {0} /\ MaxWire \in Nat \ {0}

VARIABLES
  ask,        \* each caller: where it is, its id, its number, what came back
  pending,    \* TrpcClient.pending: the ids with a sender in the map
  next_id,
  channel,    \* the frames in write_tx
  writer,     \* write_loop runs
  reader,     \* read_loop: "reading", "draining" (past its loop) or "ended"
  up, down,   \* the frames on the wire
  link        \* the server's handler runs and its socket is open

vars == <<ask, pending, next_id, channel, writer, reader, up, down, link>>

Idle(n) == [at |-> "idle", id |-> 0, n |-> n, got |-> << >>]

Init ==
  /\ ask = [c \in Callers |-> Idle(0)]
  /\ pending = {} /\ next_id = 1
  /\ channel = << >> /\ up = << >> /\ down = << >>
  /\ writer = TRUE /\ reader = "reading" /\ link = TRUE

-----------------------------------------------------------------------------
(* tell, ask and ask_timeout *)

(* A frame of kind Tell has the id 0 and no answer; it fails when write_loop *)
(* has ended.                                                                *)
Tell(c) ==
  /\ ask[c].at = "idle" /\ writer /\ Len(channel) < Capacity
  /\ channel' = Append(channel, [kind |-> "Tell", id |-> 0, of |-> << >>])
  /\ UNCHANGED <<ask, pending, next_id, writer, reader, up, down, link>>

Ask(c) ==
  /\ ask[c].at = "idle" /\ ask[c].n < MaxAsks /\ next_id =< MaxId
  /\ ask' = [ask EXCEPT ![c] = [at |-> "sending", id |-> next_id, n |-> @.n + 1,
                                got |-> << >>]]
  /\ pending' = pending \cup {next_id}
  /\ next_id' = next_id + 1
  /\ UNCHANGED <<channel, writer, reader, up, down, link>>

AskSent(c) ==
  /\ ask[c].at = "sending" /\ writer /\ Len(channel) < Capacity
  /\ channel' = Append(channel, [kind |-> "Request", id |-> ask[c].id,
                                 of |-> <<c, ask[c].n>>])
  /\ ask' = [ask EXCEPT ![c].at = "awaiting"]
  /\ UNCHANGED <<pending, next_id, writer, reader, up, down, link>>

(* write_loop has ended: the entry is removed and the ask fails. *)
AskRefused(c) ==
  /\ ask[c].at = "sending" /\ ~ writer
  /\ pending' = pending \ {ask[c].id}
  /\ ask' = [ask EXCEPT ![c] = Idle(@.n)]
  /\ UNCHANGED <<next_id, channel, writer, reader, up, down, link>>

(* The oneshot has a value: the ask returns it, answer or error. *)
AskAnswered(c) ==
  /\ ask[c].at = "awaiting" /\ ask[c].got # << >>
  /\ ask' = [ask EXCEPT ![c] = Idle(@.n)]
  /\ UNCHANGED <<pending, next_id, channel, writer, reader, up, down, link>>

(* ask_timeout drops the ask where it waits; its entry stays in the map. *)
AskTimedOut(c) ==
  /\ ask[c].at \in {"sending", "awaiting"}
  /\ ask' = [ask EXCEPT ![c] = Idle(@.n)]
  /\ UNCHANGED <<pending, next_id, channel, writer, reader, up, down, link>>

-----------------------------------------------------------------------------
(* write_loop and read_loop *)

(* Writing to a socket whose peer is gone succeeds until the reset arrives. *)
WriteFrame ==
  /\ writer /\ channel # << >> /\ Len(up) < MaxWire
  /\ up' = IF link THEN Append(up, Head(channel)) ELSE up
  /\ channel' = Tail(channel)
  /\ UNCHANGED <<ask, pending, next_id, writer, reader, down, link>>

WriteError ==
  /\ writer /\ channel # << >> /\ ~ link
  /\ writer' = FALSE /\ channel' = << >>
  /\ UNCHANGED <<ask, pending, next_id, reader, up, down, link>>

(* Defect: a value for a caller that has not come to its await is lost. *)
DeliverToAwaiting(ids, value) ==
  /\ pending' = pending \ ids
  /\ ask' = [c \in Callers |->
               IF ask[c].id \in ids \cap pending /\ ask[c].at = "awaiting"
                 THEN [ask[c] EXCEPT !.got = value] ELSE ask[c]]

(* The callers whose oneshot is removed from the map get the value; one      *)
(* that timed out has dropped its end.                                       *)
Deliver(ids, value) ==
  /\ pending' = pending \ ids
  /\ ask' = [c \in Callers |->
               IF ask[c].id \in ids \cap pending /\ ask[c].at \in {"sending", "awaiting"}
                 THEN [ask[c] EXCEPT !.got = value] ELSE ask[c]]

ReadAnswer ==
  /\ reader = "reading" /\ down # << >>
  /\ Deliver({Head(down).id}, Head(down).of)
  /\ down' = Tail(down)
  /\ UNCHANGED <<next_id, channel, writer, reader, up, link>>

(* A frame of more than 16 MB, which its writer does not refuse, ends the    *)
(* loop although the socket stays open.                                      *)
ReadFails ==
  /\ reader = "reading" /\ down # << >>
  /\ down' = Tail(down)
  /\ reader' = "draining"
  /\ UNCHANGED <<ask, pending, next_id, channel, writer, up, link>>

(* The server closed, or the connection was reset. *)
ReadEnds ==
  /\ reader = "reading" /\ down = << >> /\ ~ link
  /\ reader' = "draining"
  /\ UNCHANGED <<ask, pending, next_id, channel, writer, up, down, link>>

Drain ==
  /\ reader = "draining"
  /\ Deliver(pending, <<"closed">>)
  /\ reader' = "ended"
  /\ UNCHANGED <<next_id, channel, writer, up, down, link>>

-----------------------------------------------------------------------------
(* handle_connection of the server *)

(* Response or Error with the id of the request; a Tell runs on its own. *)
ServerAnswers ==
  /\ link /\ up # << >> /\ Len(down) < MaxWire
  /\ up' = Tail(up)
  /\ down' = IF Head(up).kind = "Request"
               THEN Append(down, [Head(up) EXCEPT !.kind = "Response"]) ELSE down
  /\ UNCHANGED <<ask, pending, next_id, channel, writer, reader, link>>

(* The handler ends: a read or write error, or the process is gone; answers  *)
(* already sent may be lost with it.                                         *)
ServerCloses ==
  /\ link
  /\ link' = FALSE /\ up' = << >>
  /\ down' \in {down, << >>}
  /\ UNCHANGED <<ask, pending, next_id, channel, writer, reader>>

CallerStep(c) ==
  Tell(c) \/ Ask(c) \/ AskSent(c) \/ AskRefused(c) \/ AskAnswered(c) \/ AskTimedOut(c)

Next ==
  \/ \E c \in Callers : CallerStep(c)
  \/ WriteFrame \/ WriteError \/ ReadAnswer \/ ReadFails \/ ReadEnds \/ Drain
  \/ ServerAnswers \/ ServerCloses

Spec == Init /\ [][Next]_vars

(* The runtime polls every task that is ready and the server's handlers      *)
(* return; no caller is obliged to set a timeout.                            *)
Fairness ==
  /\ \A c \in Callers :
       /\ SF_vars(AskSent(c)) /\ WF_vars(AskRefused(c)) /\ WF_vars(AskAnswered(c))
  /\ WF_vars(WriteFrame \/ WriteError) /\ WF_vars(ReadAnswer)
  /\ WF_vars(ReadEnds) /\ WF_vars(Drain) /\ WF_vars(ServerAnswers)

FairSpec == Spec /\ Fairness

-----------------------------------------------------------------------------
(* Properties *)

Requests == Callers \X (1 .. MaxAsks)
Frames == [kind : {"Tell", "Request", "Response"}, id : 0 .. MaxId,
           of : Requests \cup {<< >>}]

(* The type of every variable. *)
TypeOK ==
  /\ ask \in [Callers -> [at : {"idle", "sending", "awaiting"}, id : 0 .. MaxId,
                          n : 0 .. MaxAsks,
                          got : Requests \cup {<< >>, <<"closed">>}]]
  /\ pending \subseteq 1 .. MaxId /\ next_id \in 1 .. (MaxId + 1)
  /\ channel \in Seq(Frames) /\ Len(channel) =< Capacity
  /\ up \in Seq(Frames) /\ down \in Seq(Frames)
  /\ writer \in BOOLEAN /\ reader \in {"reading", "draining", "ended"}
  /\ link \in BOOLEAN

(* An ask gets the answer to its own request or an error: the late answer to *)
(* an ask that timed out is never given to the next one, of this or another  *)
(* caller.                                                                   *)
AnswerIsMine ==
  \A c \in Callers : ask[c].got \in {<< >>, <<"closed">>, <<c, ask[c].n>>}

(* Nobody waits in vain on a connection that is up: an ask that awaits its   *)
(* answer has a value already, or an entry in the map and, while the server  *)
(* is there and its answers are read, its request or its answer under way.   *)
AwaitedIsUnderWay ==
  \A c \in Callers : ask[c].at = "awaiting" =>
    \/ ask[c].got # << >>
    \/ /\ ask[c].id \in pending
       /\ link /\ reader = "reading" => \E q \in {channel, up, down} :
            \E i \in DOMAIN q : q[i].id = ask[c].id /\ q[i].of = <<c, ask[c].n>>

(* Every answer reaches the ask it belongs to and no other one, through late *)
(* answers, timeouts, full channels and the end of the connection.           *)
AnswersReach == AnswerIsMine /\ AwaitedIsUnderWay

(* "trpc: connection lost while waiting for response": an ask returns, with  *)
(* an error when the connection is lost.                                     *)
AskReturns == \A c \in Callers : ask[c].at = "awaiting" ~> ask[c].at = "idle"
=============================================================================
