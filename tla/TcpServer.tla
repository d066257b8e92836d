----------------------------- MODULE TcpServer -----------------------------
(***************************************************************************)
(* TcpServer of rinfra-plugins/src/net/tcp.rs: the accept loop and         *)
(* handle_tcp_connection with its middlewares (TcpMiddleware of            *)
(* rinfra-core/src/net/tcp.rs) and its pipeline of byte transforms.        *)
(*                                                                         *)
(* A payload is the sequence of transforms it is wrapped in, outermost     *)
(* first; << >> is the plain message.                                      *)
(***************************************************************************)
EXTENDS Integers, Sequences, FiniteSets, SequencesExt, ShutdownToken

CONSTANTS
  TcpConns,
  Registered,     \* the middlewares in the order they were registered
  Order,          \* TcpMiddleware::order of each
  Pipeline        \* the transforms of TcpOptions.pipeline

(* No transform has the name that marks an undecodable payload. *)
ASSUME TcpAssumption ==
  /\ IsFiniteSet(TcpConns)
  /\ Order \in [DOMAIN Order -> Int] /\ Registered \in Seq(DOMAIN Order)
  /\ Pipeline \in Seq(STRING \ {"failed"})

VARIABLES
  tcp,       \* each connection's task: where it is, the middleware at work,
             \*   the payload, the middlewares that passed it
  accepted,  \* history: per connection, the positions of the middlewares
             \*   whose on_connect accepted it and whose on_disconnect was not
             \*   called yet
  tcpActive  \* TCP_CONNECTIONS_ACTIVE

tcpVars == <<tcp, accepted, tcpActive>>

(* Defect: with_middlewares keeps the order of registration. *)
MiddlewaresUnsorted == Registered

(* sort_by_key is stable: of equal orders, the one registered first is first. *)
NotBehind(i, j) ==
  \/ Order[Registered[i]] < Order[Registered[j]]
  \/ Order[Registered[i]] = Order[Registered[j]] /\ i =< j

Place(j) == Cardinality({i \in DOMAIN Registered : NotBehind(i, j)})

Middlewares ==
  [k \in DOMAIN Registered |->
     Registered[CHOOSE j \in DOMAIN Registered : Place(j) = k]]

Innermost == Len(Middlewares)

NoConn == [at |-> "none", mw |-> 0, data |-> << >>, passed |-> << >>]

TcpInit ==
  /\ tcp = [c \in TcpConns |-> NoConn]
  /\ accepted = [c \in TcpConns |-> {}]
  /\ tcpActive = 0

(* "inbound", "handling", "outbound", "sending": a frame is in work.          *)
(* "stuck": framed.send waits for a peer that lives and never reads again;   *)
(* a peer that is merely slow leaves it in "sending" for a while.            *)
Working == {"inbound", "handling", "outbound", "sending"}
InLoop == {"loop", "stuck"} \cup Working
Connected == {"connecting", "disconnecting"} \cup InLoop

-----------------------------------------------------------------------------
(* The pipeline *)

Encode(t, data) == <<t>> \o data
Unwraps(t, data) == data # << >> /\ Head(data) = t

EncodePipeline(data) == FoldRight(Encode, Pipeline, data)

Failed == <<"failed">>

DecodePipeline(data) ==
  FoldLeft(LAMBDA d, t : IF Unwraps(t, d) THEN Tail(d) ELSE Failed, data, Pipeline)

-----------------------------------------------------------------------------
(* start and handle_tcp_connection *)

Move(c, at, mw) == tcp' = [tcp EXCEPT ![c].at = at, ![c].mw = mw]

(* An iteration of the loop begins, and its last one is over. *)
ToLoop(c) == tcp' = [tcp EXCEPT ![c] = [NoConn EXCEPT !.at = "loop"]]

(* Defect: on_disconnect of the handler alone. *)
ToDisconnectSkips(c) == tcp' = [tcp EXCEPT ![c] = [NoConn EXCEPT !.at = "disconnecting"]]

ToDisconnect(c) ==
  tcp' = [tcp EXCEPT ![c] = [NoConn EXCEPT !.at = "disconnecting", !.mw = Innermost]]

(* The select! is biased: nothing is accepted after the signal. *)
TcpAccept(c) ==
  /\ tcp[c].at = "none" /\ ~ token
  /\ Move(c, "spawned", 0)
  /\ UNCHANGED <<accepted, tcpActive>>

TcpCount(c) ==
  /\ tcp[c].at = "spawned"
  /\ tcpActive' = tcpActive + 1
  /\ Move(c, "connecting", 1)
  /\ UNCHANGED accepted

MiddlewareAccepts(c) ==
  /\ tcp[c].at = "connecting" /\ tcp[c].mw =< Innermost
  /\ accepted' = [accepted EXCEPT ![c] = @ \cup {tcp[c].mw}]
  /\ Move(c, "connecting", tcp[c].mw + 1)
  /\ UNCHANGED tcpActive

HandlerAccepts(c) ==
  /\ tcp[c].at = "connecting" /\ tcp[c].mw = Innermost + 1
  /\ ToLoop(c)
  /\ UNCHANGED <<accepted, tcpActive>>

(* A middleware or the handler rejects the connection: the task returns,    *)
(* and the middlewares before it hear nothing more.                         *)
Rejects(c) ==
  /\ tcp[c].at = "connecting"
  /\ tcpActive' = tcpActive - 1
  /\ Move(c, "rejected", 0)
  /\ UNCHANGED accepted

(* A frame arrives; an undecodable one ends the loop. *)
Frame(c) ==
  /\ tcp[c].at = "loop" /\ ~ token
  /\ \E raw \in {EncodePipeline(<< >>), Failed} :
       LET data == DecodePipeline(raw)
       IN  IF data = Failed
             THEN ToDisconnect(c)
             ELSE tcp' = [tcp EXCEPT ![c] = [at |-> "inbound", mw |-> 1,
                                             data |-> data, passed |-> << >>]]
  /\ UNCHANGED <<accepted, tcpActive>>

Pass(c, mw) == tcp' = [tcp EXCEPT ![c].mw = mw,
                                  ![c].passed = Append(@, Middlewares[tcp[c].mw])]

(* on_inbound, in ascending order, and on_outbound, in descending order: a  *)
(* middleware passes the payload on.                                        *)
Passes(c) ==
  /\ \/ tcp[c].at = "inbound" /\ tcp[c].mw =< Innermost /\ Pass(c, tcp[c].mw + 1)
     \/ tcp[c].at = "outbound" /\ tcp[c].mw >= 1 /\ Pass(c, tcp[c].mw - 1)
  /\ UNCHANGED <<accepted, tcpActive>>

(* It answers None or fails: the payload is dropped, the loop goes on. *)
Drops(c) ==
  /\ \/ tcp[c].at = "inbound" /\ tcp[c].mw =< Innermost
     \/ tcp[c].at = "outbound" /\ tcp[c].mw >= 1
  /\ ToLoop(c)
  /\ UNCHANGED <<accepted, tcpActive>>

OnMessage(c) ==
  /\ tcp[c].at = "inbound" /\ tcp[c].mw = Innermost + 1
  /\ Move(c, "handling", 0)
  /\ UNCHANGED <<accepted, tcpActive>>

(* on_message returned a reply, nothing, or an error. *)
Reply(c) ==
  /\ tcp[c].at = "handling"
  /\ \/ tcp' = [tcp EXCEPT ![c] = [at |-> "outbound", mw |-> Innermost, data |-> << >>,
                                   passed |-> << >>]]
     \/ ToLoop(c)
     \/ ToDisconnect(c)
  /\ UNCHANGED <<accepted, tcpActive>>

(* The reply is encoded and its sending begins; or a transform fails. *)
Send(c) ==
  /\ tcp[c].at = "outbound" /\ tcp[c].mw = 0
  /\ \/ tcp' = [tcp EXCEPT ![c].at = "sending", ![c].data = EncodePipeline(@)]
     \/ ToDisconnect(c)
  /\ UNCHANGED <<accepted, tcpActive>>

(* framed.send returns: the peer has read enough, or is gone.  The select!   *)
(* is over, so nothing else ends it.                                         *)
SendReturns(c) ==
  /\ tcp[c].at = "sending"
  /\ ToLoop(c) \/ ToDisconnect(c)
  /\ UNCHANGED <<accepted, tcpActive>>

(* The peer reads no more, and keeps the connection. *)
ReaderStops(c) ==
  /\ tcp[c].at = "sending"
  /\ tcp' = [tcp EXCEPT ![c].at = "stuck"]
  /\ UNCHANGED <<accepted, tcpActive>>

(* It breaks the connection after all. *)
ReaderBreaks(c) ==
  /\ tcp[c].at = "stuck"
  /\ ToDisconnect(c)
  /\ UNCHANGED <<accepted, tcpActive>>

(* The signal, the end of the stream or a frame error. *)
LeavesLoop(c) ==
  /\ tcp[c].at = "loop"
  /\ ToDisconnect(c)
  /\ UNCHANGED <<accepted, tcpActive>>

(* on_disconnect of the middlewares in descending order, *)
MiddlewareDisconnects(c) ==
  /\ tcp[c].at = "disconnecting" /\ tcp[c].mw >= 1
  /\ accepted' = [accepted EXCEPT ![c] = @ \ {tcp[c].mw}]
  /\ Move(c, "disconnecting", tcp[c].mw - 1)
  /\ UNCHANGED tcpActive

(* then of the handler. *)
HandlerDisconnects(c) ==
  /\ tcp[c].at = "disconnecting" /\ tcp[c].mw = 0
  /\ tcpActive' = tcpActive - 1
  /\ Move(c, "closed", 0)
  /\ UNCHANGED accepted

TcpStep(c) ==
  \/ TcpAccept(c) \/ TcpCount(c) \/ MiddlewareAccepts(c) \/ HandlerAccepts(c)
  \/ Rejects(c) \/ Frame(c) \/ Passes(c) \/ Drops(c) \/ OnMessage(c) \/ Reply(c)
  \/ Send(c) \/ SendReturns(c) \/ ReaderStops(c) \/ ReaderBreaks(c) \/ LeavesLoop(c)
  \/ MiddlewareDisconnects(c) \/ HandlerDisconnects(c)

(* Everything but the peer: the arrival of frames, the end of a peer that    *)
(* does not read.                                                            *)
TcpProceeds(c) ==
  \/ TcpCount(c) \/ MiddlewareAccepts(c) \/ HandlerAccepts(c) \/ Rejects(c)
  \/ Passes(c) \/ Drops(c) \/ OnMessage(c) \/ Reply(c) \/ Send(c) \/ SendReturns(c)
  \/ (token /\ LeavesLoop(c)) \/ MiddlewareDisconnects(c) \/ HandlerDisconnects(c)

-----------------------------------------------------------------------------
(* Properties *)

Ascending(s) == \A i, j \in DOMAIN s : i < j => Order[s[i]] =< Order[s[j]]

(* Each middleware once. *)
ByAll(s) == Len(s) = Len(Registered) /\ ToSet(s) = ToSet(Registered)

(* "Hooks run in order sequence for on_connect / on_inbound, reverse order   *)
(* for on_outbound / on_disconnect": the handler sees a message only when    *)
(* every middleware passed it, in ascending order, and what is sent passed   *)
(* all of them in descending order and is undone by a peer that decodes with *)
(* the same pipeline.                                                        *)
FilteredBothWays ==
  \A c \in TcpConns :
    LET k == tcp[c]
    IN  /\ k.at = "handling" => ByAll(k.passed) /\ Ascending(k.passed)
        /\ k.at \in {"sending", "stuck"} =>
             /\ ByAll(k.passed) /\ Ascending(Reverse(k.passed))
             /\ DecodePipeline(k.data) = << >>

(* The gauge of active connections counts exactly the open ones; every       *)
(* middleware has let in each connection that is served, and each of them    *)
(* was told of its end once it is closed.  (One that a middleware or the     *)
(* handler rejected ends as "rejected".)                                     *)
TcpAccounted ==
  /\ tcpActive = Cardinality({c \in TcpConns : tcp[c].at \in Connected})
  /\ \A c \in TcpConns :
       /\ tcp[c].at \in InLoop => accepted[c] = 1 .. Innermost
       /\ tcp[c].at = "closed" => accepted[c] = {}

(* After the signal every connection ends, whatever it was doing, unless its *)
(* peer lives and does not read what it was sent.                            *)
TcpDrains ==
  token ~> \A c \in TcpConns : tcp[c].at \in {"none", "closed", "rejected", "stuck"}

(* Not kept by the code - "Called when the connection is closed": each       *)
(* middleware that accepted a connection is told when it is closed.          *)
ConnectIsPaired == \A c \in TcpConns : tcp[c].at = "rejected" => accepted[c] = {}
=============================================================================
