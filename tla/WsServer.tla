------------------------------ MODULE WsServer ------------------------------
(***************************************************************************)
(* The WebSocket connections of one process: handle_socket and WsTracker   *)
(* of rinfra-plugins/src/net/ws.rs, and drain_ws_connections of            *)
(* runtime/mod.rs, which waits for them after the shutdown signal.         *)
(*                                                                         *)
(* Time is discrete and the same for all sockets.  A task that is ready is *)
(* polled within one unit of it; a handler may take longer.                *)
(***************************************************************************)
EXTENDS Integers, Sequences, FiniteSets, ShutdownToken

CONSTANTS
  Socks,
  Interval,      \* WsOptions.ping_interval_secs
  PingTimeout,   \* WsOptions.ping_timeout_secs
  MaxDue         \* bound: missed ticks of ping_timer that are made up for

ASSUME WsAssumption ==
  /\ IsFiniteSet(Socks)
  /\ Interval \in Nat \ {0} /\ PingTimeout \in Nat /\ MaxDue \in Nat \ {0}

VARIABLES
  sock,      \* each socket's task, and its peer
  active,    \* WsTracker.active
  drain,     \* where drain_ws_connections is
  woken      \* the Notified future it waits on was woken

wsVars == <<sock, active, drain, woken>>

(* "upgrading": the task of the upgrade has not begun; "handling": on_message *)
(* runs or its answer is being sent; "pinging", "farewell": a ping, the close *)
(* frame is being sent; "stuck": a send waits for a peer that lives and never *)
(* reads again; "closing": before on_close returns; "notifying": between     *)
(* fetch_sub and notify_waiters.                                             *)
Serving == {"loop", "handling", "pinging"}
Sending == {"handling", "pinging", "farewell"}
Tracked == {"opening", "farewell", "stuck", "closing"} \cup Serving

(* age: time since last_pong; until: to the next tick of ping_timer; due:   *)
(* ticks to be taken; silent: the peer is gone; pong: its pong has arrived.  *)
Fresh == [at |-> "none", waiting |-> FALSE, age |-> 0, until |-> Interval,
          due |-> 0, silent |-> FALSE, pong |-> FALSE]

WsInit ==
  /\ sock = [s \in Socks |-> Fresh]
  /\ active = 0
  /\ drain = "no" /\ woken = FALSE

Goto(s, at) == sock' = [sock EXCEPT ![s].at = at]

(* A last send, however it ends: timer and pongs do not matter any more. *)
LastSend(s, at) ==
  sock' = [sock EXCEPT ![s] = [Fresh EXCEPT !.at = at, !.silent = sock[s].silent]]

(* The loop is left, and the peer does not matter either. *)
Leave(s) == sock' = [sock EXCEPT ![s] = [Fresh EXCEPT !.at = "closing"]]

-----------------------------------------------------------------------------
(* handle_socket *)

(* The server accepts requests until the signal; the task of the upgraded    *)
(* connection starts when it is polled.                                      *)
Upgrade(s) ==
  /\ sock[s].at = "none" /\ ~ token
  /\ Goto(s, "upgrading")
  /\ UNCHANGED <<active, drain, woken>>

OnConnect(s) ==
  /\ sock[s].at = "upgrading"
  /\ active' = active + 1
  /\ Goto(s, "opening")
  /\ UNCHANGED <<drain, woken>>

OpenSucceeds(s) ==
  /\ sock[s].at = "opening"
  /\ Goto(s, "loop")
  /\ UNCHANGED <<active, drain, woken>>

(* on_disconnect: fetch_sub, and a notification when it was the last one. *)
OnDisconnect(s) ==
  /\ active' = active - 1
  /\ sock' = [sock EXCEPT ![s] =
                [Fresh EXCEPT !.at = IF active = 1 THEN "notifying" ELSE "closed"]]
  /\ UNCHANGED <<drain, woken>>

OpenFails(s) == sock[s].at = "opening" /\ OnDisconnect(s)

(* notify_waiters reaches the futures that exist. *)
NotifyWaiters(s) ==
  /\ sock[s].at = "notifying"
  /\ woken' = (woken \/ drain = "waiting")
  /\ Goto(s, "closed")
  /\ UNCHANGED <<active, drain>>

SeesShutdown(s) ==
  /\ sock[s].at = "loop" /\ token
  /\ LastSend(s, "farewell")
  /\ UNCHANGED <<active, drain, woken>>

PongOverdue(s) == sock[s].waiting /\ sock[s].age > PingTimeout

PongTimeout(s) ==
  /\ sock[s].at = "loop" /\ sock[s].due > 0
  /\ PongOverdue(s)
  /\ LastSend(s, "farewell")
  /\ UNCHANGED <<active, drain, woken>>

SendPing(s) ==
  /\ sock[s].at = "loop" /\ sock[s].due > 0
  /\ ~ PongOverdue(s)
  /\ sock' = [sock EXCEPT ![s].due = @ - 1, ![s].at = "pinging"]
  /\ UNCHANGED <<active, drain, woken>>

(* Defect: a ping forgets that the one before it was not answered. *)
PingSentForgets(s) ==
  sock[s].at = "pinging" /\ sock' = [sock EXCEPT ![s].at = "loop", ![s].waiting = FALSE]

PingSent(s) ==
  sock[s].at = "pinging" /\ sock' = [sock EXCEPT ![s].at = "loop", ![s].waiting = TRUE]

(* socket.send returns: an error ends the loop, the close frame is the last. *)
(* It is outside the select!, so the signal and the timer have to wait.      *)
SendEnds(s) ==
  /\ \/ PingSent(s)
     \/ sock[s].at \in {"pinging", "farewell"} /\ Leave(s)
     \/ sock[s].at = "stuck" /\ sock[s].silent /\ Leave(s)
  /\ UNCHANGED <<active, drain, woken>>

ReadPong(s) ==
  /\ sock[s].at = "loop" /\ sock[s].pong
  /\ sock' = [sock EXCEPT ![s].pong = FALSE, ![s].waiting = FALSE, ![s].age = 0]
  /\ UNCHANGED <<active, drain, woken>>

ReadMessage(s) ==
  /\ sock[s].at = "loop" /\ ~ sock[s].silent
  /\ Goto(s, "handling")
  /\ UNCHANGED <<active, drain, woken>>

(* A close frame, a receive error or the end of the stream. *)
ReadEnd(s) ==
  /\ sock[s].at = "loop" /\ ~ sock[s].silent
  /\ Leave(s)
  /\ UNCHANGED <<active, drain, woken>>

(* An error, of on_message or of sending its answer, ends the loop. *)
HandlerReturns(s) ==
  /\ sock[s].at = "handling"
  /\ Goto(s, "loop") \/ Leave(s)
  /\ UNCHANGED <<active, drain, woken>>

OnClose(s) == sock[s].at = "closing" /\ OnDisconnect(s)

SocketStep(s) ==
  \/ Upgrade(s) \/ OnConnect(s) \/ OpenSucceeds(s) \/ OpenFails(s)
  \/ SeesShutdown(s) \/ PongTimeout(s) \/ SendPing(s) \/ SendEnds(s)
  \/ ReadPong(s) \/ ReadMessage(s) \/ ReadEnd(s) \/ HandlerReturns(s)
  \/ OnClose(s) \/ NotifyWaiters(s)

-----------------------------------------------------------------------------
(* The peers *)

PeerPongs(s) ==
  /\ sock[s].at \in Serving /\ sock[s].waiting /\ ~ sock[s].silent /\ ~ sock[s].pong
  /\ sock' = [sock EXCEPT ![s].pong = TRUE]
  /\ UNCHANGED <<active, drain, woken>>

(* The peer lives and reads no more; one that is merely slow leaves the send *)
(* as it is for a while.                                                     *)
PeerStops(s) ==
  /\ sock[s].at \in Sending /\ ~ sock[s].silent
  /\ LastSend(s, "stuck")
  /\ UNCHANGED <<active, drain, woken>>

(* The peer is gone without a word. *)
PeerVanishes(s) ==
  /\ sock[s].at \in {"farewell", "stuck"} \cup Serving /\ ~ sock[s].silent
  /\ sock' = [sock EXCEPT ![s].silent = TRUE]
  /\ UNCHANGED <<active, drain, woken>>

PeerStep(s) == PeerPongs(s) \/ PeerStops(s) \/ PeerVanishes(s)

-----------------------------------------------------------------------------
(* drain_ws_connections *)

DrainCount ==
  /\ token /\ drain = "no"
  /\ drain' = IF active > 0 THEN "counted" ELSE "done"
  /\ UNCHANGED <<sock, active, woken>>

(* wait_all_closed looks at the counter once more before it waits. *)
DrainRecount ==
  /\ drain = "counted"
  /\ drain' = IF active > 0 THEN "recounted" ELSE "done"
  /\ UNCHANGED <<sock, active, woken>>

DrainWait ==
  /\ drain = "recounted"
  /\ drain' = "waiting"
  /\ UNCHANGED <<sock, active, woken>>

DrainWoken ==
  /\ drain = "waiting" /\ woken
  /\ drain' = "done"
  /\ UNCHANGED <<sock, active, woken>>

(* grace_period_secs have passed. *)
DrainTimeout ==
  /\ drain = "waiting"
  /\ drain' = "timedout"
  /\ UNCHANGED <<sock, active, woken>>

DrainStep == DrainCount \/ DrainRecount \/ DrainWait \/ DrainWoken \/ DrainTimeout

-----------------------------------------------------------------------------

UpTo(n, max) == IF n < max THEN n + 1 ELSE max

(* ping_timer catches up on the ticks it missed. *)
Aged(k) ==
  IF k.at \in Serving
    THEN [k EXCEPT !.age = UpTo(@, PingTimeout + 1),
                   !.until = IF @ = 1 THEN Interval ELSE @ - 1,
                   !.due = IF k.until = 1 THEN UpTo(@, MaxDue) ELSE @]
    ELSE k

ClockTicks ==
  /\ \A s \in Socks : sock[s].at = "loop" => sock[s].due = 0
  /\ sock' = [s \in Socks |-> Aged(sock[s])]
  /\ UNCHANGED <<active, drain, woken>>

(* Time passes; every task that is ready is polled, handlers return, and a   *)
(* send returns unless its peer lives and never reads again.                 *)
(* select! chooses at random among the branches that are ready: one that is  *)
(* ready again and again is taken, however busy the socket is.               *)
Proceeds(s) ==
  \/ OnConnect(s) \/ OpenSucceeds(s) \/ OpenFails(s) \/ SendEnds(s)
  \/ HandlerReturns(s) \/ OnClose(s) \/ NotifyWaiters(s)

SocketFairness(s) ==
  /\ WF_wsVars(Proceeds(s))
  /\ WF_wsVars(ReadPong(s))
  /\ SF_wsVars(SeesShutdown(s))
  /\ SF_wsVars(PongTimeout(s) \/ SendPing(s))

WsFairness ==
  /\ \A s \in Socks : SocketFairness(s)
  /\ WF_wsVars(ClockTicks)

-----------------------------------------------------------------------------
(* Properties *)

(* The type of every variable. *)
WsTypeOK ==
  /\ sock \in [Socks -> [at : Tracked \cup {"none", "upgrading", "notifying", "closed"},
                         waiting : BOOLEAN, silent : BOOLEAN, pong : BOOLEAN,
                         age : 0 .. (PingTimeout + 1), until : 1 .. Interval,
                         due : 0 .. MaxDue]]
  /\ active \in 0 .. Cardinality(Socks)
  /\ token \in BOOLEAN /\ woken \in BOOLEAN
  /\ drain \in {"no", "counted", "recounted", "waiting", "done", "timedout"}

(* active counts exactly the connections between on_connect and              *)
(* on_disconnect, whichever way handle_socket leaves: a leak would make      *)
(* every shutdown wait for the whole grace period.                           *)
ActiveCounted == active = Cardinality({s \in Socks : sock[s].at \in Tracked})

(* A connection whose peer is gone is closed, although nothing is ever read  *)
(* from it again and its pings seem to be sent.                              *)
SilentPeerClosed ==
  \A s \in Socks :
    sock[s].at \in {"farewell", "stuck"} \cup Serving /\ sock[s].silent
      ~> sock[s].at = "closed"

(* A send waits for a peer that is there and does not read. *)
Blocked(s) == sock[s].at = "stuck" /\ ~ sock[s].silent

(* After the signal every connection closes, those that were being upgraded *)
(* included, unless its peer lives and does not read what it was sent.       *)
ShutdownCloses ==
  token ~> \A s \in Socks : sock[s].at \in {"none", "closed"} \/ Blocked(s)

(* Not kept by the code - "Wait until all tracked connections have closed":  *)
(* while it waits, there is a connection to wait for, or its wake-up is on   *)
(* the way.                                                                  *)
WaitsForOpen ==
  drain = "waiting" =>
    woken \/ \E s \in Socks : sock[s].at \in Tracked \cup {"notifying"}
=============================================================================
