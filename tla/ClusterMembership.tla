-------------------------- MODULE ClusterMembership --------------------------
(***************************************************************************)
(* Cluster membership of rinfra-plugins/src/cluster: the main node's       *)
(* ClusterServer (server.rs) and its ConnectedRegistry (registry.rs), and  *)
(* the ClusterConnection of every worker (connection.rs), started by       *)
(* setup_worker_cluster (runtime/mod.rs).                                  *)
(*                                                                         *)
(* A TCP connection is a slot of conn: the two ends, the frames under way  *)
(* in each direction in order, and whether the link is cut (a host or a    *)
(* network failure: nothing is delivered any more and neither end is told).*)
(* A slot whose two ends are gone is used again.                           *)
(*                                                                         *)
(* Durations are not modelled: a timer may fire whenever it is armed, so   *)
(* every order of timers, frames and failures is covered.  A worker's own  *)
(* Ping and the Pong it ignores change no state; its Ping is kept as the   *)
(* send that discovers a broken link (Disconnected).                       *)
(***************************************************************************)
EXTENDS Integers, Sequences

CONSTANTS
  Workers,       \* node ids
  Trusted,       \* the workers that present cluster_token (all of them when
                 \*   the main node's token is empty)
  Conns,         \* connection slots
  MaxMissed,     \* handle_connection gives up at this many missed pongs (3)
  MaxFrames,     \* bound: frames under way in one direction
  MaxFaults,     \* bound: cut links, crashes, restarts and register timeouts
  NoWorker, NoConn

ASSUME ClusterAssumption ==
  /\ Trusted \subseteq Workers
  /\ NoWorker \notin Workers /\ NoConn \notin Conns
  /\ MaxMissed \in Nat /\ MaxFrames \in Nat /\ MaxFaults \in Nat

VARIABLES
  registry,   \* ConnectedRegistry.nodes: the status of every listed node
  conn,       \* the connections
  worker,     \* each worker's task: where it is, and its current connection
  connState,  \* ConnectionHandle.state
  nodeList,   \* ClusterConnection.node_list: the nodes a worker last read
  shutdown,   \* the workers whose shutdown token is cancelled
  stopping,   \* the main node's shutdown token is cancelled
  faults      \* failures so far, for the bound

vars == <<registry, conn, worker, connState, nodeList, shutdown, stopping,
          faults>>
workerVars == <<worker, connState, nodeList, shutdown>>
mainVars == <<registry, stopping>>

Statuses == {"Absent", "Online", "Offline"}

(* "first": connect_once awaits its ack; "connect": at tcp_connect in       *)
(* run_loop; "register": do_register awaits its ack; "loop": message_loop;  *)
(* "backoff": asleep before the next try; "failed": connect_once returned   *)
(* Err; "down": the process is gone.                                        *)
WorkerAt == {"start", "first", "connect", "register", "loop", "backoff",
             "stopped", "failed", "down"}

(* The server end: "backlog": not accepted yet; "registering": in           *)
(* handle_register; "acked": RegisterAck sent, registry.register not called *)
(* yet; "serving": in the loop; "leaving": out of the loop, Offline not set *)
(* yet; "done": the handler returned and its socket is closed.              *)
ServerEnds == {"backlog", "registering", "acked", "serving", "leaving", "done"}

FrameTypes == {"Register", "Ack", "Nack", "Ping", "Pong", "Deregister",
               "ListNodes", "NodeList"}

NoNodes == [w \in Workers |-> "Absent"]
Frame(t) == [type |-> t, nodes |-> NoNodes]
Frames == [type : FrameTypes, nodes : [Workers -> Statuses]]

(* node is the worker that connected, missed the handler's missed_pongs. *)
Connections ==
  [node : Workers \cup {NoWorker}, client : {"open", "closed"},
   server : ServerEnds, up : Seq(Frames), down : Seq(Frames),
   missed : 0 .. MaxMissed, cut : BOOLEAN]

Closed == [node |-> NoWorker, client |-> "closed", server |-> "done",
           up |-> << >>, down |-> << >>, missed |-> 0, cut |-> FALSE]

Init ==
  /\ registry = NoNodes
  /\ conn = [i \in Conns |-> Closed]
  /\ worker = [w \in Workers |-> [at |-> "start", conn |-> NoConn]]
  /\ connState = [w \in Workers |-> "Disconnected"]
  /\ nodeList = [w \in Workers |-> NoNodes]
  /\ shutdown = {}
  /\ stopping = FALSE
  /\ faults = 0

-----------------------------------------------------------------------------
(* TCP *)

(* What end c looks like with frame f sent to the server, or to the client. *)
SendUp(c, f) == IF c.cut THEN c ELSE [c EXCEPT !.up = Append(@, f)]
SendDown(c, f) ==
  IF c.cut \/ c.client = "closed" THEN c ELSE [c EXCEPT !.down = Append(@, f)]

(* The client drops its socket; frames it had not read are lost. *)
CloseClient(c) == [c EXCEPT !.client = "closed", !.down = << >>]

(* The handler returns: its socket closes, frames it had not read are lost. *)
CloseServer(c) == [c EXCEPT !.server = "done", !.up = << >>, !.missed = 0]

(* An end finds out that its peer is gone: it reads the end of the stream,  *)
(* or a send fails, whatever is still unread.                               *)
ClientLost(i) == conn[i].cut \/ conn[i].server = "done"
ServerLost(i) == conn[i].cut \/ conn[i].client = "closed"

(* A slot with both ends gone holds nothing. *)
Settle(c) == IF c.client = "closed" /\ c.server = "done" THEN Closed ELSE c

Update(i, c) == conn' = [conn EXCEPT ![i] = Settle(c)]

ClientReads(i, t) ==
  /\ ~ conn[i].cut /\ conn[i].down # << >> /\ Head(conn[i].down).type = t
ServerReads(i, t) ==
  /\ ~ conn[i].cut /\ conn[i].up # << >> /\ Head(conn[i].up).type = t
ClientEof(i) == ~ conn[i].cut /\ conn[i].down = << >> /\ conn[i].server = "done"
ServerEof(i) == ~ conn[i].cut /\ conn[i].up = << >> /\ conn[i].client = "closed"

Fault == faults < MaxFaults /\ faults' = faults + 1

-----------------------------------------------------------------------------
(* The worker: setup_worker_cluster, run_loop and message_loop *)

Goto(w, at, i) == worker' = [worker EXCEPT ![w] = [at |-> at, conn |-> i]]

(* tcp_connect succeeded and do_register sent its frame. *)
Connect(w, from, to) ==
  /\ worker[w].at = from
  /\ \E i \in Conns :
       /\ conn[i] = Closed
       /\ conn' = [conn EXCEPT ![i] =
                     [Closed EXCEPT !.node = w, !.client = "open",
                                    !.server = "backlog",
                                    !.up = <<Frame("Register")>>]]
       /\ Goto(w, to, i)
  /\ UNCHANGED <<mainVars, connState, nodeList, shutdown, faults>>

ConnectOnce(w) == Connect(w, "start", "first")
ConnectAgain(w) == Connect(w, "connect", "register")

(* connect_once returned Ok: its Framed goes out of scope, which closes the *)
(* connection it has just registered, and spawn_background starts run_loop. *)
ConnectOnceAcked(w) ==
  LET i == worker[w].conn
  IN  /\ worker[w].at = "first"
      /\ ClientReads(i, "Ack")
      /\ Update(i, CloseClient(conn[i]))
      /\ Goto(w, "connect", NoConn)
      /\ connState' = [connState EXCEPT ![w] = "Connected"]
      /\ UNCHANGED <<mainVars, nodeList, shutdown, faults>>

(* do_register failed: rejected, closed before the ack, or out of time. *)
RegisterFails(w, at) ==
  LET i == worker[w].conn
  IN  /\ worker[w].at = at
      /\ \/ (ClientReads(i, "Nack") \/ ClientEof(i)) /\ UNCHANGED faults
         \/ conn[i].cut /\ UNCHANGED faults
         \/ Fault
      /\ Update(i, CloseClient(conn[i]))

ConnectOnceFails(w) ==
  /\ RegisterFails(w, "first")
  /\ Goto(w, "failed", NoConn)
  /\ UNCHANGED <<mainVars, connState, nodeList, shutdown>>

(* Defect: a failed registration ends run_loop. *)
ReregisterFailsFast(w) ==
  /\ RegisterFails(w, "register")
  /\ Goto(w, "failed", NoConn)
  /\ UNCHANGED <<mainVars, connState, nodeList, shutdown>>

ReregisterFails(w) ==
  /\ RegisterFails(w, "register")
  /\ Goto(w, "backoff", NoConn)
  /\ connState' = [connState EXCEPT ![w] = "Reconnecting"]
  /\ UNCHANGED <<mainVars, nodeList, shutdown>>

(* tcp_connect failed: a network fault, or nobody listens. *)
ConnectFails(w) ==
  /\ worker[w].at = "connect"
  /\ Fault \/ (stopping /\ UNCHANGED faults)
  /\ Goto(w, "backoff", NoConn)
  /\ connState' = [connState EXCEPT ![w] = "Reconnecting"]
  /\ UNCHANGED <<mainVars, conn, nodeList, shutdown>>

(* The select! of the backoff is not biased: when the sleep is over and the *)
(* token cancelled, either branch may be taken.                             *)
BackoffEnds(w) ==
  /\ worker[w].at = "backoff"
  /\ \/ Goto(w, "connect", NoConn)
     \/ w \in shutdown /\ Goto(w, "stopped", NoConn)
  /\ UNCHANGED <<mainVars, conn, connState, nodeList, shutdown, faults>>

ReregisterAcked(w) ==
  LET i == worker[w].conn
  IN  /\ worker[w].at = "register"
      /\ ClientReads(i, "Ack")
      /\ Update(i, [conn[i] EXCEPT !.down = Tail(@)])
      /\ Goto(w, "loop", i)
      /\ connState' = [connState EXCEPT ![w] = "Connected"]
      /\ UNCHANGED <<mainVars, nodeList, shutdown, faults>>

(* The select! of message_loop is biased: once the token is cancelled no    *)
(* other branch is taken.                                                   *)
InLoop(w) == worker[w].at = "loop" /\ w \notin shutdown

AnswerPing(w) ==
  LET i == worker[w].conn
  IN  /\ InLoop(w)
      /\ ClientReads(i, "Ping")
      /\ Len(conn[i].up) < MaxFrames
      /\ Update(i, SendUp([conn[i] EXCEPT !.down = Tail(@)], Frame("Pong")))
      /\ UNCHANGED <<mainVars, workerVars, faults>>

PollNodes(w) ==
  LET i == worker[w].conn
  IN  /\ InLoop(w)
      /\ Len(conn[i].up) < MaxFrames
      /\ Update(i, SendUp(conn[i], Frame("ListNodes")))
      /\ UNCHANGED <<mainVars, workerVars, faults>>

ReadNodeList(w) ==
  LET i == worker[w].conn
  IN  /\ InLoop(w)
      /\ ClientReads(i, "NodeList")
      /\ nodeList' = [nodeList EXCEPT ![w] = Head(conn[i].down).nodes]
      /\ Update(i, [conn[i] EXCEPT !.down = Tail(@)])
      /\ UNCHANGED <<mainVars, worker, connState, shutdown, faults>>

(* EOF, a read error, or a Ping or ListNodes that cannot be sent. *)
Disconnected(w) ==
  LET i == worker[w].conn
  IN  /\ InLoop(w)
      /\ ClientLost(i)
      /\ Update(i, CloseClient(conn[i]))
      /\ Goto(w, "connect", NoConn)
      /\ connState' = [connState EXCEPT ![w] = "Reconnecting"]
      /\ UNCHANGED <<mainVars, nodeList, shutdown, faults>>

RequestShutdown(w) ==
  /\ w \notin shutdown
  /\ worker[w].at \in {"connect", "register", "loop", "backoff"}
  /\ shutdown' = shutdown \cup {w}
  /\ UNCHANGED <<mainVars, conn, worker, connState, nodeList, faults>>

(* Deregister is sent, message_loop returns false and the socket closes. *)
Deregister(w) ==
  LET i == worker[w].conn
  IN  /\ worker[w].at = "loop" /\ w \in shutdown
      /\ Update(i, CloseClient(SendUp(conn[i], Frame("Deregister"))))
      /\ Goto(w, "stopped", NoConn)
      /\ UNCHANGED <<mainVars, connState, nodeList, shutdown, faults>>

(* The process dies; the kernel closes its socket. *)
WorkerCrash(w) ==
  LET i == worker[w].conn
  IN  /\ worker[w].at \notin {"down", "failed", "stopped"}
      /\ Fault
      /\ IF i \in Conns THEN Update(i, CloseClient(conn[i])) ELSE UNCHANGED conn
      /\ Goto(w, "down", NoConn)
      /\ UNCHANGED <<mainVars, connState, nodeList, shutdown>>

(* The process is started again with the node_id of its configuration. *)
WorkerRestart(w) ==
  /\ worker[w].at \in {"down", "failed", "stopped"}
  /\ Fault
  /\ Goto(w, "start", NoConn)
  /\ connState' = [connState EXCEPT ![w] = "Disconnected"]
  /\ nodeList' = [nodeList EXCEPT ![w] = NoNodes]
  /\ shutdown' = shutdown \ {w}
  /\ UNCHANGED <<mainVars, conn>>

Cut(i) ==
  /\ conn[i] # Closed /\ ~ conn[i].cut
  /\ Fault
  /\ conn' = [conn EXCEPT ![i].cut = TRUE, ![i].up = << >>, ![i].down = << >>]
  /\ UNCHANGED <<mainVars, workerVars>>

-----------------------------------------------------------------------------
(* The main node: run, handle_register and handle_connection *)

ServerOnly == UNCHANGED <<workerVars, stopping>>

Accept(i) ==
  /\ conn[i].server = "backlog" /\ ~ stopping
  /\ Update(i, [conn[i] EXCEPT !.server = "registering"])
  /\ ServerOnly /\ UNCHANGED <<registry, faults>>

(* handle_register answers before handle_connection touches the registry. *)
HandleRegister(i) ==
  /\ conn[i].server = "registering"
  /\ ServerReads(i, "Register")
  /\ LET c == [conn[i] EXCEPT !.up = Tail(@)]
     IN  IF c.node \in Trusted
           THEN Update(i, SendDown([c EXCEPT !.server = "acked"], Frame("Ack")))
           ELSE Update(i, CloseServer(SendDown(c, Frame("Nack"))))
  /\ ServerOnly /\ UNCHANGED <<registry, faults>>

(* The stream ended, or five seconds passed without a Register. *)
RegisterTimeout(i) ==
  /\ conn[i].server = "registering"
  /\ \/ (ServerEof(i) \/ conn[i].cut) /\ UNCHANGED faults
     \/ Fault
  /\ Update(i, CloseServer(conn[i]))
  /\ ServerOnly /\ UNCHANGED registry

Register(i) ==
  /\ conn[i].server = "acked"
  /\ registry' = [registry EXCEPT ![conn[i].node] = "Online"]
  /\ Update(i, [conn[i] EXCEPT !.server = "serving"])
  /\ ServerOnly /\ UNCHANGED faults

(* The select! of handle_connection is biased as well. *)
Serving(i) == conn[i].server = "serving" /\ ~ stopping

(* Defect: missed_pongs is not advanced. *)
PingTickUncounted(i) ==
  /\ Serving(i)
  /\ conn[i].missed < MaxMissed
  /\ Len(conn[i].down) < MaxFrames
  /\ Update(i, SendDown(conn[i], Frame("Ping")))
  /\ ServerOnly /\ UNCHANGED <<registry, faults>>

PingTick(i) ==
  /\ Serving(i)
  /\ conn[i].missed < MaxMissed
  /\ Len(conn[i].down) < MaxFrames
  /\ Update(i, SendDown([conn[i] EXCEPT !.missed = @ + 1], Frame("Ping")))
  /\ ServerOnly /\ UNCHANGED <<registry, faults>>

Leave(i) == Update(i, [conn[i] EXCEPT !.server = "leaving"])

PingTimeout(i) ==
  /\ Serving(i)
  /\ conn[i].missed >= MaxMissed
  /\ Leave(i)
  /\ ServerOnly /\ UNCHANGED <<registry, faults>>

HandlePong(i) ==
  /\ Serving(i)
  /\ ServerReads(i, "Pong")
  /\ Update(i, [conn[i] EXCEPT !.missed = 0, !.up = Tail(@)])
  /\ ServerOnly /\ UNCHANGED <<registry, faults>>

HandleDeregister(i) ==
  /\ Serving(i)
  /\ ServerReads(i, "Deregister")
  /\ registry' = [registry EXCEPT ![conn[i].node] = "Absent"]
  /\ Update(i, CloseServer(conn[i]))
  /\ ServerOnly /\ UNCHANGED faults

HandleListNodes(i) ==
  /\ Serving(i)
  /\ ServerReads(i, "ListNodes")
  /\ Len(conn[i].down) < MaxFrames
  /\ Update(i, SendDown([conn[i] EXCEPT !.up = Tail(@)],
                        [type |-> "NodeList", nodes |-> registry]))
  /\ ServerOnly /\ UNCHANGED <<registry, faults>>

(* A read error or the end of the stream; a Ping that cannot be sent. *)
ServerDisconnected(i) ==
  /\ Serving(i)
  /\ ServerLost(i)
  /\ Leave(i)
  /\ ServerOnly /\ UNCHANGED <<registry, faults>>

(* shutdown.cancelled() ends the accept loop and every handler's loop. *)
MainShutdown ==
  /\ ~ stopping
  /\ Fault
  /\ stopping' = TRUE
  /\ UNCHANGED <<registry, conn, workerVars>>

(* The listener is dropped with the connections it had not accepted. *)
CloseListener(i) ==
  /\ conn[i].server = "backlog" /\ stopping
  /\ Update(i, CloseServer(conn[i]))
  /\ ServerOnly /\ UNCHANGED <<registry, faults>>

ServerShutdown(i) ==
  /\ conn[i].server = "serving" /\ stopping
  /\ Leave(i)
  /\ ServerOnly /\ UNCHANGED <<registry, faults>>

(* The main node's process ends, in whatever state, and is started again    *)
(* with an empty registry.                                                  *)
MainRestart ==
  /\ Fault \/ (stopping /\ UNCHANGED faults)
  /\ registry' = NoNodes
  /\ conn' = [i \in Conns |-> Settle(CloseServer(conn[i]))]
  /\ stopping' = FALSE
  /\ UNCHANGED workerVars

(* Defect: the handler returns without set_status. *)
SetOfflineForgotten(i) ==
  /\ conn[i].server = "leaving"
  /\ Update(i, CloseServer(conn[i]))
  /\ ServerOnly /\ UNCHANGED <<registry, faults>>

(* set_status touches a listed node only; the socket closes after it. *)
SetOffline(i) ==
  /\ conn[i].server = "leaving"
  /\ registry' = [registry EXCEPT ![conn[i].node] =
                    IF @ = "Absent" THEN @ ELSE "Offline"]
  /\ Update(i, CloseServer(conn[i]))
  /\ ServerOnly /\ UNCHANGED faults

-----------------------------------------------------------------------------
WorkerStep(w) ==
  \/ ConnectOnce(w) \/ ConnectAgain(w) \/ ConnectOnceAcked(w)
  \/ ConnectOnceFails(w) \/ ReregisterFails(w) \/ ConnectFails(w)
  \/ BackoffEnds(w) \/ ReregisterAcked(w) \/ AnswerPing(w) \/ PollNodes(w)
  \/ ReadNodeList(w) \/ Disconnected(w) \/ Deregister(w)

Environment(w) == RequestShutdown(w) \/ WorkerCrash(w) \/ WorkerRestart(w)

ServerStep(i) ==
  \/ Accept(i) \/ HandleRegister(i) \/ RegisterTimeout(i) \/ Register(i)
  \/ PingTick(i) \/ PingTimeout(i) \/ HandlePong(i) \/ HandleDeregister(i)
  \/ HandleListNodes(i) \/ ServerDisconnected(i) \/ ServerShutdown(i)
  \/ CloseListener(i) \/ SetOffline(i)

Next ==
  \/ \E w \in Workers : WorkerStep(w) \/ Environment(w)
  \/ \E i \in Conns : ServerStep(i) \/ Cut(i)
  \/ MainShutdown \/ MainRestart

Spec == Init /\ [][Next]_vars

(* The runtime polls every task that is ready, timers fire, and a main node  *)
(* that was stopped is started again.  A peer is never obliged to answer     *)
(* and the kernel is not relied on to tell the server of a cut link; it does *)
(* tell a worker, which writes to the link at every ping interval.           *)
Fairness ==
  /\ \A w \in Workers :
       /\ WF_vars(ConnectOnce(w)) /\ WF_vars(ConnectAgain(w))
       /\ WF_vars(ConnectOnceAcked(w)) /\ WF_vars(ReregisterAcked(w))
       /\ WF_vars(ConnectOnceFails(w)) /\ WF_vars(ReregisterFails(w))
       /\ WF_vars(BackoffEnds(w)) /\ WF_vars(Disconnected(w))
       /\ WF_vars(Deregister(w))
  /\ \A i \in Conns :
       /\ WF_vars(Accept(i)) /\ WF_vars(HandleRegister(i))
       /\ WF_vars(RegisterTimeout(i)) /\ WF_vars(Register(i))
       /\ WF_vars(PingTick(i) \/ PingTimeout(i))
       /\ WF_vars(HandleDeregister(i)) /\ WF_vars(HandleListNodes(i))
       /\ WF_vars(HandlePong(i))
       /\ WF_vars(ServerEof(i) /\ ServerDisconnected(i))
       /\ WF_vars(ServerShutdown(i)) /\ WF_vars(CloseListener(i)) /\ WF_vars(SetOffline(i))
  /\ WF_vars(MainRestart)

FairSpec == Spec /\ Fairness

-----------------------------------------------------------------------------
(* Properties *)

(* The type of every variable. *)
TypeOK ==
  /\ registry \in [Workers -> Statuses]
  /\ worker \in [Workers -> [at : WorkerAt, conn : Conns \cup {NoConn}]]
  /\ connState \in [Workers -> {"Connected", "Disconnected", "Reconnecting"}]
  /\ nodeList \in [Workers -> [Workers -> Statuses]]
  /\ shutdown \subseteq Workers /\ stopping \in BOOLEAN /\ faults \in 0 .. MaxFaults
  /\ conn \in [Conns -> Connections]

(* No ghost members: a node that the registry shows Online has a handler     *)
(* that has not set it Offline yet and will do so when its connection ends,  *)
(* however the sessions of its earlier incarnations interleave.              *)
OnlineIsServed ==
  \A w \in Workers : registry[w] = "Online" =>
    \E i \in Conns : conn[i].node = w /\ conn[i].server \in {"serving", "leaving"}

(* A node that does not know the cluster token never gets a handler past     *)
(* registration, is never listed, and never enters message_loop.             *)
UntrustedStaysOut ==
  \A w \in Workers \ Trusted :
    /\ registry[w] = "Absent"
    /\ worker[w].at # "loop"
    /\ \A i \in Conns : conn[i].node = w =>
         conn[i].server \in {"backlog", "registering", "done"}

(* A worker in message_loop owns its connection alone: no other worker and   *)
(* no earlier turn of its own loop uses the same socket, and the handle says *)
(* Connected.                                                                *)
LoopOwnsConnection ==
  \A w \in Workers : worker[w].at = "loop" =>
    /\ connState[w] = "Connected"
    /\ conn[worker[w].conn].node = w
    /\ conn[worker[w].conn].client = "open"
    /\ \A i \in Conns : conn[i].node = w /\ conn[i].client = "open"
         => i = worker[w].conn

(* Who is a member: the three above, under every interleaving of old and     *)
(* new sessions, timeouts, crashes and restarts.                             *)
MembersGenuine == OnlineIsServed /\ UntrustedStaysOut /\ LoopOwnsConnection

(* A worker that stopped, crashed or was refused does not stay Online, even  *)
(* when its host vanished without a FIN: the missed pongs of its last        *)
(* connection set it Offline.                                                *)
GoneIsNoticed ==
  \A w \in Workers :
    worker[w].at \in {"stopped", "down", "failed"} ~> registry[w] # "Online"

(* A worker that knows the token gets back into message_loop once failures   *)
(* cease, unless it is stopped.                                              *)
WorkerReconnects ==
  \A w \in Trusted :
    worker[w].at \in {"connect", "backoff"}
      ~> worker[w].at \in {"loop", "stopped", "down"}

(* "Main-side node registry backed by active TCP connections": a node whose  *)
(* handler is in its loop is shown Online.                                   *)
ActiveConnectionIsOnline ==
  \A i \in Conns :
    conn[i].server = "serving" => registry[conn[i].node] = "Online"

(* Not kept by the code - a worker that holds its RegisterAck on a live      *)
(* connection is listed.                                                     *)
AckedIsListed ==
  \A w \in Workers :
    worker[w].at = "loop" /\ conn[worker[w].conn].server # "done"
      => registry[w] # "Absent"
=============================================================================
