---------------------------- MODULE Application ----------------------------
(***************************************************************************)
(* Application::run of rinfra-plugins/src/runtime/mod.rs: the cluster      *)
(* setup, the build of the plugins, the listeners of every protocol, and   *)
(* the stop.  It composes the WebSocket and the TCP connections, which     *)
(* share its shutdown token; the gRPC server (rpc/grpc.rs) is told through *)
(* a Notify of its own, and the HTTP server (net/http.rs) waits for the    *)
(* requests it has accepted.                                               *)
(*                                                                         *)
(* The tasks go on after run has returned, as they do until the caller     *)
(* drops the runtime.                                                      *)
(***************************************************************************)
EXTENDS WsServer, TcpServer

CONSTANTS
  Loads,      \* configurations: listeners of plugins.net.listeners that have
              \*   what they need, clients that come, and hooks
  Components  \* plugins with a shutdown hook, in the order they are built

VARIABLES
  load,       \* the configuration
  app,        \* where run is
  listener,   \* the task of each listener
  permit,     \* the permit of GrpcServer.shutdown_signal: stored, used
  requests,   \* HTTP requests in work (0 or 1)
  hooks       \* the shutdown hooks registered and not called yet

appVars == <<load, app, listener, permit, requests, hooks>>
allVars == <<token, wsVars, tcpVars, appVars>>

Listeners == {"http", "tcp", "grpc"}

Hooks == SelectSeq(Components, LAMBDA h : h \in load)

AppInit ==
  /\ TokenInit /\ WsInit /\ TcpInit
  /\ load \in Loads
  /\ app = "setup"
  /\ listener = [l \in Listeners |-> "none"]
  /\ permit = "no" /\ requests = 0 /\ hooks = << >>

-----------------------------------------------------------------------------
(* run *)

(* setup_main_cluster or setup_worker_cluster, whose connect_once can fail. *)
SetupCluster ==
  /\ app = "setup"
  /\ app' \in {"building", "failed"}
  /\ UNCHANGED <<load, listener, permit, requests, hooks>>

(* Each plugin that is built leaves its hook with the registry. *)
BuildPlugin ==
  /\ app = "building" /\ Len(hooks) < Len(Hooks)
  /\ hooks' = Append(hooks, Hooks[Len(hooks) + 1])
  /\ UNCHANGED <<load, app, listener, permit, requests>>

(* build_with_plugins()?: run returns without calling a hook. *)
BuildFails ==
  /\ app = "building"
  /\ app' = "failed"
  /\ UNCHANGED <<load, listener, permit, requests, hooks>>

(* A listener without a handler, or with an unknown transform, is skipped. *)
StartListeners ==
  /\ app = "building" /\ Len(hooks) = Len(Hooks)
  /\ app' = "serving"
  /\ listener' = [l \in Listeners |-> IF l \in load THEN "spawned" ELSE "none"]
  /\ UNCHANGED <<load, permit, requests, hooks>>

Cancelled ==
  /\ app = "serving" /\ token
  /\ app' = "draining"
  /\ UNCHANGED <<load, listener, permit, requests, hooks>>

Drains == app = "draining" /\ DrainStep /\ UNCHANGED appVars

DrainOver ==
  /\ app = "draining" /\ drain \in {"done", "timedout"}
  /\ app' = "closing"
  /\ UNCHANGED <<load, listener, permit, requests, hooks>>

(* Defect: a hook that hangs is waited for. *)
HookEndsOnlyItself ==
  /\ app = "closing" /\ hooks # << >>
  /\ Len(hooks) = Len(Hooks)
  /\ hooks' = Front(hooks)
  /\ UNCHANGED <<load, app, listener, permit, requests>>

(* In reverse order; when one fails or component_timeout_secs pass, those     *)
(* that are left are dropped.                                                *)
HookEnds ==
  /\ app = "closing" /\ hooks # << >>
  /\ hooks' \in {Front(hooks), << >>}
  /\ UNCHANGED <<load, app, listener, permit, requests>>

RunReturns ==
  /\ app = "closing" /\ hooks = << >>
  /\ app' = "returned"
  /\ UNCHANGED <<load, listener, permit, requests, hooks>>

-----------------------------------------------------------------------------
(* The listeners *)

(* A listener that cannot bind is reported in the log; run goes on. *)
ListenerBinds(l) ==
  /\ listener[l] = "spawned"
  /\ \E next \in {"serving", "failed"} : listener' = [listener EXCEPT ![l] = next]
  /\ UNCHANGED <<load, app, permit, requests, hooks>>

(* The HTTP server stops when the requests it accepted are answered. *)
ListenerStops(l) ==
  /\ l # "grpc" /\ listener[l] = "serving" /\ token
  /\ l = "http" => requests = 0
  /\ listener' = [listener EXCEPT ![l] = "stopped"]
  /\ UNCHANGED <<load, app, permit, requests, hooks>>

(* The second task of start_grpc_listener: notify_one keeps its permit for a *)
(* server that is not waiting yet.                                           *)
GrpcNotify ==
  /\ token /\ listener["grpc"] \in {"spawned", "serving"} /\ permit = "no"
  /\ permit' = "stored"
  /\ UNCHANGED <<load, app, listener, requests, hooks>>

(* serve_with_shutdown *)
GrpcStops ==
  /\ listener["grpc"] = "serving" /\ permit = "stored"
  /\ listener' = [listener EXCEPT !["grpc"] = "stopped"]
  /\ permit' = "used"
  /\ UNCHANGED <<load, app, requests, hooks>>

Request ==
  /\ "request" \in load
  /\ listener["http"] = "serving" /\ ~ token /\ requests = 0
  /\ requests' = 1
  /\ UNCHANGED <<load, app, listener, permit, hooks>>

Response ==
  /\ requests = 1
  /\ requests' = 0
  /\ UNCHANGED <<load, app, listener, permit, hooks>>

(* Sockets and connections come in over their listeners. *)
SocketWorks(s) ==
  /\ sock[s].at = "none" => s \in load /\ listener["http"] = "serving"
  /\ SocketStep(s)

ConnectionWorks(c) ==
  /\ tcp[c].at = "none" => c \in load /\ listener["tcp"] = "serving"
  /\ TcpStep(c)

-----------------------------------------------------------------------------

RunStep ==
  \/ SetupCluster \/ BuildPlugin \/ BuildFails \/ StartListeners \/ Cancelled
  \/ DrainOver \/ HookEnds \/ RunReturns

GrpcStep == GrpcNotify \/ GrpcStops

AppStep ==
  \/ RunStep \/ GrpcStep \/ Request \/ Response
  \/ \E l \in Listeners : ListenerBinds(l) \/ ListenerStops(l)

AppNext ==
  \/ AppStep /\ UNCHANGED <<token, wsVars, tcpVars>>
  \/ Drains /\ UNCHANGED <<token, tcpVars>>
  \/ Signal /\ UNCHANGED <<wsVars, tcpVars, appVars>>
  \/ /\ \/ \E s \in Socks : SocketWorks(s) \/ PeerStep(s)
        \/ ClockTicks
     /\ UNCHANGED <<token, tcpVars, appVars>>
  \/ /\ \E c \in TcpConns : ConnectionWorks(c)
     /\ UNCHANGED <<token, wsVars, appVars>>

AppSpec == AppInit /\ [][AppNext]_allVars

(* run and the tasks of the listeners are polled, connects and builds return *)
(* (they have timeouts of their own), and requests are answered.             *)
AppFairness ==
  /\ WF_wsVars(Drains)
  /\ WF_appVars(RunStep) /\ WF_appVars(GrpcStep) /\ WF_appVars(Response)
  /\ \A l \in Listeners : WF_appVars(ListenerBinds(l) \/ ListenerStops(l))
  /\ \A c \in TcpConns : WF_tcpVars(TcpProceeds(c))

AppFairSpec == AppSpec /\ AppFairness /\ WsFairness

-----------------------------------------------------------------------------
(* Properties *)

Returned == app \in {"returned", "failed"}

(* A signal ends run, whenever it comes: during the cluster setup and the    *)
(* build, when the last socket closes between the look at the counter and    *)
(* the wait and its notification is lost, and when handlers and hooks fail.  *)
StopEnds == token ~> Returned

(* Every listener stops after the signal, those that were not yet accepting  *)
(* when it came included.                                                    *)
ListenersStop ==
  token /\ app = "serving" ~> \A l \in Listeners : listener[l] \in {"none", "stopped", "failed"}

(* A signal is obeyed by everything that run started. *)
ShutdownCompletes == StopEnds /\ ListenersStop

(* The trackers of both kinds of connections agree with the connections,     *)
(* through refused, failing and closing ones.                                *)
ConnectionsCounted == ActiveCounted /\ TcpAccounted

(* After the signal every connection of both kinds is closed, whatever its   *)
(* loop is busy with, save that a send in progress has to return first: only *)
(* a peer that lives and does not read keeps one open.  A WebSocket whose    *)
(* peer is gone is closed without it.                                        *)
ConnectionsClose == ShutdownCloses /\ TcpDrains /\ SilentPeerClosed

(* Not kept by the code - "Drain active WebSocket connections": after the     *)
(* signal every connection closes.  A send waits for the peer outside the    *)
(* select! that hears the signal.                                            *)
EveryConnectionCloses ==
  /\ token ~> \A s \in Socks : sock[s].at \in {"none", "closed"}
  /\ token ~> \A c \in TcpConns : tcp[c].at \in {"none", "closed", "rejected"}

(* Not kept by the code - a request is answered while the components it uses *)
(* are open: run does not wait for the HTTP server before it calls the hooks. *)
ServedByOpenComponents == requests = 1 => app \in {"serving", "draining"}

(* Not kept by the code - what was built is closed before run returns: a     *)
(* build that fails leaves the components before it as they are.             *)
ReturnsClosed == Returned => hooks = << >>
=============================================================================
