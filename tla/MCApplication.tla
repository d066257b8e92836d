---------------------------- MODULE MCApplication ----------------------------
(* Application for TLC: a ping at every tick, two middlewares registered     *)
(* against their order, two transforms; one configuration for each kind of   *)
(* client, and one with all listeners and a request.                         *)
EXTENDS Application

CONSTANTS s1, s2, c1, c2

MCSocks == {s1, s2}
MCTcpConns == {c1, c2}
MCRegistered == <<"audit", "auth">>
MCOrder == [audit |-> 50, auth |-> 10]
MCPipeline == <<"encrypt", "gzip">>
MCComponents == <<"store", "timer">>
MCLoads == {{"http", s1, s2}, {"tcp", c1, c2},
            {"http", "tcp", "grpc", "request", "store", "timer"}}
=============================================================================
