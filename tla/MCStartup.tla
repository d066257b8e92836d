------------------------------ MODULE MCStartup ------------------------------
(* Startup for TLC: files that set, mistype or empty a section, variables    *)
(* beside, inside and above what the files set, and the plugins whose flags  *)
(* a given configuration varies.                                             *)
EXTENDS Startup

Tree(leaves) == ToValue(leaves)

MCFiles == {
  (<< >> :> Null),
  Tree((<<"app">> :> Null)),
  Tree((<<"app", "name">> :> Str("shop")) @@ (<<"unknown">> :> Num("7"))),
  Tree(   (Plugin(<<"cache", "redis", "enabled">>) :> Bool("true"))
       @@ (Plugin(<<"mq", "backend">>) :> Str("nats"))
       @@ (Plugin(<<"config_watch", "enabled">>) :> Bool("true"))),
  Tree((Plugin(<<"mq", "backend">>) :> Str("none")) @@ (<<"business", "limit">> :> Num("7"))),
  Tree(Section(Item, [name |-> Str("web"), bind |-> Str("any"), protocol |-> Str("http")])
       @@ (Item \o <<"http", "ws", "enabled">> :> Bool("true")))
     @@ (Listeners :> Array("[web]")),
  Tree(Section(Item, [name |-> Str("raw"), bind |-> Str("any")])
       @@ (Append(Item, "tcp") :> Obj)) @@ (Listeners :> Array("[raw]"))}

Var(path, raw) == [path |-> path, raw |-> raw]
MCEnvs == SUBSET {
  Var(<<"app", "name">>, "bank"),
  Var(Plugin(<<"cache", "redis", "enabled">>), "TRUE"),
  Var(Plugin(<<"cache", "redis", "required">>), "true"),
  Var(Plugin(<<"store", "postgres", "enabled">>), "true"),
  Var(Item \o <<"bind">>, "lo")}
  \cup {{Var(<<"app", "name">>, "7"), Var(<<"app", "version">>, "x")},
        {Var(<<"app">>, "x"), Var(<<"app", "name">>, "bank")},
        {Var(<<"app", "name", "x">>, "x"), Var(<<"app", "name">>, "bank")},
        {Var(<<"app", "name">>, "bank"), Var(<<"app", "name">>, "shop")},
        {Var(<<"business", "limit">>, "0.5")}}

Varied ==
  {"cache.memory", "cache.redis", "cache.multilevel", "store.postgres", "crypto.file_key",
   "crypto.aesgcm", "lock", "timer.simple", "audit.file", "config_watch"}
MCGiven ==
  UNION {{[on |-> on, required |-> r, path |-> ""] : r \in SUBSET (on \cap Requirable)} :
           on \in SUBSET Varied}
    \cup {[on |-> on \cup {"config_watch"}, required |-> {}, path |-> "file"] :
            on \in SUBSET {"audit.file", "mq.redis_streams", "ratelimit.redis", "http_client"}}
    \cup {[on |-> on, required |-> {}, path |-> ""] :
            on \in SUBSET {"store.postgres", "store.mysql", "store.sqlite",
                           "script.wasm", "script.js"}}
=============================================================================
