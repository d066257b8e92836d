--------------------------- MODULE PluginRegistry ---------------------------
(***************************************************************************)
(* The life of the plugins: builtin_plugins and every build of             *)
(* rinfra-plugins/src/plugin/builtin.rs, build_all and shutdown_all of     *)
(* rinfra-core/src/plugin/registry.rs.  The plugins are built one after    *)
(* the other in the order of the list; each may fill a slot of the         *)
(* PluginContext (its type map), take what an earlier one left there, and  *)
(* push a shutdown hook and a health checker.                              *)
(***************************************************************************)
EXTENDS Integers, Sequences, FiniteSets

CONSTANT Empty

VARIABLES
  enabled,    \* the plugins the configuration enables
  required,   \*   and those whose connection it requires
  stage,      \* "configuring", "building", "failed", "built", "stopping",
              \*   "stopped"
  next,       \* position in the list
  slots,      \* PluginContext.extensions: the plugin whose component is there
  wired,      \* <<user, provider>>: what a build took from a slot
  connected,  \* the components with an open connection
  checkers,   \* HealthCheckerRegistry: the plugins whose component is probed
  hooks,      \* PluginRegistry.shutdown_hooks
  closed,     \* history: the hooks that ran to their end, in order
  failed      \* the hook whose error shutdown_all returned

pluginVars ==
  <<enabled, required, stage, next, slots, wired, connected, checkers, hooks, closed, failed>>

(* Defect: the timer before the lock. *)
BuiltinPluginsTimerFirst == <<
  "codec.json", "codec.msgpack", "codec.protobuf",
  "cache.memory", "cache.redis", "cache.multilevel",
  "mq.memory", "mq.nats", "mq.redis_streams",
  "store.postgres", "store.mysql", "store.sqlite",
  "ratelimit.memory", "ratelimit.redis",
  "crypto.env_key", "crypto.file_key", "crypto.rotating_key", "crypto.aesgcm",
  "script.wasm", "script.python", "script.js", "net.rpc", "net.trpc",
  "file_store.local", "http_client", "timer.simple", "lock",
  "audit.file", "i18n", "config_watch" >>

BuiltinPlugins == <<
  "codec.json", "codec.msgpack", "codec.protobuf",
  "cache.memory", "cache.redis", "cache.multilevel",
  "mq.memory", "mq.nats", "mq.redis_streams",
  "store.postgres", "store.mysql", "store.sqlite",
  "ratelimit.memory", "ratelimit.redis",
  "crypto.env_key", "crypto.file_key", "crypto.rotating_key", "crypto.aesgcm",
  "script.wasm", "script.python", "script.js", "net.rpc", "net.trpc",
  "file_store.local", "http_client", "lock", "timer.simple",
  "audit.file", "i18n", "config_watch" >>

Plugins == {BuiltinPlugins[i] : i \in DOMAIN BuiltinPlugins}

(* Empty stands for a slot without a component. *)
ASSUME EmptyAssumption == Empty \notin Plugins

AlwaysOn == {"codec.json", "codec.msgpack", "codec.protobuf", "crypto.env_key",
             "net.rpc", "net.trpc"}

(* mq.backend names at most one of them. *)
MqBackends == {"mq.memory", "mq.nats", "mq.redis_streams"}

(* The slot a build fills; a later build replaces the component in it. *)
SlotOf(p) ==
  CASE p \in {"cache.memory", "cache.redis", "cache.multilevel"} -> "Cache"
    [] p \in MqBackends -> "MessageBus"
    [] p \in {"store.postgres", "store.mysql", "store.sqlite"} -> "Store"
    [] p \in {"ratelimit.memory", "ratelimit.redis"} -> "RateLimiter"
    [] p \in {"crypto.env_key", "crypto.file_key"} -> "KeyProvider"
    [] p \in {"codec.json", "codec.msgpack", "codec.protobuf"} -> "Codecs"
    [] p \in {"script.wasm", "script.python", "script.js"} -> "ScriptEngines"
    [] OTHER -> p

(* The builds of the two RPC servers register nothing. *)
Slotless == {"net.rpc", "net.trpc"}

Slots == {SlotOf(p) : p \in Plugins \ Slotless}

(* The slot a build looks into. *)
Uses == [u \in {"crypto.aesgcm", "timer.simple", "config_watch"} |->
           CASE u = "crypto.aesgcm" -> "KeyProvider"
             [] u = "timer.simple" -> "lock"
             [] u = "config_watch" -> "audit.file"]

Stores == {"store.postgres", "store.mysql", "store.sqlite"}

(* A failed connect is tolerated unless required is set; the multilevel     *)
(* cache does not look at required.                                         *)
Requirable == Stores \cup {"cache.redis", "ratelimit.redis"}
Connecting == Requirable \cup {"cache.multilevel", "mq.nats", "mq.redis_streams", "lock"}
Tolerates(p) == p = "cache.multilevel" \/ (p \in Requirable /\ p \notin required)

(* Builds that pass an error on: a connection, a key, a directory or an      *)
(* invalid setting.                                                          *)
Fallible == (Connecting \ {"cache.multilevel"})
              \cup {"crypto.aesgcm", "http_client", "i18n"}

Hooked == Requirable \cup {"cache.multilevel"}

(* Defect: the cache in front of Redis has no checker. *)
CheckerOfLevels(p) == {p} \cap (Stores \cup MqBackends \cup {"cache.redis"})
CheckerOf(p) == {p} \cap (Stores \cup MqBackends \cup {"cache.redis", "cache.multilevel"})

PluginInit ==
  /\ enabled = {} /\ required = {} /\ stage = "configuring" /\ next = 1
  /\ slots = [t \in Slots |-> Empty]
  /\ wired = {} /\ connected = {} /\ checkers = {} /\ hooks = << >>
  /\ closed = << >> /\ failed = Empty

(* PluginContext::new on the configuration. *)
BuildBegins(on, needed) ==
  /\ stage = "configuring"
  /\ enabled' = on /\ required' = needed
  /\ stage' = "building"
  /\ UNCHANGED <<next, slots, wired, connected, checkers, hooks, closed, failed>>

Current == BuiltinPlugins[next]

(* The multilevel cache needs the flags of both levels. *)
Wanted(p) ==
  /\ p \in enabled
  /\ p = "cache.multilevel" => {"cache.memory", "cache.redis"} \subseteq enabled

-----------------------------------------------------------------------------
(* build_all *)

BuildSkipped ==
  /\ stage = "building" /\ next =< Len(BuiltinPlugins)
  /\ ~ Wanted(Current)
  /\ next' = next + 1
  /\ UNCHANGED <<enabled, required, stage, slots, wired, connected, checkers, hooks, closed, failed>>

Filled(p) == IF p \in Slotless THEN slots ELSE [slots EXCEPT ![SlotOf(p)] = p]

(* Defect: one hook per slot - a component that replaces another pushes none. *)
RegisterOneHook(p) ==
  /\ next' = next + 1
  /\ slots' = Filled(p)
  /\ wired' = IF p \in DOMAIN Uses /\ slots[Uses[p]] # Empty
                THEN wired \cup {<<p, slots[Uses[p]]>>} ELSE wired
  /\ checkers' = checkers \cup CheckerOf(p)
  /\ hooks' = IF p \in Hooked /\ slots[SlotOf(p)] = Empty THEN Append(hooks, p) ELSE hooks
  /\ UNCHANGED <<enabled, required, stage, closed, failed>>

(* The component is registered, with what it takes from an earlier one. *)
Register(p) ==
  /\ next' = next + 1
  /\ slots' = Filled(p)
  /\ wired' = IF p \in DOMAIN Uses /\ slots[Uses[p]] # Empty
                THEN wired \cup {<<p, slots[Uses[p]]>>} ELSE wired
  /\ checkers' = checkers \cup CheckerOf(p)
  /\ hooks' = IF p \in Hooked THEN Append(hooks, p) ELSE hooks
  /\ UNCHANGED <<enabled, required, stage, closed, failed>>

BuildSucceeds ==
  /\ stage = "building" /\ next =< Len(BuiltinPlugins)
  /\ Wanted(Current)
  /\ Current = "crypto.aesgcm" => slots["KeyProvider"] # Empty
  /\ Register(Current)
  /\ \/ connected' = connected \cup ({Current} \cap Connecting)
     \/ Current = "lock" /\ UNCHANGED connected   \* the in-memory backend

(* The connect failed: the component is registered all the same. *)
BuildDegraded ==
  /\ stage = "building" /\ next =< Len(BuiltinPlugins)
  /\ Wanted(Current) /\ Tolerates(Current)
  /\ Register(Current)
  /\ UNCHANGED connected

(* PluginInitFailed: the context and the hooks in it are dropped. *)
BuildFails ==
  /\ stage = "building" /\ next =< Len(BuiltinPlugins)
  /\ Wanted(Current) /\ Current \in Fallible /\ ~ Tolerates(Current)
  /\ stage' = "failed"
  /\ hooks' = << >>
  /\ UNCHANGED <<enabled, required, next, slots, wired, connected, checkers, closed, failed>>

BuildDone ==
  /\ stage = "building" /\ next > Len(BuiltinPlugins)
  /\ stage' = "built"
  /\ UNCHANGED <<enabled, required, next, slots, wired, connected, checkers, hooks, closed, failed>>

BuildStep == BuildSkipped \/ BuildSucceeds \/ BuildDegraded \/ BuildFails \/ BuildDone

-----------------------------------------------------------------------------
(* shutdown_all *)

ShutdownBegins ==
  /\ stage = "built"
  /\ stage' = "stopping"
  /\ UNCHANGED <<enabled, required, next, slots, wired, connected, checkers, hooks, closed, failed>>

HookCloses ==
  LET last == hooks[Len(hooks)]
  IN  /\ stage = "stopping" /\ hooks # << >>
      /\ closed' = Append(closed, last)
      /\ connected' = connected \ {last}
      /\ hooks' = SubSeq(hooks, 1, Len(hooks) - 1)
      /\ UNCHANGED <<enabled, required, stage, next, slots, wired, checkers, failed>>

(* Closing a store waits for its connections longer than                     *)
(* component_timeout_secs: shutdown_all returns and drops the other hooks.   *)
HookFails ==
  LET last == hooks[Len(hooks)]
  IN  /\ stage = "stopping" /\ hooks # << >>
      /\ last \in Stores \cap connected
      /\ stage' = "stopped"
      /\ failed' = last
      /\ hooks' = << >>
      /\ UNCHANGED <<enabled, required, next, slots, wired, connected, checkers, closed>>

ShutdownEnds ==
  /\ stage = "stopping" /\ hooks = << >>
  /\ stage' = "stopped"
  /\ UNCHANGED <<enabled, required, next, slots, wired, connected, checkers, hooks, closed, failed>>

ShutdownStep == ShutdownBegins \/ HookCloses \/ HookFails \/ ShutdownEnds

PluginNext == BuildStep \/ ShutdownStep

-----------------------------------------------------------------------------
(* Properties *)

(* The type of every variable. *)
PluginTypeOK ==
  /\ enabled \subseteq Plugins /\ required \subseteq Requirable
  /\ stage \in {"configuring", "building", "failed", "built", "stopping", "stopped"}
  /\ next \in 1 .. (Len(BuiltinPlugins) + 1)
  /\ slots \in [Slots -> Plugins \cup {Empty}]
  /\ wired \subseteq (DOMAIN Uses) \X Plugins
  /\ connected \subseteq Connecting /\ checkers \subseteq Plugins
  /\ hooks \in Seq(Hooked) /\ closed \in Seq(Hooked)
  /\ failed \in Stores \cup {Empty}

(* "Ordering matters: KeyProvider plugins must come before AesGcm", "Lock     *)
(* (before Timer so timer can use distributed lock)", "Audit (before          *)
(* ConfigWatch so watcher can use audit logger)": a component that integrates *)
(* with another works with the very one that AppState hands out.             *)
IntegrationsWired ==
  stage = "built" =>
    \A u \in (DOMAIN Uses) \cap enabled :
      LET p == slots[Uses[u]] IN p # Empty => <<u, p>> \in wired

Built(p) == CHOOSE i \in DOMAIN BuiltinPlugins : BuiltinPlugins[i] = p

(* "run shutdown hooks in reverse order", "Cleanup phase: release external   *)
(* connections": a component is closed only after everything built after it, *)
(* so that nothing outlives what it was built on; what a stopped application *)
(* keeps open is the hook that failed and what was built before it, and when *)
(* none failed everything is closed, replaced components included.           *)
StopCloses ==
  /\ \A i, j \in DOMAIN closed : i < j => Built(closed[i]) > Built(closed[j])
  /\ stage = "stopped" =>
       \A p \in connected \cap Hooked : failed # Empty /\ Built(p) =< Built(failed)

(* Not kept by the code - "redis cache connect failed, continuing without    *)
(* redis": a component whose connect failed does not take the place of one   *)
(* that works.                                                               *)
ContinuesWithout ==
  stage = "built" => ~ (/\ slots["Cache"] = "cache.redis"
                        /\ "cache.redis" \notin connected
                        /\ "cache.memory" \in enabled)
=============================================================================
