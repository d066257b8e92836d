----------------------------- MODULE PluginViews -----------------------------
(***************************************************************************)
(* What the rest of the program sees of the plugins: the accessors of      *)
(* AppState (rinfra-core/src/appstate.rs), the readiness route             *)
(* (rinfra-plugins/src/health), the reports of the admin console           *)
(* (rinfra-admin/backend/src/routes.rs) and of the CLI                     *)
(* (rinfra-plugins/src/cli/handlers.rs).                                   *)
(***************************************************************************)
EXTENDS PluginRegistry

(* AppState::get: what the last build left in the slot. *)
Accessor(t) == slots[t]
Has(t) == Accessor(t) # Empty

(* A probe of CacheHealthChecker, StoreHealthChecker, MessageBusHealthChecker *)
(* succeeds on a component that has a connection or needs none.               *)
Check(p) == p \in Connecting => p \in connected

(* readyz_handler *)
Readyz == \A p \in checkers : Check(p)

(* health_handler of the admin console: its status is a constant. *)
HealthHandler ==
  [status |-> "healthy",
   components |-> {t \in {"Cache", "Store", "MessageBus", "RateLimiter"} : Has(t)}]

(* plugins_enabled in the console's configuration. *)
BuildPluginsEnabled ==
  enabled \cap
    ({"cache.memory", "cache.redis", "cache.multilevel", "store.postgres",
      "ratelimit.memory", "ratelimit.redis", "crypto.aesgcm", "crypto.rotating_key",
      "crypto.file_key", "script.wasm"} \cup MqBackends)

(* The rows of its list of plugins with status "enabled". *)
PluginsHandler ==
  (BuildPluginsEnabled \ {"mq.nats", "mq.redis_streams"})
    \cup {"codec.json", "codec.msgpack", "codec.protobuf"}

(* config show, and the enabled rows of plugin list. *)
CollectEnabled == BuildPluginsEnabled \ {"crypto.rotating_key", "crypto.file_key"}
HandlePluginList == PluginsHandler \ {"crypto.rotating_key", "crypto.file_key"}

-----------------------------------------------------------------------------
(* Properties *)

(* The enabled plugins that p, once it is built, may have to leave its slot to. *)
InPlaceOf(p) ==
  {q \in enabled : Wanted(q) /\ SlotOf(q) = SlotOf(p) /\ Built(q) >= Built(p)}

(* "If true, startup fails when connection fails", "connect failed,           *)
(* continuing without": an application that started has the connections its   *)
(* configuration requires; it is ready only if the cache, the store and the   *)
(* bus it hands out have their connections, whichever of them replaced        *)
(* another one and whichever connect was tolerated; and what the console and  *)
(* the CLI list as enabled, unless a level of it is missing, is in its slot   *)
(* or was replaced there by an enabled plugin that is built after it and      *)
(* fills the same slot - which may be one that no report names                *)
(* (ReplacedByListed).                                                        *)
ReportsTruthful ==
  stage = "built" =>
    /\ required \subseteq connected
    /\ Readyz => \A t \in HealthHandler.components \ {"RateLimiter"} : Check(Accessor(t))
    /\ \A p \in PluginsHandler \cap CollectEnabled :
         Wanted(p) => Accessor(SlotOf(p)) \in InPlaceOf(p)

(* Not kept by the code - "plugins_enabled": what is in the slot of a listed  *)
(* plugin is listed itself (store.mysql over store.postgres and script.js     *)
(* over script.wasm are not).                                                 *)
ReplacedByListed ==
  stage = "built" =>
    \A p \in PluginsHandler \cap CollectEnabled :
      Wanted(p) => Accessor(SlotOf(p)) \in PluginsHandler

(* Not kept by the code - the reports name every plugin that is enabled. *)
ReportsComplete == stage = "built" => enabled \ AlwaysOn \subseteq PluginsHandler
=============================================================================
