------------------------------- MODULE Startup -------------------------------
(***************************************************************************)
(* From a configuration to a running application and back: ConfigLoad      *)
(* gives the configuration, PluginRegistry builds by it and shuts down,    *)
(* PluginViews reports, and the watcher that config_watch starts polls     *)
(* the file.                                                               *)
(***************************************************************************)
EXTENDS ConfigLoad, PluginViews, ConfigWatch

CONSTANT Given    \* configurations handed to the builder: [on, required, path],
                  \*   the flags and the config_path they set

(* Its flags are those of built-in plugins; required counts for what is on. *)
ASSUME GivenAssumption ==
  \A g \in Given : g.on \subseteq Plugins /\ g.required \subseteq g.on \cap Requirable

VARIABLE config_path     \* RinfraConfig.config_path

startVars == <<loadVars, pluginVars, watchVars, config_path>>

(* The section of a plugin's flags. *)
SectionOf ==
  [p \in {"cache.memory", "cache.redis", "cache.multilevel", "store.postgres", "store.mysql",
          "store.sqlite", "ratelimit.memory", "ratelimit.redis", "crypto.file_key",
          "crypto.rotating_key", "crypto.aesgcm", "script.wasm", "script.python", "script.js",
          "file_store.local", "http_client", "lock", "timer.simple", "audit.file", "i18n",
          "config_watch"} |->
     CASE p = "cache.memory" -> <<"cache", "memory">>
       [] p = "cache.redis" -> <<"cache", "redis">>
       [] p = "cache.multilevel" -> <<"cache", "multilevel">>
       [] p = "store.postgres" -> <<"store", "postgres">>
       [] p = "store.mysql" -> <<"store", "mysql">>
       [] p = "store.sqlite" -> <<"store", "sqlite">>
       [] p = "ratelimit.memory" -> <<"ratelimit", "memory">>
       [] p = "ratelimit.redis" -> <<"ratelimit", "redis">>
       [] p = "crypto.file_key" -> <<"crypto", "file">>
       [] p = "crypto.rotating_key" -> <<"crypto", "rotating">>
       [] p = "crypto.aesgcm" -> <<"crypto", "aesgcm">>
       [] p = "script.wasm" -> <<"script", "wasm">>
       [] p = "script.python" -> <<"script", "python">>
       [] p = "script.js" -> <<"script", "js">>
       [] p = "file_store.local" -> <<"file_store">>
       [] p = "timer.simple" -> <<"timer">>
       [] p = "audit.file" -> <<"audit">>
       [] OTHER -> <<p>>]

Flag(p, f) == Append(Plugin(SectionOf[p]), f)

(* mq.backend *)
BusOf(c) ==
  LET b == c[Plugin(<<"mq", "backend">>)][2]
  IN  CASE b = "memory" -> {"mq.memory"}
        [] b = "nats" -> {"mq.nats"}
        [] b = "redis_streams" -> {"mq.redis_streams"}
        [] OTHER -> {}

EnabledBy(c) ==
  AlwaysOn \cup BusOf(c) \cup {p \in DOMAIN SectionOf : c[Flag(p, "enabled")] = Bool("true")}
RequiredBy(c) ==
  {p \in Requirable \cap EnabledBy(c) : c[Flag(p, "required")] = Bool("true")}

-----------------------------------------------------------------------------
StartInit ==
  /\ LoadInit /\ PluginInit /\ WatchInit
  /\ config_path = ""

(* The builder has the configuration: nothing is loaded. *)
UsesGiven(g) ==
  /\ load = "start" /\ asked = {} /\ source = "defaults"
  /\ load' = "used" /\ source' = "given"
  /\ config_path' = g.path
  /\ BuildBegins(AlwaysOn \cup g.on, g.required)
  /\ UNCHANGED <<file, asked, unmerged, tree, config, watchVars>>

(* build keeps the path to itself. *)
UsesLoaded ==
  /\ load = "loaded"
  /\ load' = "used"
  /\ config_path' = ""
  /\ BuildBegins(EnabledBy(config), RequiredBy(config))
  /\ file' = NoTree /\ asked' = {} /\ config' = NoTree
  /\ UNCHANGED <<source, unmerged, tree, watchVars>>

(* The build of config_watch starts the watcher, with the audit logger's      *)
(* handler when there is one.                                                 *)
Builds ==
  /\ BuildStep
  /\ IF /\ next' > next /\ stage = "building" /\ Current = "config_watch"
        /\ Wanted("config_watch")
       THEN /\ WatchStarts(config_path, IF Has("audit.file") THEN <<"log", "audit">>
                                                             ELSE <<"log">>)
            /\ UNCHANGED <<disk, told>>
       ELSE UNCHANGED watchVars
  /\ UNCHANGED <<loadVars, config_path>>

StartNext ==
  \/ LoadStep /\ UNCHANGED <<pluginVars, watchVars, config_path>>
  \/ \E g \in Given : UsesGiven(g)
  \/ UsesLoaded
  \/ Builds
  \/ ShutdownStep /\ UNCHANGED <<loadVars, watchVars, config_path>>
  \/ /\ config_path # "" \/ watcher.at = "spawned"
     /\ WatchStep /\ UNCHANGED <<loadVars, pluginVars, config_path>>

(* The runtime polls the watcher's task. *)
StartSpec ==
  StartInit /\ [][StartNext]_startVars
    /\ WF_startVars(WatcherStep /\ UNCHANGED <<loadVars, pluginVars, config_path>>)

-----------------------------------------------------------------------------
(* Not kept by the code - "Hot config reload": a server started on a file     *)
(* watches that file.                                                         *)
WatchesItsFile == source = "file" /\ watcher.at # "off" => watcher.path # ""
=============================================================================
