----------------------------- MODULE ConfigModel -----------------------------
(***************************************************************************)
(* RinfraConfig of rinfra-core/src/config/model.rs: its leaves, each with  *)
(* the type serde gives it and its default.  A path is the sequence of the *)
(* keys that lead to a node; a value is a pair of its JSON type and its    *)
(* text.  Nothing in the configuration is denied for being unknown.        *)
(***************************************************************************)
EXTENDS Integers, Sequences, TLC

(* Values *)
Obj == <<"object", "">>
Null == <<"null", "">>
Bool(b) == <<"bool", b>>
Num(n) == <<"number", n>>
Real(x) == <<"real", x>>
Str(s) == <<"string", s>>
Array(s) == <<"array", s>>
Required == <<"required", "">>      \* a field without a default

(* Fields: a Rust type with a default *)
Field(type, default) == [type |-> type, default |-> default]
Off == Field("bool", Bool("false"))
On == Field("bool", Bool("true"))
U32(n) == Field("u32", Num(n))
U64(n) == Field("u64", Num(n))       \* usize too
F64(x) == Field("f64", Real(x))
Text(s) == Field("String", Str(s))
OptText == Field("Option<String>", Null)
OptU64 == Field("Option<usize>", Null)
Texts(s) == Field("Vec", Array(s))
AnyValue == Field("Value", Null)

(* The fields of a struct at a path. *)
Section(at, fields) ==
  [p \in {Append(at, f) : f \in DOMAIN fields} |-> fields[p[Len(p)]]]

Plugin(s) == <<"plugins">> \o s

(* The fields of both; those of the first come first. *)
Joined(f, g) == [p \in DOMAIN f \cup DOMAIN g |-> IF p \in DOMAIN f THEN f[p] ELSE g[p]]

-----------------------------------------------------------------------------
AppConfig == Section(<<"app">>, [name |-> Text("rinfra-app"), version |-> Text("0.1.0")])

ShutdownConfig ==
  Section(<<"runtime", "shutdown">>,
          [grace_period_secs |-> U64("30"), component_timeout_secs |-> U64("10")])

ObservabilityConfigs ==
     Section(Plugin(<<"metrics">>), [enabled |-> Off, endpoint |-> Text("/metrics")])
  @@ Section(Plugin(<<"health">>), [enabled |-> On])
  @@ Section(Plugin(<<"telemetry">>),
             [enabled |-> Off, otlp_endpoint |-> Text("otlp"), sample_ratio |-> F64("1.0"),
              export_timeout_secs |-> U64("10")])

AdminPluginConfigs ==
     Section(Plugin(<<"admin">>), [enabled |-> On, static_dir |-> Text("dist")])
  @@ Section(Plugin(<<"admin", "auth">>),
             [enabled |-> Off, token_file |-> Text("data/admin_tokens.json"),
              root_token_env |-> Text("RINFRA_ROOT_TOKEN"), exclude_paths |-> Texts("health")])

ClusterPluginConfigs ==
  Section(Plugin(<<"cluster">>),
          [mode |-> Text("standalone"), role |-> Text("worker"), node_id |-> Text(""),
           main_address |-> Text(""), cluster_token |-> Text(""),
           ping_interval_secs |-> U64("10")])

CryptoPluginConfigs ==
     Section(Plugin(<<"crypto", "aesgcm">>),
             [enabled |-> Off, key_env_var |-> Text("RINFRA_CRYPTO_KEY")])
  @@ Section(Plugin(<<"crypto", "rotating">>),
             [enabled |-> Off, rotation_interval_secs |-> U64("86400"),
              max_key_versions |-> U32("5")])
  @@ Section(Plugin(<<"crypto", "file">>), [enabled |-> Off, path |-> Text("")])

RateLimitPluginConfigs ==
     Section(Plugin(<<"ratelimit", "memory">>),
             [enabled |-> Off, requests_per_second |-> U64("100"), burst_size |-> U64("200")])
  @@ Section(Plugin(<<"ratelimit", "redis">>),
             [enabled |-> Off, required |-> Off, url |-> Text("redis"),
              requests_per_second |-> U64("100"), burst_size |-> U64("200"),
              window_secs |-> U64("1")])

CachePluginConfigs ==
     Section(Plugin(<<"cache", "memory">>),
             [enabled |-> On, max_capacity |-> U64("10000"), ttl_secs |-> U64("300")])
  @@ Section(Plugin(<<"cache", "redis">>),
             [enabled |-> Off, required |-> Off, url |-> Text("redis")])
  @@ Section(Plugin(<<"cache", "multilevel">>),
             [enabled |-> Off, l1_max_capacity |-> U64("10000"), l1_ttl_secs |-> U64("60")])

StorePluginConfigs ==
  LET Sql == [enabled |-> Off, required |-> Off, max_connections |-> U32("10"),
              slow_query_threshold_ms |-> U64("200")]
      Server == Sql @@ [idle_timeout_secs |-> U64("300")]
  IN  Section(Plugin(<<"store", "postgres">>),
              Server @@ [url |-> Text("postgres"), migrations_path |-> OptText])
        @@ Section(Plugin(<<"store", "mysql">>), Server @@ [url |-> Text("mysql")])
        @@ Section(Plugin(<<"store", "sqlite">>), Sql @@ [path |-> Text("rinfra.db")])

MqBackend == {"memory", "nats", "redis_streams", "none"}
MqPluginConfigs ==
     Section(Plugin(<<"mq">>), [backend |-> Field("MqBackend", Str("memory"))])
  @@ Section(Plugin(<<"mq", "memory">>), [channel_capacity |-> U64("1024")])
  @@ Section(Plugin(<<"mq", "nats">>),
             [url |-> Text("nats"), stream_name |-> Text("rinfra"),
              consumer_group |-> Text("rinfra-workers"), max_reconnects |-> OptU64,
              connect_timeout_secs |-> U64("5")])
  @@ Section(Plugin(<<"mq", "redis_streams">>),
             [url |-> Text("redis"), group_name |-> Text("rinfra-workers"),
              consumer_name |-> Text("hostname"), max_len |-> OptU64,
              block_ms |-> U64("2000"), batch_size |-> U64("10")])

ScriptPluginConfigs ==
  LET Engine == [enabled |-> Off, timeout_secs |-> U64("30")]
  IN  Section(Plugin(<<"script", "wasm">>), Engine @@ [fuel_limit |-> U64("1000000")])
        @@ Section(Plugin(<<"script", "python">>), Engine @@ [venv_path |-> Text("")])
        @@ Section(Plugin(<<"script", "js">>), Engine @@ [max_heap_mb |-> U64("64")])

TimerPluginConfigs ==
     Section(Plugin(<<"timer">>), [enabled |-> Off, engine |-> Text("simple")])
  @@ Section(Plugin(<<"timer", "simple">>), [max_concurrent |-> U64("4")])

FileStorePluginConfigs ==
     Section(Plugin(<<"file_store">>), [enabled |-> Off, backend |-> Text("local")])
  @@ Section(Plugin(<<"file_store", "local">>), [root_dir |-> Text("data/files")])

HttpClientConfig ==
  Section(Plugin(<<"http_client">>),
          [enabled |-> Off, timeout_secs |-> U64("30"), user_agent |-> Text("rinfra/0.1.0"),
           max_retries |-> U32("0"), retry_delay_ms |-> U64("500")])

LockPluginConfigs ==
     Section(Plugin(<<"lock">>), [enabled |-> Off, backend |-> Text("memory")])
  @@ Section(Plugin(<<"lock", "redis">>),
             [url |-> Text("redis"), key_prefix |-> Text("rinfra:lock:")])

ConfigWatchConfig ==
  Section(Plugin(<<"config_watch">>), [enabled |-> Off, poll_interval_secs |-> U64("5")])

AuditPluginConfigs ==
     Section(Plugin(<<"audit">>), [enabled |-> Off, backend |-> Text("file")])
  @@ Section(Plugin(<<"audit", "file">>), [path |-> Text("logs/audit.jsonl")])

I18nConfig ==
  Section(Plugin(<<"i18n">>),
          [enabled |-> Off, dir |-> Text("i18n"), default_locale |-> Text("en")])

LogPluginConfigs ==
     Section(Plugin(<<"log", "stdout">>),
             [enabled |-> On, level |-> Text("info"), format |-> Text("pretty")])
  @@ Section(Plugin(<<"log", "file">>),
             [enabled |-> Off, path |-> Text("logs"), filename |-> Text("app.log"),
              rotation |-> Text("daily"), max_files |-> U32("7"), level |-> Text("info"),
              format |-> Text("json")])

(* The fields of PluginConfigs that are written out above, and its list. *)
Listeners == Plugin(<<"net", "listeners">>)
PluginConfigs ==
  ObservabilityConfigs @@ AdminPluginConfigs @@ ClusterPluginConfigs @@ CryptoPluginConfigs
    @@ RateLimitPluginConfigs @@ CachePluginConfigs @@ StorePluginConfigs @@ MqPluginConfigs
    @@ ScriptPluginConfigs @@ TimerPluginConfigs @@ FileStorePluginConfigs
    @@ HttpClientConfig @@ LockPluginConfigs @@ ConfigWatchConfig @@ AuditPluginConfigs
    @@ I18nConfig @@ LogPluginConfigs @@ (Listeners :> Texts("[]"))

RinfraConfig == AppConfig @@ ShutdownConfig @@ PluginConfigs @@ (<<"business">> :> AnyValue)

-----------------------------------------------------------------------------
(* A listener of the list: its options exist where the file gives them. *)

Item == Append(Listeners, "0")

MiddlewareConfig(at) ==
     Section(at \o <<"cors">>, [enabled |-> On, allow_origins |-> Texts("[*]")])
  @@ Section(at \o <<"request_id">>, [enabled |-> On])
  @@ Section(at \o <<"timeout">>, [enabled |-> On, timeout_secs |-> U64("30")])
  @@ Section(at \o <<"auth">>,
             [enabled |-> Off, jwt_secret_env |-> Text("RINFRA_JWT_SECRET"),
              exclude_paths |-> Texts("probes")])
  @@ Section(at \o <<"rate_limit">>, [enabled |-> Off, key_strategy |-> Text("ip")])

HttpListenerOptions(at) ==
  MiddlewareConfig(Append(at, "middleware"))
    @@ Section(Append(at, "ws"), [enabled |-> Off, ping_interval_secs |-> U64("30"),
                                  ping_timeout_secs |-> U64("10")])

TcpListenerOptions(at) ==
  Section(at, [codec |-> OptText, max_frame_size |-> U64("65536"), pipeline |-> Texts("[]")])

ListenerProtocol == {"http", "tcp", "grpc", "trpc"}
ListenerFields ==
  Section(Item, [name |-> Field("String", Required), bind |-> Field("String", Required),
                 protocol |-> Field("ListenerProtocol", Required)])
HttpOptions == HttpListenerOptions(Append(Item, "http"))
TcpOptions == TcpListenerOptions(Append(Item, "tcp"))
ListenerLeaves == DOMAIN ListenerFields \cup DOMAIN HttpOptions \cup DOMAIN TcpOptions

ListenerConfig(tree) ==
  LET HasOptions(o) == Append(Item, o) \in DOMAIN tree /\ tree[Append(Item, o)] = Obj
      None == [p \in {} |-> Off]
  IN  Joined(ListenerFields,
             Joined(IF HasOptions("http") THEN HttpOptions ELSE None,
                    IF HasOptions("tcp") THEN TcpOptions ELSE None))

(* The schema a tree is read by. *)
Schema(tree) ==
  IF Item \in DOMAIN tree THEN Joined(RinfraConfig, ListenerConfig(tree)) ELSE RinfraConfig

-----------------------------------------------------------------------------
Fits(type, v) ==
  CASE type = "bool" -> v[1] = "bool"
    [] type = "u32" -> v[1] = "number" /\ v[2] # "4294967296"
    [] type = "u64" -> v[1] = "number"
    [] type = "f64" -> v[1] \in {"number", "real"}
    [] type = "String" -> v[1] = "string"
    [] type = "Option<String>" -> v[1] \in {"string", "null"}
    [] type = "Option<usize>" -> v[1] \in {"number", "null"}
    [] type = "Vec" -> v[1] = "array"
    [] type = "MqBackend" -> v[1] = "string" /\ v[2] \in MqBackend
    [] type = "ListenerProtocol" -> v[1] = "string" /\ v[2] \in ListenerProtocol
    [] OTHER -> TRUE

Default == [p \in DOMAIN RinfraConfig |-> RinfraConfig[p].default]
=============================================================================
