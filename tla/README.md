# rinfra in TLA+

rinfra is a Rust framework for backend services. `rinfra-core` defines traits
and pure logic, `rinfra-plugins` implements them on tokio and starts the
application, `rinfra-admin` adds a management backend. This directory models
the parts of it that keep state and are used by several tasks or processes at
once, checks them with TLC on small instances, and proves the central ones with
TLAPS for every instance.

Paths below are relative to `src/`; `P/` is `rinfra-plugins/src/`, `C/` is
`rinfra-core/src/`, `A/` is `rinfra-admin/backend/src/`.

    tlc -workers 2 -config MCLock.cfg MCLock     a run
    tlapm Lock_proofs.tla                        a proof

`PROJECT.json` lists the components, the runs, the source lines of every
definition (`map`), a seeded defect for every property (`mutants`; the operators
commented "Defect" in the modules), the hazards and the theorems.

## 1. Inventory

### Parts that keep state and carry a protocol

| Component | State | Operations | What is hard | What makes it correct |
|---|---|---|---|---|
| Circuit breaker `C/resilience/circuit_breaker.rs` | status, two counters, time of the last failure, behind a mutex | `allow_request`, `record_success`, `record_failure`, `state`, `reset` | every caller asks, awaits, then reports: results arrive in a state other than the one that admitted the call | it trips and closes only on consecutive results, stays Open for its period, and does leave Open |
| Wrappers `P/resilience/mod.rs`, `C/resilience/retry.rs` | the loop of each call | `with_circuit_breaker`, `with_retry`, `with_retry_and_breaker`, `delay_for_attempt` | dropped futures, rejections that use up attempts, 64-bit delays | every call returns; delays follow the documented formula |
| HTTP client `P/http_client/reqwest_client.rs` | shared breaker, loop per request | `request` | the breaker is asked once, each attempt reports | a tripped breaker is overshot by a bounded number of attempts |
| In-memory lock `P/lock/memory.rs` | map of entries with expiry and token, one `Notify` | `try_acquire`, `acquire`, `release`, `extend` | lazy expiry, stale handles, missed notifications | a lease is honoured, one holder per key, `acquire` returns |
| Cluster `P/cluster/*.rs` | registry of nodes; a handler per connection; each worker's connection task, state and node list | register, ack, ping/pong, deregister, list nodes, reconnect with back-off | half-open links, restarts of both sides, old and new sessions of one node | the registry tells the truth about members; workers get back in; the token is needed |
| Timer `P/timer/simple.rs` | entries, loop per schedule, semaphore | `schedule`, `cancel`, `list_tasks`, `shutdown`, the loop | several nodes meet at the distributed lock; loops are aborted while they hold permits and locks | no permit is lost; handlers of a Cluster task overlap only because of faults; turns end |
| Message bus `P/mq/memory.rs` | senders and round-robin index per topic, bounded channels | `publish`, `subscribe`, `recv` | awaits a full channel with the mutexes held | fair distribution, no publish waits for ever |
| tRPC connection `P/rpc/trpc/*.rs` | pending table, id counter, write channel, read and write loop | `tell`, `ask`, `ask_timeout`; the server's loop | late answers, the end of the connection between insert and await | everyone gets the own answer, nobody waits in vain |
| WebSockets `P/net/ws.rs` | loop per socket, counter of open ones, `Notify` | open, message, ping, pong, close, drain | counter and notification are separate steps; deadlines race pongs and the shutdown | the counter is exact, dead peers are closed, the drain ends although a peer does not read |
| Plugins `C/plugin/*.rs`, `P/plugin/builtin.rs`, `C/appstate.rs`, `P/health` | list, type map of components, shutdown hooks, health checkers | `build_all`, each `build`, `shutdown_all`, the accessors and reports | order of builds, tolerated failures, hooks that fail, a component that replaces another | components work with what `AppState` hands out, readiness tells the truth, the stop closes in reverse |
| Configuration `C/config/model.rs`, `P/config/mod.rs` | a JSON tree | load, override from the environment, deserialise | overrides come in no order, beside, inside and above each other | each leaf has the value that was asked for |
| Config watch `P/config_watch/*.rs` | modification time last seen, handlers | start, poll, reload, stop | the file is edited between the look at its time and the read of its content | what was written reaches the handlers |
| Runtime `P/runtime/mod.rs`, gRPC start `P/rpc/grpc.rs`, HTTP start `P/net/http.rs` | shutdown token, listeners, hooks | `run`: cluster, plugins, listeners, signal, drain, `graceful_shutdown` | a signal at any moment of the start; hooks that fail or hang | listeners and connections obey the signal, `run` returns |
| TCP server `P/net/tcp.rs`, `C/net/tcp.rs`, `C/net/transform.rs` | connection counter, loop per connection, middlewares, pipeline | accept, connect, inbound, handle, outbound, disconnect | a middleware or the handler refuses half way | the counter is exact, every frame passes every filter in order |
| HTTP middleware `P/net/middleware/*.rs`, `C/net/middleware.rs` | stack of layers | one request through the layers and back | answers made by an inner or the outermost layer; the timeout drops whatever is inside; the log fails | an answer is audited or its loss is warned of |
| Rate limiter `P/ratelimit/*.rs` | token bucket, or a counter per window in Redis | `check` | window read before INCR; INCR and EXPIRE are two commands | no more requests pass than the limit allows |
| Cache `P/cache/*.rs` | memory level, Redis level | get with back-fill, set, delete | back-fill racing a write; one of two writes fails or is dropped | a stale level does not stay stale |
| Store `P/store/*.rs`, `C/store/*.rs` | pool behind an RwLock, transactions | execute, begin, commit, health check, disconnect; query specifications | disconnect waits for connections under the write guard | transactions are all or nothing, disconnect returns, placeholders match |
| Script engines `P/script/*.rs` | one worker process behind a mutex | `execute` | an answer that comes after its call was dropped, scripts that write to the pipe themselves, timeouts, deaths | a call gets the output of its own script |
| Redis lock `P/lock/redis_lock.rs`, NATS and Redis Streams `P/mq/{nats,redis_streams}.rs` | keys with expiry; streams, groups, pending entries | `SET NX PX`, scripts; publish, read, ack | replies lost after the effect, readers that die with a batch | the promises of the in-memory ones, as far as the broker allows |
| Admin backend `A/auth/*.rs`, `A/routes.rs`, client `P/cli/*.rs` | token list and its file | bootstrap, create, rotate, delete, verify; the routes | persist takes its snapshot under the lock and writes without it; crashes | what was answered is in the file, and the next start has its auth |

### Parts without a protocol of their own

The cluster codec, key rotation and ciphers, the file store, codecs and
compression, logging, metrics and telemetry, the derive macro, the admin
frontend, SDKs and examples: stateless, formatting, I/O or generated code.
`PROJECT.json` gives the reason for each, and for each part that is modelled
partly what is left out of it.

### How components interact

- The **runtime** builds the plugins in list order; a build takes what it needs
  from the type map (`PluginContext`) and leaves its own component and a
  shutdown hook there. One `CancellationToken` reaches every server, socket and
  the cluster tasks; then the WebSocket drain and the hooks follow.
- The **timer** takes the distributed lock from the context: SimpleTimer uses
  LeaseLock, the abstract specification that InMemoryLock is shown to implement.
- The **wrappers** and the **HTTP client** may share one circuit breaker
  (`with_circuit_breaker` takes an Arc): HttpClient extends ResilientCall, which
  extends CircuitBreaker.
- **Configuration**, plugins and config watch meet at startup (Startup); the
  flags of the configuration decide what is built, and the built watcher polls
  the file the configuration came from, or does not (observation 16).
- An HTTP **request** passes the middleware stack and uses limiter, cache, store
  and script engine from its handler; the timeout layer and a client that leaves
  drop its future at whatever await it has come to (HttpPipeline).
- **Workers** reach the main node over TCP frames that are lost with the
  connection, never reordered within it.

## 2. Modules

Every action is one stretch of code between two awaits (or two acquisitions of
a lock), with its early returns as guards or as actions of their own. Data that
no property tells apart is left out: payloads, messages, metrics, log lines.

**CircuitBreaker** is the `InternalState` as a record and each method as an
operator on it (`MaybeTransitionHalfOpen`, `AllowRequest`, `RecordSuccess`,
`RecordFailure`, `Reset`). Time is `elapsed`, the whole seconds since
`last_failure_at`, which the code compares as `elapsed().as_secs()`; it saturates
at `OpenDuration`, beyond which the code cannot tell two values apart.

**ResilientCall** has one `pc` per task. `Admit`/`Reject` are the first lock of
the mutex, `Succeed`/`Fail` the end of the operation, `ReportFailure` and
`ReadNewState` the second and third lock, each of which may also move the breaker
to HalfOpen; `Drop` is a future dropped at an await. `failRun`, `okRun` and
`tripAge` are history variables for the properties. `DelayForAttempt` is
`delay_for_attempt` in words of `Width` bits.

**HttpClient** is `ReqwestHttpClient::request` beside the callers of
ResilientCall, with the same breaker: admission once, then `Response`,
`AttemptError` and `Resend`. `Attempts` is `max_retries + 1` in u32. `max_attempts = 0`
makes no attempt and is answered at once (`BeginCall` is not enabled).

**LeaseLock** is the promise of the `DistributedLock` trait: a key has one holder
and changes hands only through being free. **InMemoryLock** is the
implementation; `acquire` is a loop over `AcquireGranted`, `AcquireRefused`,
`AcquireTimedOut`, `AcquireWait`, `WakeAtDeadline`, so a release can fall
between the refusal and the creation of the `Notified` future. `handle[c].lease`
is the time the client may believe to hold the lock. The refinement maps
LeaseLock's `owner` to the client with a lease left. **RedisLock** extends it
with the other backend: a command is executed at once, its answer comes after
steps of others or not at all, or fails before it is executed (`RedisCallFails` for
`release` and `extend`), and the entries expire on the server's clock. One
specification chooses the backend at the start, so both are shown to implement
LeaseLock.

**ClusterMembership** composes server, registry and workers. A connection is a
slot with two ends, the frames under way in each direction and a `cut` flag (a
host or network failure neither end is told of). `acked` and `leaving` separate
the two steps the server takes when it registers a node and when it sets it
Offline. Workers go through `connect_once`, `run_loop` and `message_loop`.
Durations are left out: an armed timer may fire at any time.

**SimpleTimer** has the loops of all nodes: `Plan`, `Fire`, `TakePermit`,
`LockGranted` / `LockRefused` / `LockError`, `Start`, `HandlerReturns`,
`HandlerPanics`, `Release`, `Record`, and `Die` for an aborted task. A panic ends
the task with its permit dropped, its lock left to the time to live and its entry
shown as Running. `Schedule` and `Insert` are
two steps because the loop is spawned before the entry exists. Time counts the
trigger instants.

**InMemoryBus** counts messages in bounded channels. The two mutexes are always
taken in the same order, the second only under the first, so they are one lock
(`bus`). `share` is the history that states fairness of the round robin.
**BrokerBus** extends it with the buses that have a broker: a work queue of
JetStream with redelivery, and a Redis stream with one group, its pending entries,
batches and trimming. Readers die, receivers close, acks and replies are lost. The
task `subscribe` spawned may end with its receiver open (`NatsStreamEnds`: its
`tx` is dropped, so `recv` yields what is in the channel and then None), and the
group may go with its stream (`GroupDisappears`), which `ensure_group` does not make
again in a process that remembers it.

**TrpcConnection** has callers, the write channel, both loops of the client, the
two directions of the wire and the server's loop. A frame carries the request it
stands for, so that an answer can be compared with the question.

**WsServer** is `handle_socket`, `WsTracker` and `drain_ws_connections`, with
discrete time shared by all sockets (`age` since the last pong, `until` the next
ping, `due` ticks to be made up for). A send is a step of
its own (`SendPing` ... `PingSent`, `SendEnds`): it returns when the peer has read
enough or is gone, and a peer that lives and does not read leaves it `stuck`
(`PeerStops`), outside the `select!` that hears the signal.

**ShutdownToken**, **TcpServer**, **Application**. TcpServer is the accept loop
and `handle_tcp_connection`: middlewares in their order, the pipeline of byte
transforms (a payload is the sequence of transforms around it), the counter; its
send waits for the peer as the sockets' does (`Send`, `SendReturns`, `ReaderStops`).
`Middlewares` is what the stable `sort_by_key` makes of the registration: the place
of a middleware is the number of those that are not behind it.
Application extends WsServer and TcpServer with `run`: cluster setup, build,
binding of the listeners, signal, drain and hooks. A load says which listeners,
connections and components a behaviour has.

**PluginRegistry** is the list of built-in plugins, the slots of the type map,
`wired` (what a build took from a slot), failing connects, and `shutdown_all`
with hooks that fail. **PluginViews** adds the accessors, the readiness route and
the reports of console and command line. **ConfigModel** is the schema of
`RinfraConfig` (path, type, default of every leaf), **ConfigLoad** the loader and
`merge_env_into_value` over trees that are functions from paths to values (names of
variables that differ in case have one path, and the one merged last wins),
**ConfigWatch** the polling task; a file that is read half written is an error or
parses as a configuration whose missing fields have their defaults. **Startup** composes the four.

**AdminConsole** has a task per request: layer, handler, persist, answer. A persist
takes its snapshot, opens the temporary file it shares with every other persist and
thereby truncates it (`OpensTmp`), writes it (`WritesTmp`; text of another may
remain behind its own) and renames it (`Renames`), under the hands of those that
still have it open. A start loads the file (`Loads`) or, when it cannot be read or
parsed, goes on without auth (`LoadFails`). `known` is what administrators were
told; `granted`, `revoked`, `overlapped` (two persists have overlapped and none has
run alone since) and `failed` are the histories for the properties.

**RateLimiter**, **MultilevelCache**, **StorePool**, **WhereClause** and
**ScriptWorker** are what a handler uses, each with the steps between two awaits
and an operator for a future dropped there (`CheckDropped`, `CacheDropped`,
`StoreDropped`, `ExecDropped`). In WhereClause the specifications lie in levels, each
made of those below it, as boxes do. **HttpPipeline** extends all five: `BuiltinHttpMiddlewares`
and `Order` give the stack, `Answers` sends an answer outwards from the layer that
made it, `TimesOut` and `ClientLeaves` drop what is inside. A preflight request is
answered by the CORS layer itself (`Preflight`), and a log that fails only warns
(`Audits`). In ScriptWorker the pipes hold the lines of calls, of a call joined to a
cut line (`Invalid`), of scripts and their processes that write to stdout past the
capture (`StrayLine`: one that parses is taken for an answer; `StrayText`: a text
without an end of line spoils the next). `work` says which kind
of handler a behaviour has; handlers of different kinds share no state.

The `MC*` modules extend these for TLC and define symmetry sets and the values of
constants. The `*_proofs` modules extend these with their
theorems (section 5).

## 3. Runs

| Run | Checks | Bounds |
|---|---|---|
| resilient_call | CountersMatchStatus, DelayMatchesFormula, OvershootBounded, TripsOnConsecutiveFailures, ClosesOnConsecutiveSuccesses, CoolsDown, CallsRecover | 2 callers of the wrappers and 1 HTTP client on one breaker, thresholds 3 and 2, period 2 s, 4 attempts, 2 retries, 2-bit words |
| lock_backends | LeaseHonoured, MutualExclusion, ImplementsLeaseLock, AcquireReturns, OrphanExpires | both backends, 2 clients, 1 key, ttl up to 2 s, wait 1 s, 5 tokens |
| cluster_membership | MembersGenuine, GoneIsNoticed, WorkerReconnects | a trusted and an untrusted worker, 2 connection slots, 2 faults, 1 missed pong, 1 frame per direction |
| cluster_stale_offline (violation) | ActiveConnectionIsOnline | 1 worker, no fault |
| simple_timer | LoopsAccounted, SingleRunner, TurnEnds | 2 nodes, a recurring and a one-shot task, 2 loops, 1 permit, 1 trigger, 1 fault |
| bus_backends | Distributed, PublishReturns, PublishedReceived | three buses; 2 topics, 2 publishers, 2 subscribers in memory; 2 messages, 2 readers, batches of 2, trimming at 1, 1 fault with a broker; capacity 1 |
| trpc_connection | AnswersReach | 2 callers, 2 asks each, 3 ids, capacity 1 |
| trpc_ask_hangs (violation) | AskReturns | 1 caller, 1 ask |
| startup | ConfigAsAsked, IntegrationsWired, ReportsTruthful, StopCloses, ReloadReaches | 7 files, every set of 5 variables and 5 sets of awkward ones, 10 flags both ways with every choice of required connections, every choice of stores and of scripts that share a slot, 2 edits |
| application | ConnectionsCounted, FilteredBothWays, ConnectionsClose, ShutdownCompletes | three loads: 2 WebSockets; 2 TCP connections with 2 middlewares and 2 transforms; all listeners with a request and 2 components |
| admin_console | AnsweredSurvives, AuthHolds | 2 requests at a time, 3 tokens, 1 crash, failing read or failing write |
| http_pipeline | LimitsHold, AllOrNothing, AnswersAudited, PlaceholdersMatch, OutputsMatched, StaleEnds, DisconnectReturns | six kinds of handlers, 1 to 3 requests each, burst, rate and window 1, 3 s, 2 connections, 2 writes, 1 failure, 1 death, 1 stray line, 1 or 2 origins |

A property that joins several (`MembersGenuine`, `LoopsAccounted`,
`Distributed`, `AnswersReach`, `CallsRecover`, `ConnectionsCounted`,
`ConnectionsClose`, `ShutdownCompletes`, `LimitsHold`) is the conjunction of named
parts, each with its own comment in the module. The type invariants are proved
(section 5) where a module has proofs.

Why the bounds are enough:

- *resilient_call*: the third failure in a row trips the breaker and the second
  success closes it, so both counters pass through an intermediate value in
  which the others can interfere; two callers are enough for a report to arrive
  in a foreign state, and the client adds attempts that nobody admitted. With
  words of 2 bits, the products overflow at the second attempt and the shift
  leaves the word at the third, so all three arms of `delay_for_attempt` occur
  for every base and cap.
- *lock_backends*: two seconds make an expired, a just expiring and a healthy
  entry distinguishable; with two clients one stale handle meets one fresh
  holder; five tokens are one more than one entry, two handles and one other
  client's command can mention, so a grant never lacks one. One key is the
  contended case; keys share only the `Notify`, and a wake-up meant for another
  key just makes a waiter try again.
- *cluster_membership*: two slots hold an old and a new session of a worker, and
  the untrusted worker competes for them. Two faults give a cut followed by a
  crash or a restart.
- *simple_timer*: two loops meet on one node (permit) or on two (lock). One
  trigger is where they compete; a recurring loop's next turn begins at
  `planning` as the first one did.
- *bus_backends*: two subscribers make the index wrap, shrink and grow again;
  capacity 1 makes every second send wait. A batch of two is interrupted between
  its entries by the death of its reader, while the other reader goes on.
- *startup*: the variables lie beside, inside and above each other and above what
  the files set, so every branch of `set_nested` meets an object, a leaf, a list
  and nothing. The flags that are not varied neither look into a slot nor
  connect; four of them are varied with the watcher's path.
- *application*: WebSockets, TCP connections and the rest share only the token
  and the counters each of them keeps, so each load has one of them in detail and
  the last the listeners with everything `run` does. With one unit for interval
  and deadline, pong, deadline and shutdown are all ready at once.
- *admin_console*: two requests make two snapshots of different age; the crash
  falls between any two steps of either, the truncation of the temporary file
  included, or into the bootstrap. One fault is enough, since what a start finds
  depends on the file alone.
- *http_pipeline*: two requests interleave at every await of limiter, cache and
  store, a third one is there where the first two make something that outlives
  them (a full bucket, an answer left in the pipe). Specifications are nested two
  deep on either side, with conditions of one, two and three values, where an
  offset first differs from a count.

`CHECK_DEADLOCK FALSE` appears where the model may really come to rest: workers
stopped and failed, all loops used, the asks used up, sockets closed, the
application stopped, the requests of a run answered. The locks and the breaker
never rest and are checked for deadlock.

### Fairness

Weak fairness of a step says that the runtime polls a task that is ready and
that timers fire: tokio's scheduler does so. It is never assumed that a peer
answers, that a client releases a lock, or that a link is cut. In particular:

- ResilientCall, HttpClient: time passes, tasks go on calling (the breaker
  leaves Open only when someone asks, so a service nobody calls stays Open), and
  an awaited operation ends, fails or is dropped.
- InMemoryLock, RedisLock: time passes and `acquire` goes on at its deadline and
  when it is woken; a Redis call ends, with an answer or an error.
- ClusterMembership: a worker writes to its connection at every ping interval and
  so learns of a cut link; the server is not relied on to learn of it except by
  missed pongs. A main node that was stopped is started again.
- SimpleTimer, InMemoryBus: strong fairness for the semaphore and the mutex
  stands for tokio's FIFO queues of waiters. Handlers return or panic and consumers go on
  receiving; a consumer that stops without dropping its receiver does block
  every publisher of the bus.
- BrokerBus: readers go on reading and receivers receiving, and JetStream
  redelivers what was not acknowledged in time. Nothing claims pending entries of
  a Redis group, so nothing is assumed of them.
- WsServer: strong fairness for branches of `select!`, which chooses at random
  among those that are ready. A send returns unless its peer has stopped reading: a
  `stuck` one is not assumed to go on, and only a peer that is gone ends it.
  TcpServer and Application: the same of a send; a connection whose middleware or
  handler is ready goes on, `run` goes on, and the drain's timeout
  and the hooks' timeouts fire, so a hook that hangs does not hold `run`.
- ConfigWatch: the interval of the watcher ticks.
- HttpPipeline: the timeout of the layer fires, the audit log answers or fails, the
  time to live of the memory cache passes, a disconnect that can go on does, and a
  health check ends, with an answer of the driver or by the pool's acquire timeout.
  Handlers, limiters, caches and the statements of handlers are not assumed to end:
  `DisconnectReturns` rests on the timeout layer for requests and on the driver for
  the health check, which no layer is around.

## 4. Findings

Where a doc, comment or message of the repository says something the code does
not do, the statement is a definition of the module. Two are runs:

- **cluster_stale_offline**: the handler of an earlier connection sets its node
  Offline after the node has registered on a new one (`P/cluster/server.rs:176`).
  `connect_once` opens a connection that is dropped just before `run_loop`
  opens the next, so every start of a worker runs this race.
- **trpc_ask_hangs**: an `ask` made after the read loop drained the pending
  table is accepted and never answered (`P/rpc/trpc/client.rs:99`).

The others are observations. Those with a definition are commented "Not kept by
the code" in the modules; adding the definition to the cfg of the component's
run (as an invariant, or under PROPERTIES for 3 and 4) shows the behaviour.

1. `HalfOpenLimitsProbes` (ResilientCall, with three callers): HalfOpen admits
   every caller (`C/resilience/circuit_breaker.rs:92`); line 13 says "limited
   requests allowed".
2. `AckedIsListed` (ClusterMembership): the ack is sent before the node is
   registered (`P/cluster/server.rs:225`), so a worker may not find itself in the
   list it asks for.
3. `ShutdownStopsAll` (SimpleTimer): a task scheduled again under its id replaces
   the entry without aborting its loop (`P/timer/simple.rs:98`), which no cancel
   or shutdown reaches any more; `C/timer/mod.rs:164` says "Gracefully stop all
   running timers".
4. `OpenSendsNothing` (HttpClient): retries go on after the breaker tripped
   (`P/http_client/reqwest_client.rs:71`); `OvershootBounded` says how many.
5. `LoopExecuted` (HttpClient, with `MaxRetries = 3`): `max_retries = u32::MAX`
   wraps to no attempt in a release build, and `expect("retry loop executed at
   least once")` panics (`P/http_client/reqwest_client.rs:59`); a debug build
   panics at the addition.
6. `WaitsForOpen` (WsServer): the last socket may close between the check of the
   counter and the creation of the `Notified` future (`P/net/ws.rs:48`): the drain
   then waits for the whole grace period with nothing open.
7. The pong deadline is measured from the last pong, not from the ping
   (`P/net/ws.rs:126`): after a quiet `ping_interval_secs` the configured
   `ping_timeout_secs` ("Time to wait for pong before closing") has partly or
   wholly passed before the ping is sent, and the tick after it closes.
8. `ContinuesWithout` (PluginRegistry): when Redis is optional and its connect
   fails, the unconnected cache still replaces the memory cache
   (`P/plugin/builtin.rs:133`), although the log says "continuing without redis".
9. The notification of one socket's close may come when a newer socket is open
   (`P/net/ws.rs:36`): the drain ends early.
10. The multilevel cache does not look at `redis.required`
    (`P/plugin/builtin.rs:192`).
11. `shutdown_all` returns at the first hook that fails or times out
    (`C/plugin/registry.rs:72`) and drops the remaining ones; `StopCloses` states
    what is closed all the same.
12. `register_raw` calls `blocking_write` (`P/rpc/trpc/handler.rs:48`), which
    panics inside an async task.
13. A zero period panics `tokio::time::interval` (`P/cluster/server.rs:112`,
    `P/net/ws.rs`), a zero capacity `mpsc::channel` (`P/mq/memory.rs`); the models
    assume positive ones.
14. `OneNodePerTrigger` (SimpleTimer): the lock of a Cluster task is released as
    soon as its handler returns, so a node that is a little later runs the same
    trigger again (`P/timer/simple.rs:239`); `C/timer/mod.rs:39` says "Only one
    node in the cluster executes this task per trigger".
15. `grace_period_secs` bounds the WebSocket drain only (`P/runtime/mod.rs:745`)
    and every hook has a deadline of its own after it; `docs/configuration.md:43`
    calls it the "Total graceful shutdown timeout".
16. `WatchesItsFile` (Startup): `ApplicationBuilder::build` never sets
    `config.config_path` (`P/runtime/mod.rs:622`; the CLI's `load_config` does), so
    the watcher of a server polls the empty path. Besides, a reload does not apply
    the environment, an edit between the load and the watcher's first look is
    missed, and a watcher that was stopped does not run when started again.
17. `BusinessReachable` (ConfigLoad): a variable below a null or scalar node is
    counted and ignored (`P/config/mod.rs:85`). A text that looks like a number
    (`RINFRA_APP__NAME=7`) makes the load of a file fail, and without a file
    silently undoes all overrides; elements of lists cannot be overridden; an
    empty file is an error.
18. `ReportsComplete` (PluginViews): the console's and the command line's lists
    omit plugins that are enabled, and `health_handler` answers "healthy"
    whatever the checkers say (`A/routes.rs:74`).
19. `AtLeastOnce` (BrokerBus, `C/mq/mod.rs:86` "at-least-once semantics"): entries
    that an XREADGROUP delivered in a lost reply, or to a reader that ended, stay
    pending and nobody claims them (`P/mq/redis_streams.rs:172`); MAXLEN trims
    entries nobody has read; a group that disappeared is waited for and never
    created again (line 200): `ReceiversFed`, as for a NATS consumer whose stream of
    messages fails or ends after `subscribe` returned Ok (`P/mq/nats.rs:142`).
    `PublishedReceived` therefore asks for a receiver whose task still runs. NatsBus
    keeps every message that is not acknowledged
    in `ack_map`.
20. `EveryConnectionCloses` (Application): a peer that lives and does not read holds a
    send, and with it its connection, past the shutdown (`P/net/tcp.rs:244`,
    `P/net/ws.rs:122`, `128`, `131`, `150`); `run` returns all the same.
    `ConnectIsPaired` (TcpServer): middlewares that accepted a connection that a
    later one or the handler refuses are not told of its end (`P/net/tcp.rs:144`).
    `ServedByOpenComponents`, `ReturnsClosed` (Application): `run` does not wait for
    requests before it calls the hooks, and a build that fails leaves what was
    built before it.
21. `FileIsCurrent`, `RootReachable`, `OneRoot`, `NeverOpen` (AdminConsole): two
    persists may rename in the other order than they took their snapshots, which can
    bring a deleted token back at the next start; they share one temporary name
    (`A/auth/store.rs:210`), so that one may install what the other has just
    truncated, and a crash then leaves a file that does not parse, from which the
    next start runs without auth (`A/lib.rs:91`; "Persist tokens to file
    atomically"); a crash between the persist of the root token and its answer
    leaves a store whose root nobody knows; two rotations at once leave two roots.
    `AnsweredSurvives` and `AuthHolds` therefore speak of persists that run alone.
22. When the bootstrap of the tokens fails, the API is served without the layer.
    The CLI sends the cluster token, which the layer does not know
    (`P/cli/client.rs:43`), and takes the cluster's TCP address for an HTTP one.
    `cache_flush_handler` flushes nothing (`A/routes.rs:326`). `query` of the audit
    file stops at the limit, so it returns the oldest events.
23. `TimeoutMeansNothingDone` (HttpPipeline): a request that is dropped while its
    COMMIT is under way is answered 503 and may have committed
    (`P/store/transaction.rs:73`). `AnswersInLog`: an answer whose record cannot be
    written goes out all the same (`P/net/middleware/audit.rs:53`), and a preflight
    request is answered outside the audit layer.
24. `ErrorsTranslated` (HttpPipeline): the i18n layer is the innermost, so the
    errors of the other layers do not pass it. The "ip" key of the rate limit needs
    `ConnectInfo`, which the server does not provide: all clients share "unknown"
    (`P/net/middleware/ratelimit.rs:68`).
25. `RepositoryWorks` (StorePool): `GenericRepository` renders `$n` and RETURNING,
    which MySQL does not accept (`P/store/generic_repo.rs:13`). `InSpec` of an
    empty list renders `IN ()`. `MemoryCache::set_with_ttl` ignores its argument
    (`P/cache/memory.rs:42`), so the two levels of `LevelsAgree` (MultilevelCache)
    differ until the memory level's own time to live ends. `CountersExpire`
    (RateLimiter): a counter whose EXPIRE failed stays in Redis for ever.
26. `OutputIsMine` (ScriptWorker): a call that is dropped while it reads leaves its
    answer in the pipe, and lines carry no id, so the next calls get the output of
    the call before (`P/script/subprocess.rs:121`; line 82: "Send a script to the
    worker and wait for the result"). A callback
    that outlives its script, or a process a script started, writes to the same pipe
    (`P/script/workers/node_worker.js:34`), and a line such as `1` is taken for an
    answer; what such a callback writes while a later script is captured becomes part
    of that one's result. `OutputsMatched` says that nothing else shifts the answers
    and that a timeout or an error puts them right again.
27. `RunningIsAlive` (SimpleTimer): a handler that panics ends its loop and leaves
    its entry Running for ever (`P/timer/simple.rs:229`).
28. `ReplacedByListed` (PluginViews): with two stores or two script engines enabled
    that share a slot, `AppState` hands out the later one, which the console's list
    does not name (`A/routes.rs:119`, `192`). `NeverTorn` (ConfigWatch): a file read
    while it is written may parse, every field having a default, and its half goes to
    the handlers (`P/config_watch/file_watcher.rs:93`).

## 5. Proofs

TLC shows a property on the instances of section 3, the theorems show it for every
value of the constants: any number of callers, clients, workers, requests, tokens,
frames and faults. Each proof module extends the specification the run checks, with
everything composed in it, and finds an inductive invariant: it holds initially,
every action preserves it (a lemma per action or kind of action) and it implies
the properties. The invariants were checked with TLC on the instances of the runs
before they were proved. Every assumption is an ASSUME of the module that declares
the constants, and TLC evaluates it.

| Module | Specification | Assumptions | Inductive invariant | Properties |
|---|---|---|---|---|
| Lock_proofs | InMemoryLock `Spec`, RedisLock `LockSpec` | LockAssumption | `IInv`, `RInv` | LeaseHonoured, MutualExclusion, ImplementsLeaseLock |
| ResilientCall_proofs | HttpClient `ClientSpec` | BreakerConfigAssumption, CallAssumption, WidthAssumption, ClientAssumption | `IInv`, `LoopInv` | CountersMatchStatus, TripsOnConsecutiveFailures, ClosesOnConsecutiveSuccesses, CoolsDown, DelayMatchesFormula, OvershootBounded |
| ClusterMembership_proofs | `Spec` | ClusterAssumption | `ClusterInv` | MembersGenuine |
| AdminConsole_proofs | `AdminSpec` | AdminAssumption | `AdminInv` | AnsweredSurvives, AuthHolds |
| Network_proofs | TrpcConnection `Spec`, Application `AppSpec` | TrpcAssumption, WsAssumption, TcpAssumption | `TrpcInv`, `SocketInv`, `TcpInv` | AnswersReach, ConnectionsCounted, FilteredBothWays |
| SimpleTimer_proofs | `Spec` | TimerAssumption | `TInv` | LoopsAccounted, SingleRunner |
| Startup_proofs | `StartSpec` | EmptyAssumption, GivenAssumption, EnvsAssumption, SchemaAssumption | `StartInv`, `LoadInv`, `WatchInv` | IntegrationsWired, ReportsTruthful, StopCloses, ConfigAsAsked, NeverOlder |
| Services_proofs | HttpPipeline `HttpSpec`, BrokerBus `BusSpec` | PipelineAssumption, ScriptAssumption, LimiterAssumption, LevelsAssumption, BusAssumption, BrokerAssumption | `StoreInv`, `ScriptInv`, `LimiterInv`, `AnswerInv`, `SqlInv`, `MemInv`, `OnceInv` | AllOrNothing, OutputsMatched, LimitsHold, AnswersAudited, PlaceholdersMatch, Distributed |

The assumptions say that bounds, thresholds and periods are natural numbers (zero
included where the configuration allows it), that the values standing for "none"
are none of the things they are told apart from, and that sets whose members are
counted (loops of the timer, HTTP clients, subscribers, connections) are finite.
`GivenAssumption` says that a configuration names built-in plugins and that
`required` counts for what is enabled, as `RequiredBy` does for a loaded one;
`EnvsAssumption` that the path of a variable is a sequence of names;
`LevelsAssumption` that a specification combines those of lower levels, as a value
of a recursive type does; `TcpAssumption` that middlewares have integer orders and
that no transform is called "failed", the model's name for a payload that none
decoded. `SchemaAssumption` has no constant in it: it states facts of the fixed
configuration schema that TLC evaluates and the provers cannot (no leaf lies above
another, every default fits its leaf, only `business` takes an object).

The library's induction theorems take an operator as a parameter, which the provers
cannot instantiate. Where a proof goes along a sequence, a pipeline or the depth of a
term, it takes the least counterexample in a set of naturals instead and
refutes it (`LeastElement`, `LeastOne`).

**Lock_proofs.** `LeaseHonoured` alone is not inductive: a stale handle with the
token of a fresh entry could release it. `TokensUnique` says that two handles never
carry the same token; a grant draws one that nothing mentions. With Redis the
answers under way count as well: `AnswersHonoured` (what an answer will tell its
client about time left is true of the server's entry), `AnswersUnique` and
`ExtendsOwn`. `MutualExclusion` follows, because two leases on one key would match
one entry with two tokens. `LockImplementsLease` is the refinement: initial states
map to initial states of LeaseLock, and each step to a grant, a loss or a stutter
of it (`HandleSteps`, `OwnerStep`).

**ResilientCall_proofs.** `CountersMatchStatus` is not inductive: after a success in
HalfOpen nothing in it says why the counter is what it is, and nothing relates
`elapsed` to the trip. `Core` is `BreakerInv(cb)`, a property of the breaker's record
that every method preserves, and `History`, which ties the counters to the recorded
runs of results and the age of the failure to the age of the trip: the last failure
is never older than the trip, so a period counted from the failure covers one
counted from the trip. `Control` bounds the attempts. The action properties say what
a step that trips, closes or admits implies. The HTTP clients report to the same
breaker, so each of their steps is a step of the wrappers' breaker (`ClientFrame`).
`DelayMatchesFormula` compares the delay as computed, with its checked shift and its
saturating product on words of `Width` bits, with the capped product of the comment.
The provers know no powers, but they know that a set of n elements has 2^n subsets,
and so powers grow (`PowersGrow`); where the shift or the product does not fit, the
cap is below both (`DelayExact`).
`CoolsDown` says of an admission, of a caller or of a request, that `tripAge` has come
to the period. For `OvershootBounded`, `LoopInv` counts: attempts sent since the trip and retries
that requests under way have left are together at most `max_retries` per client; a
trip starts the count again and a resend moves one from the second to the first.

**ClusterMembership_proofs.** `MembersGenuine` speaks of registry and workers; the
invariant has to follow the token through the connections. Each slot by itself is
`Sound`: without the token no handler past registration and no RegisterAck under
way. `Owned` says that a worker holds the client end of the connection it is at and
no other, `LoopEntered` that message_loop is entered with a RegisterAck only,
`Listed` and `OnlineIsServed` what the registry holds.

**AdminConsole_proofs.** Between persist's snapshot and its rename the records of an
answered request are in the store, in the file and in the snapshots under way, any
of which may become the file. `Answers` says that what was answered holds in the
store, in a file no overlapping persists have touched and in the snapshot of a
persist that runs alone; `Effects` says the same of what a request has persisted and
not yet answered, as far as nobody has deleted it since. `LoneFile` says what a
persist that runs alone finds in the temporary file at each of its steps, truncation
and write included, and `AloneIsAlone` that one which counts as alone is;
`Phases` ties the bootstrap to the phases of the server. `AuthHolds` is a part of it
that needs them all: a server without auth found a file that does not load, or its
own bootstrap failed, and neither happens to a persist that runs alone unless a read
or a write failed.

**Network_proofs.** A tRPC answer is delivered by its id, so the invariant says
of every frame in the channel and on both directions of the wire that if its id is
that of an ask under way it belongs to that ask (`FramesFit`), that ids of asks
differ, that an ask has its value or an entry in the map (`AllServed`), and that
on a live connection its frame is somewhere (`AllAwaited`). `ConnectionsCounted`:
each gauge is the cardinality of the set of connections that are open, and a step
adds or removes one of them (`SocketInv`, `TcpInv`); on its way out a connection has
not told exactly the middlewares that its position still leaves. For `FilteredBothWays`,
`sorted_by_order` is a stable sort: to place each middleware among the sorted ones
gives a permutation of those registered, and `ConnOK` says of every connection, by
where it is, which middlewares have let it in and which have passed its payload; what
the pipeline encoded, the reversed pipeline decodes, whatever its length.

**SimpleTimer_proofs.** A loop is followed from `schedule` to its entry: it is
never listed twice and only listed loops are aborted (`Listed`), and its record
fits its place (`Placed`). Permits are counted by adding or removing one loop from
a finite set. For `SingleRunner` every handler that runs without its lock is
charged to a fault of its own (`Charged`).

**Startup_proofs.** The invariant follows `build_all` through the list: what it says
of a plugin holds once `next` has passed it and stays, because nothing later in the
list fills the slot it looked into (`ListOrder`, the comment "Ordering matters" of
the code as a lemma). Hooks lie in the order of the list below those that have run
(`HookOrder`), and every open connection has one (`HookCover`). Loading and watching
do not touch the plugins; whatever configuration they end with is covered.

`ReportsTruthful` says of a plugin a report names that the slot it fills holds it or
an enabled one that stands behind it in the list (`InPlaceOf`): the last of the
enabled ones fills the slot (`SlotsFilled`).

For `ConfigAsAsked`, `LoadInv` follows the merge variable by variable, in any order:
a leaf of the tree has the value of one of the variables merged so far or that of the
base, unless a variable above it turned it into something no configuration can be
read from (`LeafAfter`, kept by `SetNested` in `LeafMerges`); and the tree of the
defaults stays readable as long as every variable fits (`Whole`). `ReloadsCorrect`
states `NeverOlder` of ConfigWatch, the part of reloading that is safety: no handler
is taken back to an older version of the file, one that was read half written
counting as the version that was being written. It
holds because the version that was parsed lies between what the handlers were told
and what is on disk (`Between`). TLC has checked it on the instance of startup; no
run lists it, because `ReloadReaches` is what the run asks of the watcher.

**Services_proofs.** The parts keep their own variables, so each has its own
invariant, and a frame lemma per part says which steps of the pipeline concern it.
For the store, a transaction that commits has executed both statements. For the
scripts, the lines in the pipes are as many as those of dropped calls, the stray
ones and that of the one that reads (`LinesExact`), and when there are none of the
former what is in them is its own line or one joined to a cut one
(`LinesAreAwaited`).
For the limiters, what a bucket let through and still has is bounded by its refill,
and a window's counter has counted every check it allowed, because no key expires
before its window ends (`KeysOutlive`). For the layers, an answer that waits for the
audit log already has the headers of the layers around it, for its request's origin
(`AnswerInv`). For the queries, the rendering of a specification
is a function that exists level by level (`RenderingExists`), and a rendering numbers
its placeholders from its offset on if those of its parts do (`LevelNumbered`).

`Distributed` is about both kinds of bus. In memory, a list holds each sender once,
and in the current round each of its members has had one message or none, those with
none being the next in turn from the index on (`Even`, `InTurn`); pushes, sends and
removals of closed senders keep that (`MemInv`). At a broker, what a reader took and its consumer has not
received is one sequence, the `Flow`. A message that was not delivered again waits
once, or is at one place of one flow (`Apart`), or was received, once (`FirstTime`).

Every invariant and every other safety property of the passing runs, and the
refinement, is a theorem. Only model-checked are the liveness properties, because
fairness and ENABLED are out of the prover's reach: CallsRecover, AcquireReturns,
OrphanExpires, GoneIsNoticed, WorkerReconnects, TurnEnds, PublishReturns,
PublishedReceived, ReloadReaches, ConnectionsClose, ShutdownCompletes, StaleEnds and
DisconnectReturns. The two runs that expect a violation show their counterexamples.

## 6. Not modelled

- Values, payloads, formatting, logging and metrics everywhere.
- Durations in ClusterMembership; the wall clock and time zones of cron
  expressions in SimpleTimer; the fractions of a token in the bucket.
- Panics of user code inside handlers, but for the timer's. In a tRPC handler one
  ends the connection.
- In TrpcConnection: the connect with its retries and the registration of
  services. In Application: TLS and the routers; the gRPC service registry. In
  StorePool: row mapping and the statements of GenericRepository. In ScriptWorker:
  the wasm engine (a stub), `run_script` (dead code), what a callback of an earlier
  script adds to the captured output of a later one. In ConfigModel: the elements of lists except
  one listener.
- AES-GCM, key files and rotation: one map behind a lock, with ciphers by
  libraries. The audit file: one line appended under a mutex. The file store,
  codecs and compression: no state of their own. The derive macro: generated code.
- The other components listed as `not_modelled` in `PROJECT.json`, each with its
  reason.

## 7. Plan

Done: everything in section 2, and the proofs of section 5.

What is left: nothing of the safety properties that the runs check. The thirteen
liveness properties are checked on the instances of section 3 only; a proof of them
needs a prover for fairness and ENABLED.
