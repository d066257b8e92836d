----------------------------- MODULE HttpPipeline -----------------------------
(***************************************************************************)
(* An HTTP request through the layers of rinfra-plugins/src/net/middleware *)
(* to its handler and back.  HttpMiddlewareRegistry::apply_all wraps the   *)
(* router by ascending order, so the layer with the highest order is the   *)
(* outermost and an answer made at one layer passes those around it.  The  *)
(* timeout layer drops whatever is inside it, and a client that goes away  *)
(* drops everything: a rate limit check, a cache operation, a transaction, *)
(* a script is abandoned at its current await.                             *)
(***************************************************************************)
EXTENDS RateLimiter, MultilevelCache, StorePool, WhereClause, ScriptWorker

CONSTANTS
  Works,   \* what the handlers of a run do: a subset of WorkKinds
  Load,    \* bound: the requests that arrive, for each kind of work
  Enabled, \* the layers of the configuration that goes with each kind of work,
  AllowOrigins, \* its cors.allow_origins
  Origins, \*   and where the requests come from
  Missing

(* A request uses the limiter, the cache, the store and the scripts as a task *)
(* of theirs.                                                                 *)
ASSUME PipelineAssumption ==
  /\ Reqs \subseteq Users /\ Reqs \subseteq Txs /\ Reqs \subseteq Calls
  /\ NoCall \notin Calls

VARIABLES
  work,    \* "memory" or "redis" (a rate limited handler), "cache", "store", "query",
           \*   "script"
  asks,    \* what each request is: where it comes from, and whether it is a
           \*   preflight (OPTIONS)
  at,      \* where each request is
  answer,  \* the status it was answered with, and the marks the layers left
  trail,   \* what the audit log recorded: <<request, outcome>>
  warned,  \* the requests for which "failed to write HTTP audit event" was logged
  sql      \* the query rendered last, by a request not yet audited

pipelineVars == <<work, asks, at, answer, trail, warned, sql>>
httpVars == <<limiterVars, cacheVars, storeVars, scriptVars, pipelineVars>>

WorkKinds == {"memory", "redis", "cache", "store", "query", "script"}

(* Defect: the audit layer inside the timeout layer. *)
OrderAuditInside ==
  [handler |-> 0, i18n_error |-> 8, metrics |-> 10, auth |-> 20, rate_limit |-> 25,
   trace |-> 30, otel |-> 35, request_id |-> 40, timeout |-> 50, audit |-> 45, cors |-> 60]

(* HttpMiddleware::order of every layer; the handler is inside them all. *)
Order ==
  [handler |-> 0, i18n_error |-> 8, metrics |-> 10, auth |-> 20, rate_limit |-> 25,
   trace |-> 30, otel |-> 35, request_id |-> 40, timeout |-> 50, audit |-> 55, cors |-> 60]

(* builtin_http_middlewares: trace always; the others when they are enabled  *)
(* or, for rate_limit, audit and i18n_error, when AppState has the component. *)
BuiltinHttpMiddlewares == {"trace"} \cup Enabled[work]

(* The layers an answer made at layer l passes on its way out. *)
Around(l) == {m \in BuiltinHttpMiddlewares : Order[m] > Order[l]}

(* i18n_error_middleware translates the body of an error that passes it,     *)
(* RequestIdService adds its header to any answer, the CORS layer to those    *)
(* for an origin it allows.                                                  *)
I18nError(l, status) ==
  IF status # 200 /\ "i18n_error" \in Around(l) THEN {"translated"} ELSE {}
RequestId(l) == IF "request_id" \in Around(l) THEN {"x-request-id"} ELSE {}

(* build_cors_layer: AllowOrigin::any, or the listed origins. *)
Allowed(o) == AllowOrigins[work] = {"*"} \/ o \in AllowOrigins[work]
Cors(o, l) ==
  IF "cors" \in {l} \cup Around(l) /\ Allowed(o) THEN {"allow-origin"} ELSE {}

(* An answer made at layer l to a request from o, as the client gets it. *)
Answer(o, l, status) ==
  [status |-> status, marks |-> I18nError(l, status) \cup RequestId(l) \cup Cors(o, l)]
NoAnswer == [status |-> Missing, marks |-> {}]

PipelineInit ==
  /\ work \in Works
  /\ asks = [r \in Reqs |-> [origin |-> Missing, preflight |-> FALSE]]
  /\ at = [r \in Reqs |-> "none"]
  /\ answer = [r \in Reqs |-> NoAnswer]
  /\ trail = {} /\ warned = {} /\ sql = Missing

HttpInit == LimiterInit /\ CacheInit /\ StoreInit /\ ScriptInit /\ PipelineInit
              /\ (work # "store" => backend = PostgresStore)

-----------------------------------------------------------------------------
(* The way in *)

UnchangedWork == UNCHANGED <<limiterVars, cacheVars, storeVars, scriptVars>>

(* Where a request that has passed layer l waits next: the outer layers pass *)
(* it on, the first that may stop it is the limiter, then auth.              *)
Deeper(l) == {m \in {"rate_limit", "auth"} \cap BuiltinHttpMiddlewares : Order[m] < Order[l]}
NextStop(l) == IF Deeper(l) = {} THEN "handler"
               ELSE CHOOSE m \in Deeper(l) : \A n \in Deeper(l) : Order[n] =< Order[m]

Arrives(r) ==
  /\ at[r] = "none" /\ r \in Load[work]
  /\ \E o \in Origins[work] : asks' = [asks EXCEPT ![r].origin = o]
  /\ at' = [at EXCEPT ![r] = NextStop("cors")]
  /\ UnchangedWork /\ UNCHANGED <<work, answer, trail, warned, sql>>

(* The CORS layer answers an OPTIONS request itself. *)
Preflight(r) ==
  /\ at[r] = "none" /\ r \in Load[work] /\ "cors" \in BuiltinHttpMiddlewares
  /\ \E o \in Origins[work] :
       /\ asks' = [asks EXCEPT ![r] = [origin |-> o, preflight |-> TRUE]]
       /\ answer' = [answer EXCEPT ![r] = Answer(o, "cors", 200)]
  /\ at' = [at EXCEPT ![r] = "answered"]
  /\ UnchangedWork /\ UNCHANGED <<work, trail, warned, sql>>

(* The answer made at layer l is under way; layers outside may await. *)
Answers(r, l, status) ==
  /\ at' = [at EXCEPT ![r] = IF "audit" \in Around(l) THEN "audit" ELSE "answered"]
  /\ answer' = [answer EXCEPT ![r] = Answer(asks[r].origin, l, status)]
  /\ UNCHANGED <<work, asks, trail, warned, sql>>

(* rate_limit_middleware: a limiter that fails lets the request through. *)
LimitAllows(r) ==
  /\ at[r] = "rate_limit" /\ check[r].pc \in {"allowed", "error"}
  /\ at' = [at EXCEPT ![r] = NextStop("rate_limit")]
  /\ CheckDropped(r)
  /\ UNCHANGED <<clock, bucket, counter, admitted, errors, cacheVars, storeVars,
                 scriptVars, work, asks, answer, trail, warned, sql>>

LimitRefuses(r) ==
  /\ at[r] = "rate_limit" /\ check[r].pc = "refused"
  /\ Answers(r, "rate_limit", 429)
  /\ CheckDropped(r)
  /\ UNCHANGED <<clock, bucket, counter, admitted, errors, cacheVars, storeVars,
                 scriptVars>>

(* auth_middleware: an excluded path, or claims that decode. *)
AuthPasses(r) ==
  /\ at[r] = "auth"
  /\ at' = [at EXCEPT ![r] = NextStop("auth")]
  /\ UnchangedWork /\ UNCHANGED <<work, asks, answer, trail, warned, sql>>

AuthRefuses(r) ==
  /\ at[r] = "auth"
  /\ Answers(r, "auth", 401)
  /\ UnchangedWork

-----------------------------------------------------------------------------
(* The handler and what it awaits *)

(* ErrorCode::http_status of what the handlers return. *)
HttpStatus(code) ==
  CASE code = "ok" -> 200
    [] code \in {"StoreQueryFailed", "StoreConnectionFailed", "CacheSetFailed",
                 "ScriptExecFailed"} -> 500

HandlerEnds(r) ==
  /\ at[r] = "handler"
  /\ \/ /\ work \in {"memory", "redis"}
        /\ Answers(r, "handler", HttpStatus("ok")) /\ UnchangedWork
     \/ /\ work = "cache" /\ use[r].pc \in {"done", "failed"}
        /\ Answers(r, "handler", HttpStatus(IF use[r].pc = "done" THEN "ok" ELSE "CacheSetFailed"))
        /\ CacheDropped(r)
        /\ UNCHANGED <<limiterVars, storeVars, scriptVars, l1, l2, age, writes, failures>>
     \/ /\ work = "store" /\ tx[r] \in {"committed", "failed"}
        /\ Answers(r, "handler",
                   HttpStatus(IF tx[r] = "committed" THEN "ok" ELSE "StoreQueryFailed"))
        /\ StoreDropped(r)
        /\ UNCHANGED <<limiterVars, cacheVars, scriptVars, backend, pool, guard, db, refused>>
     \/ /\ work = "script" /\ exec[r].pc \in {"done", "failed"}
        /\ Answers(r, "handler",
                   HttpStatus(IF exec[r].pc = "done" THEN "ok" ELSE "ScriptExecFailed"))
        /\ ExecDropped(r)
        /\ UNCHANGED <<limiterVars, cacheVars, storeVars, deaths, strays>>

(* GenericRepository::find_by, count_by, delete_by. *)
QueriesBy(r) ==
  /\ at[r] = "handler" /\ work = "query"
  /\ \E spec \in Specs :
       /\ sql' = [spec |-> spec, query |-> ToWhereClause(spec, 1)]
       /\ at' = [at EXCEPT ![r] = IF "audit" \in Around("handler") THEN "audit"
                                                               ELSE "answered"]
       /\ answer' = [answer EXCEPT
                       ![r] = Answer(asks[r].origin, "handler", HttpStatus("ok"))]
  /\ UnchangedWork /\ UNCHANGED <<work, asks, trail, warned>>

LimitStep ==
  \/ \E r \in Reqs : /\ at[r] = "rate_limit"
                     /\ \/ work = "memory" /\ MemoryStep(r)
                        \/ work = "redis" /\ RedisStep(r)
  \/ work \in {"memory", "redis"} /\ LimiterTick
  \/ work = "memory" /\ ResetBucket
  \/ work = "redis" /\ ResetCounter

CacheWork ==
  /\ work = "cache"
  /\ \/ \E r \in Reqs : at[r] = "handler" /\ CacheStep(r)
     \/ \E u \in Users \ Reqs : CacheStep(u) \/ CacheReturns(u)
     \/ CacheTick \/ ExpireL2

StoreWork ==
  /\ work = "store"
  /\ \/ \E r \in Reqs : at[r] = "handler" /\ TxStep(r)
     \/ StoreStep

ScriptWork ==
  /\ work = "script"
  /\ (\E r \in Reqs : at[r] = "handler" /\ ExecStep(r)) \/ WorkerStep

WorkStep ==
  \/ LimitStep /\ UNCHANGED <<cacheVars, storeVars, scriptVars, pipelineVars>>
  \/ CacheWork /\ UNCHANGED <<limiterVars, storeVars, scriptVars, pipelineVars>>
  \/ StoreWork /\ UNCHANGED <<limiterVars, cacheVars, scriptVars, pipelineVars>>
  \/ ScriptWork /\ UNCHANGED <<limiterVars, cacheVars, storeVars, pipelineVars>>

-----------------------------------------------------------------------------
(* Dropping, and the way out *)

Inside == {"rate_limit", "auth", "handler"}

(* The futures a request is made of are dropped. *)
WorkDropped(r) ==
  /\ CheckDropped(r) /\ CacheDropped(r) /\ StoreDropped(r) /\ ExecDropped(r)
  /\ UNCHANGED <<clock, bucket, counter, admitted, errors, l1, l2, age, writes, failures,
                 backend, pool, guard, db, refused, deaths, strays>>

(* Defect: the layer is not there. *)
TimesOutNever(r) == FALSE

(* TimeoutLayer: 503, made at its own place. *)
TimesOut(r) ==
  /\ at[r] \in Inside /\ "timeout" \in BuiltinHttpMiddlewares
  /\ Answers(r, "timeout", 503)
  /\ WorkDropped(r)

(* The client closes the connection: the whole request is dropped. *)
ClientLeaves(r) ==
  /\ at[r] \in Inside \cup {"audit"}
  /\ at' = [at EXCEPT ![r] = "gone"]
  /\ answer' = [answer EXCEPT ![r] = NoAnswer]
  /\ WorkDropped(r)
  /\ UNCHANGED <<work, asks, trail, warned, sql>>

Outcome(status) ==
  CASE status = 200 -> "Success" [] status \in {401, 403} -> "Denied" [] OTHER -> "Failure"

(* audit_middleware, after next.run: a log that fails only warns. *)
Audits(r) ==
  /\ at[r] = "audit"
  /\ \/ trail' = trail \cup {<<r, Outcome(answer[r].status)>>} /\ UNCHANGED warned
     \/ warned' = warned \cup {r} /\ UNCHANGED trail
  /\ at' = [at EXCEPT ![r] = "answered"]
  /\ sql' = Missing
  /\ UnchangedWork /\ UNCHANGED <<work, asks, answer>>

RequestStep(r) ==
  \/ Arrives(r) \/ Preflight(r) \/ LimitAllows(r) \/ LimitRefuses(r) \/ AuthPasses(r) \/ AuthRefuses(r)
  \/ HandlerEnds(r) \/ QueriesBy(r) \/ TimesOut(r) \/ ClientLeaves(r) \/ Audits(r)

HttpNext == (\E r \in Reqs : RequestStep(r)) \/ WorkStep

(* The timer of the timeout layer fires, the audit log answers or fails,     *)
(* moka's clock runs, a health check's query ends, and disconnect goes on    *)
(* when it can.                                                              *)
HttpFairness ==
  /\ \A r \in Reqs : WF_httpVars(TimesOut(r)) /\ WF_httpVars(Audits(r))
  /\ WF_httpVars(work = "cache" /\ CacheTick
                 /\ UNCHANGED <<limiterVars, storeVars, scriptVars, pipelineVars>>)
  /\ WF_httpVars(/\ work = "store"
                 /\ HealthEnds \/ DisconnectCloses \/ DisconnectEnds
                 /\ UNCHANGED <<limiterVars, cacheVars, scriptVars, pipelineVars>>)

HttpSpec == HttpInit /\ [][HttpNext]_httpVars /\ HttpFairness

-----------------------------------------------------------------------------
(* Properties *)

(* Every answer the CORS layer does not give itself, also the 401, the 429    *)
(* and the 503 that no handler saw, is in the audit log with its outcome, or  *)
(* a warning says that the log failed; and whoever made it, it allows the     *)
(* origin exactly when the configuration does.                                *)
AnswersAudited ==
  \A r \in Reqs : at[r] = "answered" =>
    /\ "audit" \in BuiltinHttpMiddlewares /\ ~ asks[r].preflight =>
         r \in warned \/ <<r, Outcome(answer[r].status)>> \in trail
    /\ "cors" \in BuiltinHttpMiddlewares =>
         ("allow-origin" \in answer[r].marks <=> Allowed(asks[r].origin))

(* Not kept by the code - an audit trail: every answer is in the log (one      *)
(* whose record fails goes out all the same, a preflight passes no log).       *)
AnswersInLog ==
  \A r \in Reqs : at[r] = "answered" /\ "audit" \in BuiltinHttpMiddlewares =>
    <<r, Outcome(answer[r].status)>> \in trail

(* The limits hold while requests arrive, are refused, time out and go away:  *)
(* of the token bucket and of the window in Redis.                            *)
LimitsHold == BucketBounded /\ WindowBounded

(* "The clause should use $N placeholders starting at $offset": however the  *)
(* combinators are nested, each condition is compared with its own values,   *)
(* and every parameter has one placeholder.                                  *)
PlaceholdersMatch ==
  sql # Missing =>
    /\ Bound(sql.query) = [i \in DOMAIN sql.query.clause |-> sql.query.clause[i][2]]
    /\ Len(sql.query.params) = Len(sql.query.clause)

(* Not kept by the code - every error answer passes the i18n layer: it is    *)
(* the innermost.                                                            *)
ErrorsTranslated ==
  \A r \in Reqs : (at[r] = "answered" /\ answer[r].status # 200) =>
    "translated" \in answer[r].marks

(* Not kept by the code - a 503 of the timeout layer means that nothing was  *)
(* done.                                                                     *)
TimeoutMeansNothingDone ==
  \A r \in Reqs : answer[r].status = 503 => <<r, 1>> \notin db
=============================================================================
