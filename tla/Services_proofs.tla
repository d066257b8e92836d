--------------------------- MODULE Services_proofs ---------------------------
(***************************************************************************)
(* Proofs about the services that share no state with each other.  The     *)
(* HTTP pipeline: the limits of the two rate limiters, the transactions of *)
(* the store, the outputs of the script engines and the answers of the     *)
(* layers, for any number of requests, tasks and calls; each part keeps    *)
(* its own variables, so each has an invariant of its own, and the frame   *)
(* lemmas say which steps of the pipeline concern it.  The message buses:  *)
(* the turns of the subscribers of the one in memory, and that a broker's  *)
(* message reaches one consumer, for any number of tasks and messages.     *)
(* The queries: the numbering of placeholders, however combinators nest.   *)
(***************************************************************************)
EXTENDS HttpPipeline, BrokerBus, FiniteSetTheorems, SequenceTheorems, NaturalsInduction,
        WellFoundedInduction, TLAPS

-----------------------------------------------------------------------------
(* Invariants *)

(* The store: a transaction that commits has executed both statements, and   *)
(* what is committed comes in pairs.                                         *)
TxPcs == {"none", "begin", "open", "query", "rows", "commit", "committed", "failed"}
StoreInv ==
  /\ tx \in [Txs -> TxPcs]
  /\ stmts \in [Txs -> SUBSET {1, 2}]
  /\ \A t \in Txs : tx[t] = "commit" => stmts[t] = {1, 2}
  /\ AllOrNothing

(* The scripts: the mutex is held by the one call that spawns, writes or     *)
(* reads; the lines in the pipes are those of the calls that were dropped,   *)
(* of nobody and of the one that reads, and without the former they are its  *)
(* own, one that was joined to a cut one, or no answer at all.               *)
ExecPcs == {"none", "spawning", "writing", "reading", "done", "failed"}
Lines == Calls \cup {Invalid}
Outs == Lines \cup {Stray, Noise}
Workers == [alive : BOOLEAN, stdin : Seq(Lines), stdout : Seq(Outs), cut : BOOLEAN, lag : Nat]
Executions == [pc : ExecPcs, got : Calls \cup {NoCall, Invalid, Stray}, lag : Nat]
ScriptTypes ==
  /\ holder \in Calls \cup {NoCall}
  /\ worker \in Workers
  /\ exec \in [Calls -> Executions]

MutexHeld == \A c \in Calls : exec[c].pc \in {"spawning", "writing", "reading"} <=> holder = c
SpawnsWhenGone == \A c \in Calls : exec[c].pc = "spawning" => ~ worker.alive
AwaitedLines == IF \E c \in Calls : Reading(c) THEN 1 ELSE 0
Written == Len(worker.stdin)
Answered == Len(worker.stdout)
Behind == worker.lag
LinesBounded == Written + Answered =< Behind + AwaitedLines
LinesExact == worker.alive => Written + Answered = Behind + AwaitedLines
GotOwn == \A c \in Calls : exec[c].got \in {NoCall, c, Invalid} \/ exec[c].lag > 0
Awaited(line) == line = Invalid \/ (line \in Calls /\ Reading(line))
LinesAreAwaited ==
  worker.lag = 0 =>
    /\ \A i \in 1 .. Len(worker.stdin) : Awaited(worker.stdin[i])
    /\ \A i \in 1 .. Len(worker.stdout) :
         worker.stdout[i] = Noise \/ Awaited(worker.stdout[i])
ScriptInv ==
  /\ ScriptTypes /\ MutexHeld /\ SpawnsWhenGone
  /\ LinesBounded /\ LinesExact /\ LinesAreAwaited /\ GotOwn

(* The limiters: what a bucket let through and still has is what it started  *)
(* with and what was refilled, and while a window runs its counter has       *)
(* counted every check it allowed, because no key expires before that.       *)
CheckPcs == {"none", "window", "expire", "allowed", "refused", "error"}
Buckets == [there : BOOLEAN, tokens : Nat, last : Nat, born : Nat, taken : Nat]
Counters == [count : Nat, expires : Nat \cup {Never}]
LimiterTypes ==
  /\ clock \in Nat /\ clock =< MaxClock
  /\ bucket \in Buckets
  /\ counter \in [Windows -> Counters]
  /\ check \in [Reqs -> [pc : CheckPcs, window : Windows]]
  /\ admitted \in [Windows -> Nat]

BucketInv ==
  IF bucket.there
    THEN /\ bucket.born =< bucket.last /\ bucket.last =< clock
         /\ bucket.taken + bucket.tokens =< Burst + Rate * (bucket.last - bucket.born)
    ELSE bucket = NoBucket

WindowStart(w) == w * Window
WindowEnd(w) == (w + 1) * Window
KeyOutlives(w) == counter[w].expires # Never => counter[w].expires > WindowEnd(w)
KeysOutlive == \A w \in Windows : KeyOutlives(w)
ChecksBegun ==
  \A r \in Reqs : check[r].pc \in {"window", "expire"} => WindowStart(check[r].window) =< clock
Counted(w) == clock < WindowEnd(w) => admitted[w] =< counter[w].count
WindowsCounted == \A w \in Windows : Counted(w)

WindowInv == KeysOutlive /\ ChecksBegun /\ WindowsCounted /\ WindowBounded
LimiterInv == LimiterTypes /\ BucketInv /\ WindowInv

(* The layers: an answer that waits for the audit log has its marks.         *)
Marked(r) ==
  "cors" \in BuiltinHttpMiddlewares =>
    ("allow-origin" \in answer[r].marks <=> Allowed(asks[r].origin))
Places == {"none", "rate_limit", "auth", "handler", "audit", "answered", "gone"}
AnswerInv ==
  /\ at \in [Reqs -> Places]
  /\ DOMAIN answer = Reqs /\ DOMAIN asks = Reqs
  /\ \A r \in Reqs : at[r] \in {"audit", "answered"} => Marked(r)
  /\ AnswersAudited

-----------------------------------------------------------------------------
(* Frames: what a step of the pipeline can be for each part *)

StoreMoves ==
  \/ \E t \in Txs : TxStep(t)
  \/ StoreStep
  \/ \E t \in Txs : StoreDropped(t) /\ UNCHANGED db
  \/ UNCHANGED storeVars

(* A request works on the store as one of its tasks or leaves it alone. *)
LEMMA StoreFrame == [HttpNext]_httpVars => StoreMoves
<1> SUFFICES ASSUME [HttpNext]_httpVars PROVE StoreMoves
  OBVIOUS
<1> USE PipelineAssumption DEF StoreMoves
<1>1. ASSUME NEW r \in Reqs, RequestStep(r) PROVE StoreMoves
  <2>1. CASE Arrives(r) BY <2>1 DEF Arrives, UnchangedWork
  <2>2. CASE LimitAllows(r) BY <2>2 DEF LimitAllows
  <2>3. CASE LimitRefuses(r) BY <2>3 DEF LimitRefuses
  <2>4. CASE AuthPasses(r) BY <2>4 DEF AuthPasses, UnchangedWork
  <2>5. CASE AuthRefuses(r) BY <2>5 DEF AuthRefuses, UnchangedWork
  <2>6. CASE HandlerEnds(r) BY <2>6 DEF HandlerEnds, UnchangedWork
  <2>7. CASE QueriesBy(r) BY <2>7 DEF QueriesBy, UnchangedWork
  <2>8. CASE TimesOut(r) BY <2>8 DEF TimesOut, WorkDropped
  <2>9. CASE ClientLeaves(r) BY <2>9 DEF ClientLeaves, WorkDropped
  <2>10. CASE Audits(r) BY <2>10 DEF Audits, UnchangedWork
  <2>11. CASE Preflight(r) BY <2>11 DEF Preflight, UnchangedWork
  <2> QED BY <1>1, <2>1, <2>2, <2>3, <2>4, <2>5, <2>6, <2>7, <2>8, <2>9, <2>10, <2>11
      DEF RequestStep
<1>2. CASE WorkStep BY <1>2 DEF WorkStep, StoreWork
<1>3. CASE UNCHANGED httpVars BY <1>3 DEF httpVars
<1> QED BY <1>1, <1>2, <1>3 DEF HttpNext

ScriptMoves ==
  \/ \E c \in Calls : ExecStep(c)
  \/ WorkerStep
  \/ \E c \in Calls : ExecDropped(c)
  \/ UNCHANGED scriptVars

(* A request runs its script as one of the calls, or leaves the engine alone. *)
LEMMA ScriptFrame == [HttpNext]_httpVars => ScriptMoves
<1> SUFFICES ASSUME [HttpNext]_httpVars PROVE ScriptMoves
  OBVIOUS
<1> USE PipelineAssumption DEF ScriptMoves
<1>1. ASSUME NEW r \in Reqs, RequestStep(r) PROVE ScriptMoves
  <2>1. CASE Arrives(r) BY <2>1 DEF Arrives, UnchangedWork
  <2>2. CASE LimitAllows(r) BY <2>2 DEF LimitAllows
  <2>3. CASE LimitRefuses(r) BY <2>3 DEF LimitRefuses
  <2>4. CASE AuthPasses(r) BY <2>4 DEF AuthPasses, UnchangedWork
  <2>5. CASE AuthRefuses(r) BY <2>5 DEF AuthRefuses, UnchangedWork
  <2>6. CASE HandlerEnds(r) BY <2>6 DEF HandlerEnds, UnchangedWork
  <2>7. CASE QueriesBy(r) BY <2>7 DEF QueriesBy, UnchangedWork
  <2>8. CASE TimesOut(r) BY <2>8 DEF TimesOut, WorkDropped
  <2>9. CASE ClientLeaves(r) BY <2>9 DEF ClientLeaves, WorkDropped
  <2>10. CASE Audits(r) BY <2>10 DEF Audits, UnchangedWork
  <2>11. CASE Preflight(r) BY <2>11 DEF Preflight, UnchangedWork
  <2> QED BY <1>1, <2>1, <2>2, <2>3, <2>4, <2>5, <2>6, <2>7, <2>8, <2>9, <2>10, <2>11
      DEF RequestStep
<1>2. CASE WorkStep BY <1>2 DEF WorkStep, ScriptWork
<1>3. CASE UNCHANGED httpVars BY <1>3 DEF httpVars
<1> QED BY <1>1, <1>2, <1>3 DEF HttpNext

LimiterMoves ==
  \/ \E r \in Reqs : MemoryStep(r) \/ RedisStep(r)
  \/ LimiterTick \/ ResetBucket \/ ResetCounter
  \/ \E r \in Reqs : CheckDropped(r) /\ UNCHANGED <<clock, bucket, counter, admitted>>
  \/ UNCHANGED limiterVars

(* A request is checked by a limiter or leaves both alone. *)
LEMMA LimiterFrame == [HttpNext]_httpVars => LimiterMoves
<1> SUFFICES ASSUME [HttpNext]_httpVars PROVE LimiterMoves
  OBVIOUS
<1> USE DEF LimiterMoves
<1>1. ASSUME NEW r \in Reqs, RequestStep(r) PROVE LimiterMoves
  <2>1. CASE Arrives(r) BY <2>1 DEF Arrives, UnchangedWork
  <2>2. CASE LimitAllows(r) BY <2>2 DEF LimitAllows
  <2>3. CASE LimitRefuses(r) BY <2>3 DEF LimitRefuses
  <2>4. CASE AuthPasses(r) BY <2>4 DEF AuthPasses, UnchangedWork
  <2>5. CASE AuthRefuses(r) BY <2>5 DEF AuthRefuses, UnchangedWork
  <2>6. CASE HandlerEnds(r) BY <2>6 DEF HandlerEnds, UnchangedWork
  <2>7. CASE QueriesBy(r) BY <2>7 DEF QueriesBy, UnchangedWork
  <2>8. CASE TimesOut(r) BY <2>8 DEF TimesOut, WorkDropped
  <2>9. CASE ClientLeaves(r) BY <2>9 DEF ClientLeaves, WorkDropped
  <2>10. CASE Audits(r) BY <2>10 DEF Audits, UnchangedWork
  <2>11. CASE Preflight(r) BY <2>11 DEF Preflight, UnchangedWork
  <2> QED BY <1>1, <2>1, <2>2, <2>3, <2>4, <2>5, <2>6, <2>7, <2>8, <2>9, <2>10, <2>11
      DEF RequestStep
<1>2. CASE WorkStep BY <1>2 DEF WorkStep, LimitStep
<1>3. CASE UNCHANGED httpVars BY <1>3 DEF httpVars
<1> QED BY <1>1, <1>2, <1>3 DEF HttpNext

-----------------------------------------------------------------------------
(* The store *)

(* A step that adds nothing to the database, executes statements only in an  *)
(* open transaction and lets one commit only with both.                      *)
LEMMA StoreUnmoved ==
  ASSUME StoreInv, UNCHANGED db, NEW t \in Txs,
         NEW pc \in TxPcs, NEW done \in SUBSET {1, 2},
         tx' = [tx EXCEPT ![t] = pc], stmts' = [stmts EXCEPT ![t] = done],
         pc = "commit" => done = {1, 2}
  PROVE  StoreInv'
BY DEF StoreInv, AllOrNothing

(* The same when the statements stay. *)
LEMMA StoreMovesOn ==
  ASSUME StoreInv, UNCHANGED <<db, stmts>>, NEW t \in Txs, NEW pc \in TxPcs,
         tx' = [tx EXCEPT ![t] = pc],
         pc = "commit" => stmts[t] = {1, 2}
  PROVE  StoreInv'
BY DEF StoreInv, AllOrNothing

(* Every step on the store keeps both statements of a task together. *)
LEMMA StorePreserved == StoreInv /\ StoreMoves => StoreInv'
<1> SUFFICES ASSUME StoreInv, StoreMoves PROVE StoreInv'
  OBVIOUS
<1>1. ASSUME NEW t \in Txs, TxStep(t) PROVE StoreInv'
  <2>1. ASSUME NEW from \in TxPcs, NEW to \in TxPcs \ {"commit"}, AsksPool(t, from, to)
        PROVE  StoreInv'
    BY <2>1, StoreMovesOn DEF AsksPool, TxPcs
  <2>2. ASSUME NEW from \in TxPcs, NEW to \in TxPcs \ {"commit"}, Acquires(t, from, to)
        PROVE  StoreInv'
    BY <2>2, StoreMovesOn DEF Acquires, TxPcs
  <2>3. CASE AcquireTimesOut(t) BY <2>3, StoreMovesOn DEF AcquireTimesOut, TxPcs
  <2>4. ASSUME NEW s \in {1, 2}, TxExecute(t, s) PROVE StoreInv'
    BY <2>4 DEF TxExecute, StoreInv, AllOrNothing
  <2>5. CASE Refused(t) BY <2>5, StoreMovesOn DEF Refused, TxPcs
  <2>6. CASE Commits(t) BY <2>6, StoreMovesOn DEF Commits, TxPcs
  <2>7. CASE CommitTakesEffect(t)
    <3>1. stmts[t] = {1, 2} BY <2>7 DEF CommitTakesEffect, StoreInv
    <3>2. db' = db \cup {<<t, 1>>, <<t, 2>>} BY <2>7, <3>1 DEF CommitTakesEffect
    <3>3. AllOrNothing' BY <3>2 DEF StoreInv, AllOrNothing
    <3> QED BY <2>7, <3>3 DEF CommitTakesEffect, StoreInv, TxPcs
  <2>8. CASE RollsBack(t) BY <2>8, StoreMovesOn DEF RollsBack, TxPcs
  <2>9. CASE Begin(t)
    <3>1. Begins(t) BY <2>9 DEF Begin, PgBegin, MysqlBegin, SqliteBegin
    <3> QED BY <3>1, <2>1, <2>2 DEF Begins, TxPcs
  <2>10. CASE SideQuery(t)
    <3>1. CASE tx[t] = "rows" /\ tx' = [tx EXCEPT ![t] = "open"] /\ UNCHANGED <<stmts, db>>
      BY <3>1, StoreMovesOn DEF TxPcs
    <3> QED BY <2>10, <2>1, <2>2, <3>1 DEF SideQuery, TxPcs
  <2>11. CASE Transaction(t) BY <2>11, <2>4, <2>5, <2>6, <2>7, <2>8 DEF Transaction
  <2> QED BY <1>1, <2>3, <2>9, <2>10, <2>11
      DEF TxStep, PgTransaction, MysqlTransaction, SqliteTransaction,
          PgExecutor, MysqlExecutor, SqliteExecutor
<1>2. CASE StoreStep
  BY <1>2 DEF StoreStep, HealthBegins, HealthAcquires, HealthEnds, DisconnectAsks, DisconnectCloses,
              DisconnectEnds, StoreInv, AllOrNothing
<1>3. ASSUME NEW t \in Txs, StoreDropped(t), UNCHANGED db PROVE StoreInv'
  BY <1>3, StoreUnmoved DEF StoreDropped, TxPcs
<1>4. CASE UNCHANGED storeVars BY <1>4 DEF storeVars, StoreInv, AllOrNothing
<1> QED BY <1>1, <1>2, <1>3, <1>4 DEF StoreMoves

(* A transaction is in the database with both statements or with none, when  *)
(* the database refuses one, the pool closes, the timeout layer drops the    *)
(* request or the client leaves: Drop rolls back what is not committed.      *)
THEOREM AllOrNothingCorrect == HttpSpec => []AllOrNothing
<1>1. HttpInit => StoreInv
  BY DEF HttpInit, StoreInit, StoreInv, AllOrNothing, TxPcs
<1>2. StoreInv /\ [HttpNext]_httpVars => StoreInv'
  BY StoreFrame, StorePreserved
<1>3. StoreInv => AllOrNothing BY DEF StoreInv
<1> QED BY <1>1, <1>2, <1>3, PTL DEF HttpSpec

-----------------------------------------------------------------------------
(* The layers *)

(* A layer that may make an answer is inside the audit and the CORS layer. *)
Makers == {"rate_limit", "auth", "handler", "timeout"}

LEMMA MakersInside ==
  ASSUME NEW l \in Makers
  PROVE  /\ "audit" \in Around(l) <=> "audit" \in BuiltinHttpMiddlewares
         /\ "cors" \in Around(l) <=> "cors" \in BuiltinHttpMiddlewares
BY DEF Makers, Around, Order

(* A request that goes on is inside. *)
LEMMA NextStopInside == ASSUME NEW l PROVE NextStop(l) \in Inside
<1>1. Deeper(l) \subseteq {"rate_limit", "auth"} BY DEF Deeper
<1>2. CASE Deeper(l) = {} BY <1>2 DEF NextStop, Inside
<1>3. CASE Deeper(l) # {}
  <2>1. \E m \in Deeper(l) : \A n \in Deeper(l) : Order[n] =< Order[m]
    <3>1. CASE "rate_limit" \in Deeper(l) BY <1>1, <3>1 DEF Order
    <3>2. CASE "rate_limit" \notin Deeper(l) BY <1>1, <1>3, <3>2 DEF Order
    <3> QED BY <3>1, <3>2
  <2>2. NextStop(l) \in Deeper(l) BY <1>3, <2>1 DEF NextStop
  <2> QED BY <1>1, <2>2 DEF Inside
<1> QED BY <1>2, <1>3

(* The marks of an answer made inside are those of the CORS layer, in time. *)
LEMMA MarksOf ==
  ASSUME NEW o, NEW l \in Makers \cup {"cors"}, NEW status,
         "cors" \in BuiltinHttpMiddlewares
  PROVE  "allow-origin" \in Answer(o, l, status).marks <=> Allowed(o)
<1>1. "cors" \in {l} \cup Around(l) BY MakersInside
<1>2. "allow-origin" \notin I18nError(l, status) \cup RequestId(l)
  BY DEF I18nError, RequestId
<1>3. "allow-origin" \in Cors(o, l) <=> Allowed(o) BY <1>1 DEF Cors
<1> QED BY <1>2, <1>3 DEF Answer

(* A request's answer is marked, and waits for the audit log or has passed it. *)
LEMMA AnsweredKeeps ==
  ASSUME AnswerInv, NEW r \in Reqs, NEW l \in Makers \cup {"cors"}, NEW status,
         NEW p \in {"audit", "answered"},
         at' = [at EXCEPT ![r] = p],
         answer' = [answer EXCEPT ![r] = Answer(asks'[r].origin, l, status)],
         DOMAIN asks' = Reqs, \A q \in Reqs \ {r} : asks'[q] = asks[q],
         p = "audit" \/ "audit" \notin BuiltinHttpMiddlewares \/ asks'[r].preflight,
         UNCHANGED <<work, trail, warned>>
  PROVE  AnswerInv'
<1>1. BuiltinHttpMiddlewares' = BuiltinHttpMiddlewares /\ \A o : Allowed(o)' <=> Allowed(o)
  BY DEF BuiltinHttpMiddlewares, Allowed
<1>2. Marked(r)'
  <2>1. answer'[r] = Answer(asks'[r].origin, l, status) BY DEF AnswerInv
  <2>2. "cors" \in BuiltinHttpMiddlewares =>
          ("allow-origin" \in answer'[r].marks <=> Allowed(asks'[r].origin))
    BY <2>1, MarksOf
  <2>3. Allowed(asks[r].origin)' <=> Allowed(asks'[r].origin)
    BY DEF Allowed
  <2> QED BY <1>1, <2>2, <2>3 DEF Marked
<1>3. \A q \in Reqs \ {r} : at'[q] = at[q] /\ answer'[q] = answer[q]
  BY DEF AnswerInv
<1>4. at' \in [Reqs -> Places] /\ DOMAIN answer' = Reqs BY DEF AnswerInv, Places
<1>5. at'[r] = p BY DEF AnswerInv
<1>6. \A q \in Reqs \ {r} : Marked(q)' <=> Marked(q)
  BY <1>1, <1>3 DEF Marked, Allowed
<1>7. \A q \in Reqs : at'[q] \in {"audit", "answered"} => Marked(q)'
  BY <1>2, <1>3, <1>6 DEF AnswerInv
<1>8. ASSUME NEW q \in Reqs, at'[q] = "answered",
             "audit" \in BuiltinHttpMiddlewares, ~ asks'[q].preflight
      PROVE  q \in warned \/ <<q, Outcome(answer'[q].status)>> \in trail
  BY <1>3, <1>5, <1>8 DEF AnswerInv, AnswersAudited
<1>9. AnswersAudited'
  BY <1>1, <1>7, <1>8 DEF AnswersAudited, Marked
<1> QED BY <1>4, <1>7, <1>9 DEF AnswerInv

LEMMA AnswersKeep ==
  ASSUME AnswerInv, NEW r \in Reqs, NEW l \in Makers, NEW status, Answers(r, l, status)
  PROVE  AnswerInv'
<1>1. PICK p \in {"audit", "answered"} :
        /\ at' = [at EXCEPT ![r] = p]
        /\ p = "audit" \/ "audit" \notin BuiltinHttpMiddlewares
  BY MakersInside DEF Answers
<1> QED BY <1>1, AnsweredKeeps DEF Answers, AnswerInv

(* A request that moves to a place inside, or goes away, has no answer. *)
LEMMA UnansweredKeeps ==
  ASSUME AnswerInv, NEW r \in Reqs, NEW p \in Inside \cup {"gone"}, NEW a,
         at' = [at EXCEPT ![r] = p],
         answer' = answer \/ answer' = [answer EXCEPT ![r] = a],
         DOMAIN asks' = Reqs, \A q \in Reqs \ {r} : asks'[q] = asks[q],
         UNCHANGED <<work, trail, warned>>
  PROVE  AnswerInv'
<1>1. BuiltinHttpMiddlewares' = BuiltinHttpMiddlewares /\ \A o : Allowed(o)' <=> Allowed(o)
  BY DEF BuiltinHttpMiddlewares, Allowed
<1>2. \A q \in Reqs \ {r} : at'[q] = at[q] /\ answer'[q] = answer[q]
  BY DEF AnswerInv
<1>3. at'[r] \notin {"audit", "answered"} BY DEF AnswerInv, Inside
<1>4. at' \in [Reqs -> Places] BY DEF AnswerInv, Places, Inside
<1>5. DOMAIN answer' = Reqs BY DEF AnswerInv
<1>6. \A q \in Reqs \ {r} : Marked(q)' <=> Marked(q)
  BY <1>1, <1>2 DEF Marked, Allowed
<1>7. \A q \in Reqs : at'[q] \in {"audit", "answered"} => Marked(q)'
  BY <1>2, <1>3, <1>6 DEF AnswerInv
<1>8. AnswersAudited'
  BY <1>1, <1>2, <1>3, <1>7 DEF AnswerInv, AnswersAudited, Marked
<1> QED BY <1>4, <1>5, <1>7, <1>8 DEF AnswerInv

LEMMA AnswersPreserved == AnswerInv /\ [HttpNext]_httpVars => AnswerInv'
<1> SUFFICES ASSUME AnswerInv, [HttpNext]_httpVars PROVE AnswerInv'
  OBVIOUS
<1>1. ASSUME NEW r \in Reqs, RequestStep(r) PROVE AnswerInv'
  <2>1. CASE Arrives(r)
    <3>1. PICK o : asks' = [asks EXCEPT ![r].origin = o] BY <2>1 DEF Arrives
    <3>2. DOMAIN asks' = Reqs /\ \A q \in Reqs \ {r} : asks'[q] = asks[q]
      BY <3>1 DEF AnswerInv
    <3> QED BY <2>1, <3>2, NextStopInside, UnansweredKeeps DEF Arrives
  <2>2. CASE LimitAllows(r)
    BY <2>2, NextStopInside, UnansweredKeeps DEF LimitAllows, AnswerInv
  <2>3. CASE LimitRefuses(r) BY <2>3, AnswersKeep DEF LimitRefuses, Makers
  <2>4. CASE AuthPasses(r)
    BY <2>4, NextStopInside, UnansweredKeeps DEF AuthPasses, AnswerInv
  <2>5. CASE AuthRefuses(r) BY <2>5, AnswersKeep DEF AuthRefuses, Makers
  <2>6. CASE HandlerEnds(r)
    <3>1. PICK status : Answers(r, "handler", status) BY <2>6 DEF HandlerEnds
    <3> QED BY <3>1, AnswersKeep DEF Makers
  <2>7. CASE QueriesBy(r)
    <3>1. PICK p \in {"audit", "answered"} :
            /\ at' = [at EXCEPT ![r] = p]
            /\ p = "audit" \/ "audit" \notin BuiltinHttpMiddlewares
      BY <2>7, MakersInside DEF QueriesBy, Makers
    <3>2. /\ answer' = [answer EXCEPT ![r] = Answer(asks[r].origin, "handler",
                                                    HttpStatus("ok"))]
          /\ UNCHANGED <<work, asks, trail, warned>>
      BY <2>7 DEF QueriesBy
    <3> QED BY <3>1, <3>2, AnsweredKeeps DEF AnswerInv, Makers
  <2>8. CASE TimesOut(r) BY <2>8, AnswersKeep DEF TimesOut, Makers
  <2>9. CASE ClientLeaves(r)
    BY <2>9, UnansweredKeeps DEF ClientLeaves, AnswerInv
  <2>10. CASE Audits(r)
    <3>1. /\ at' = [at EXCEPT ![r] = "answered"] /\ at[r] = "audit"
          /\ UNCHANGED <<work, asks, answer>>
          /\ trail \subseteq trail' /\ warned \subseteq warned'
          /\ r \in warned' \/ <<r, Outcome(answer[r].status)>> \in trail'
      BY <2>10 DEF Audits
    <3>2. BuiltinHttpMiddlewares' = BuiltinHttpMiddlewares
          /\ \A o : Allowed(o)' <=> Allowed(o)
      BY <3>1 DEF BuiltinHttpMiddlewares, Allowed
    <3>3. \A q \in Reqs \ {r} : at'[q] = at[q] BY <3>1 DEF AnswerInv
    <3>4. \A q \in Reqs : Marked(q)' <=> Marked(q)
      BY <3>1, <3>2 DEF Marked, Allowed
    <3>5. \A q \in Reqs : at'[q] \in {"audit", "answered"} => Marked(q)'
      BY <3>1, <3>3, <3>4 DEF AnswerInv
    <3>6. AnswersAudited'
      BY <3>1, <3>2, <3>3, <3>5 DEF AnswerInv, AnswersAudited, Marked
    <3> QED BY <3>1, <3>5, <3>6 DEF AnswerInv, Places
  <2>11. CASE Preflight(r)
    <3>1. PICK o : /\ asks' = [asks EXCEPT ![r] = [origin |-> o, preflight |-> TRUE]]
                   /\ answer' = [answer EXCEPT ![r] = Answer(o, "cors", 200)]
      BY <2>11 DEF Preflight
    <3>2. /\ DOMAIN asks' = Reqs /\ \A q \in Reqs \ {r} : asks'[q] = asks[q]
          /\ asks'[r].origin = o /\ asks'[r].preflight
      BY <3>1 DEF AnswerInv
    <3>3. /\ at' = [at EXCEPT ![r] = "answered"]
          /\ answer' = [answer EXCEPT ![r] = Answer(asks'[r].origin, "cors", 200)]
          /\ UNCHANGED <<work, trail, warned>>
      BY <2>11, <3>1, <3>2 DEF Preflight
    <3>4. "cors" \in Makers \cup {"cors"} /\ "answered" \in {"audit", "answered"}
      OBVIOUS
    <3> QED BY <3>2, <3>3, <3>4, AnsweredKeeps
  <2> QED BY <1>1, <2>1, <2>2, <2>3, <2>4, <2>5, <2>6, <2>7, <2>8, <2>9, <2>10, <2>11
      DEF RequestStep
<1>2. CASE UNCHANGED pipelineVars
  BY <1>2 DEF pipelineVars, AnswerInv, AnswersAudited, Marked, BuiltinHttpMiddlewares, Allowed
<1>3. CASE WorkStep BY <1>2, <1>3 DEF WorkStep
<1>4. CASE UNCHANGED httpVars BY <1>2, <1>4 DEF httpVars
<1> QED BY <1>1, <1>3, <1>4 DEF HttpNext

(* Whatever the layers are that the configuration enables, an answer that the *)
(* CORS layer did not give itself was recorded with its outcome or a warning *)
(* says that the log failed - also the ones made by the limiter, by          *)
(* auth_middleware and by TimeoutLayer, for which no handler ran - and every *)
(* answer allows its origin exactly when the configuration does.             *)
THEOREM AnswersAuditedCorrect == HttpSpec => []AnswersAudited
<1>1. HttpInit => AnswerInv
  BY DEF HttpInit, PipelineInit, AnswerInv, AnswersAudited, Places
<1>2. AnswerInv => AnswersAudited BY DEF AnswerInv
<1> QED BY <1>1, <1>2, AnswersPreserved, PTL DEF HttpSpec

-----------------------------------------------------------------------------
(* The scripts *)

(* The numbers of lines. *)
LEMMA LinesType ==
  ASSUME ScriptTypes
  PROVE  Written \in Nat /\ Answered \in Nat /\ Behind \in Nat /\ AwaitedLines \in {0, 1}
BY DEF ScriptTypes, Workers, Written, Answered, Behind, AwaitedLines

(* Nobody but the holder of the mutex reads. *)
LEMMA OneReader ==
  ASSUME ScriptInv, NEW c \in Calls, exec[c].pc \in {"spawning", "writing", "reading"}
  PROVE  \A d \in Calls \ {c} : ~ Reading(d)
BY DEF ScriptInv, MutexHeld, Reading

(* A call moves between places where it does not read. *)
LEMMA OtherwiseKept ==
  ASSUME ScriptInv, NEW c \in Calls, NEW e \in Executions,
         ~ Reading(c), e.pc # "reading",
         e.got = exec[c].got, e.lag = exec[c].lag,
         exec' = [exec EXCEPT ![c] = e],
         UNCHANGED worker, holder' \in Calls \cup {NoCall},
         MutexHeld', SpawnsWhenGone'
  PROVE  ScriptInv'
<1>1. \A d \in Calls : Reading(d)' <=> Reading(d)
  BY DEF ScriptInv, ScriptTypes, Reading
<1>2. ScriptTypes' BY DEF ScriptInv, ScriptTypes
<1>3. AwaitedLines' = AwaitedLines BY <1>1 DEF AwaitedLines
<1>4. Written' = Written /\ Answered' = Answered /\ Behind' = Behind
  BY DEF Written, Answered, Behind
<1>5. LinesBounded' BY <1>3, <1>4 DEF ScriptInv, LinesBounded
<1>6. LinesExact' BY <1>3, <1>4 DEF ScriptInv, LinesExact
<1>7. LinesAreAwaited'
  <2>1. \A d \in Calls : exec'[d].pc = "reading" <=> exec[d].pc = "reading"
    BY <1>1 DEF Reading
  <2> QED BY <2>1 DEF ScriptInv, LinesAreAwaited, Awaited, Reading
<1>8. GotOwn'
  <2>1. \A d \in Calls : exec'[d].got = exec[d].got /\ exec'[d].lag = exec[d].lag
    BY DEF ScriptInv, ScriptTypes
  <2> QED BY <2>1 DEF ScriptInv, GotOwn
<1> QED BY <1>2, <1>5, <1>6, <1>7, <1>8 DEF ScriptInv

(* A process without lines in its pipes, and nobody reads. *)
LEMMA EmptyPipes ==
  ASSUME ScriptInv, NEW c \in Calls, NEW p \in ExecPcs \ {"reading"},
         exec[c].pc \in {"spawning", "writing", "reading"},
         exec' = [exec EXCEPT ![c].pc = p],
         worker' \in Workers,
         worker'.stdin = << >>, worker'.stdout = << >>, worker'.lag = 0,
         holder' \in Calls \cup {NoCall}, MutexHeld', SpawnsWhenGone'
  PROVE  ScriptInv'
<1>1. \A d \in Calls : ~ Reading(d)'
  BY OneReader DEF ScriptInv, ScriptTypes, Executions, Reading
<1>2. ScriptTypes'
  <2>1. [exec[c] EXCEPT !.pc = p] \in Executions
    BY DEF ScriptInv, ScriptTypes, Executions
  <2> QED BY <2>1 DEF ScriptInv, ScriptTypes
<1>3. AwaitedLines' = 0 BY <1>1 DEF AwaitedLines
<1>4. Written' = 0 /\ Answered' = 0 /\ Behind' = 0 BY DEF Written, Answered, Behind
<1>5. LinesBounded' /\ LinesExact' BY <1>3, <1>4 DEF LinesBounded, LinesExact
<1>6. LinesAreAwaited' BY DEF LinesAreAwaited
<1>7. GotOwn'
  <2>1. \A d \in Calls : exec'[d].got = exec[d].got /\ exec'[d].lag = exec[d].lag
    BY DEF ScriptInv, ScriptTypes, Executions
  <2> QED BY <2>1 DEF ScriptInv, GotOwn
<1> QED BY <1>2, <1>5, <1>6, <1>7 DEF ScriptInv

(* execute gives up and drops the process. *)
LEMMA DiscardsKeep ==
  ASSUME ScriptInv, NEW c \in Calls, Discards(c),
         exec[c].pc \in {"spawning", "writing", "reading"}
  PROVE  ScriptInv'
<1>1. holder = c BY DEF ScriptInv, MutexHeld
<1>2. MutexHeld'
  BY <1>1, PipelineAssumption DEF Discards, ScriptInv, ScriptTypes, MutexHeld, Executions
<1>3. worker' \in Workers BY DEF Discards, NoWorker, Workers
<1>4. SpawnsWhenGone' BY DEF Discards, NoWorker, SpawnsWhenGone
<1> QED BY <1>2, <1>3, <1>4, EmptyPipes DEF Discards, NoWorker, ExecPcs

(* What the process gets of a line: one more, of that call or of nobody. *)
LEMMA SentLine ==
  ASSUME worker \in Workers, NEW c \in Calls
  PROVE  \E line \in {c, Invalid} :
           /\ Sent(c) \in Workers /\ Sent(c).alive = worker.alive
           /\ Sent(c).stdin = Append(worker.stdin, line)
           /\ Len(Sent(c).stdin) = Len(worker.stdin) + 1
           /\ Sent(c).stdout = worker.stdout /\ Sent(c).lag = worker.lag
<1> DEFINE line == IF worker.cut THEN Invalid ELSE c
           w == [worker EXCEPT !.stdin = Append(@, line)]
<1>1. line \in {c, Invalid} /\ line \in Lines BY DEF Lines
<1>2. Append(worker.stdin, line) \in Seq(Lines)
        /\ Len(Append(worker.stdin, line)) = Len(worker.stdin) + 1
  BY <1>1 DEF Workers
<1>3. Sent(c) = [w EXCEPT !.cut = FALSE] BY DEF Sent, Workers
<1> HIDE DEF line
<1>4. /\ w \in Workers /\ w.alive = worker.alive /\ w.stdin = Append(worker.stdin, line)
      /\ w.stdout = worker.stdout /\ w.lag = worker.lag
  BY <1>2 DEF Workers
<1> HIDE DEF w
<1>5. /\ Sent(c) \in Workers /\ Sent(c).alive = w.alive /\ Sent(c).stdin = w.stdin
      /\ Sent(c).stdout = w.stdout /\ Sent(c).lag = w.lag
  BY <1>3, <1>4 DEF Workers
<1> QED BY <1>1, <1>2, <1>4, <1>5

(* The request of a call is written to the process that waits for one. *)
LEMMA WriteKeeps ==
  ASSUME ScriptInv, NEW c \in Calls, WritesRequest(c)
  PROVE  ScriptInv'
<1> DEFINE e == [exec[c] EXCEPT !.pc = "reading"]
<1>1. /\ exec[c].pc = "writing" /\ worker.alive /\ UNCHANGED holder
      /\ exec' = [exec EXCEPT ![c] = e]
      /\ worker' = Sent(c)
  BY DEF WritesRequest
<1>2. e \in Executions /\ e.pc = "reading" /\ e.got = exec[c].got /\ e.lag = exec[c].lag
  BY DEF ScriptInv, ScriptTypes, Executions, ExecPcs
<1> HIDE DEF e
<1>3. worker \in Workers /\ exec \in [Calls -> Executions] BY DEF ScriptInv, ScriptTypes
<1>4. exec'[c] = e /\ \A d \in Calls \ {c} : exec'[d] = exec[d] BY <1>1, <1>3
<1>5. PICK line \in {c, Invalid} :
        /\ worker' \in Workers /\ worker'.alive
        /\ worker'.stdin = Append(worker.stdin, line)
        /\ Len(worker'.stdin) = Len(worker.stdin) + 1
        /\ worker'.stdout = worker.stdout /\ worker'.lag = worker.lag
  BY <1>1, <1>3, SentLine
<1>6. \A d \in Calls : ~ Reading(d) BY <1>1, OneReader DEF Reading
<1>7. AwaitedLines = 0 BY <1>6 DEF AwaitedLines
<1>8. Reading(c)' BY <1>2, <1>4 DEF Reading
<1>9. AwaitedLines' = 1 BY <1>8 DEF AwaitedLines
<1>10. Written' = Written + 1 /\ Answered' = Answered /\ Behind' = Behind
  BY <1>3, <1>5 DEF Workers, Written, Answered, Behind
<1>11. Written + Answered = Behind BY <1>1, <1>7, LinesType DEF ScriptInv, LinesExact
<1>12. LinesBounded' /\ LinesExact'
  BY <1>9, <1>10, <1>11, LinesType DEF LinesBounded, LinesExact, ScriptInv
<1>13. ScriptTypes' BY <1>1, <1>2, <1>5 DEF ScriptInv, ScriptTypes
<1>14. MutexHeld' BY <1>1, <1>2, <1>4 DEF ScriptInv, MutexHeld
<1>15. SpawnsWhenGone' BY <1>1, <1>2, <1>4 DEF ScriptInv, SpawnsWhenGone
<1>16. LinesAreAwaited'
  <2>1. ASSUME worker'.lag = 0 PROVE worker'.stdin = <<line>> /\ worker'.stdout = << >>
    <3>1. Behind = 0 BY <2>1, <1>10 DEF Behind
    <3>2. Written = 0 /\ Answered = 0 BY <3>1, <1>11, LinesType DEF ScriptInv
    <3>3. worker.stdin = << >> /\ worker.stdout = << >>
      BY <3>2, <1>3 DEF Written, Answered, Workers
    <3>4. Append(<< >>, line) = <<line>> OBVIOUS
    <3> QED BY <3>3, <3>4, <1>5
  <2>2. <<line>>[1] = line /\ Len(<<line>>) = 1 OBVIOUS
  <2>3. ASSUME worker'.lag = 0
        PROVE  \A i \in 1 .. Len(worker'.stdin) : worker'.stdin[i] \in {c, Invalid}
    BY <2>1, <2>2, <2>3
  <2>4. ASSUME worker'.lag = 0 PROVE Len(worker'.stdout) = 0 BY <2>1, <2>4
  <2> QED BY <2>3, <2>4, <1>8 DEF LinesAreAwaited, Awaited, Reading
<1>17. GotOwn' BY <1>2, <1>4 DEF ScriptInv, GotOwn
<1> QED BY <1>12, <1>13, <1>14, <1>15, <1>16, <1>17 DEF ScriptInv

LEMMA SumZero == ASSUME NEW a \in Nat, NEW b \in Nat, a + b =< 0 PROVE a = 0 /\ b = 0
OBVIOUS

(* The call that reads takes the first line: its own if none was left there. *)
LEMMA ReadKeeps ==
  ASSUME ScriptInv, NEW c \in Calls, ReadsAnswer(c)
  PROVE  ScriptInv'
<1> DEFINE e == [pc |-> "done", got |-> Head(worker.stdout), lag |-> worker.lag]
<1>1. /\ Reading(c) /\ worker.stdout # << >> /\ Head(worker.stdout) # Noise
      /\ holder' = NoCall
      /\ exec' = [exec EXCEPT ![c] = e]
      /\ worker' = [worker EXCEPT !.stdout = Tail(@)]
  BY DEF ReadsAnswer
<1>2. worker \in Workers /\ exec \in [Calls -> Executions] BY DEF ScriptInv, ScriptTypes
<1>3. /\ Head(worker.stdout) \in Outs /\ Head(worker.stdout) = worker.stdout[1]
      /\ Len(worker.stdout) >= 1
  BY <1>1, <1>2 DEF Workers
<1>4. /\ e \in Executions /\ e.pc = "done" /\ e.got = Head(worker.stdout)
      /\ e.lag = Behind
  BY <1>1, <1>2, <1>3 DEF Executions, ExecPcs, Workers, Outs, Lines, Behind
<1> HIDE DEF e
<1>5. exec'[c] = e /\ \A d \in Calls \ {c} : exec'[d] = exec[d] BY <1>1, <1>2
<1>6. /\ worker' \in Workers /\ worker'.alive = worker.alive
      /\ worker'.stdin = worker.stdin
      /\ worker'.stdout = Tail(worker.stdout) /\ worker'.lag = worker.lag
  <2>1. Tail(worker.stdout) \in Seq(Outs) BY <1>1, <1>2 DEF Workers
  <2> QED BY <1>1, <1>2, <2>1 DEF Workers
<1>7. Written' = Written /\ Answered' = Answered - 1 /\ Behind' = Behind
  <2>1. Len(Tail(worker.stdout)) = Len(worker.stdout) - 1 BY <1>1, <1>2 DEF Workers
  <2> QED BY <1>6, <2>1 DEF Written, Answered, Behind
<1>8. AwaitedLines = 1 BY <1>1 DEF AwaitedLines
<1>9. \A d \in Calls : ~ Reading(d)' BY <1>1, <1>4, <1>5, OneReader DEF Reading
<1>10. AwaitedLines' = 0 BY <1>9 DEF AwaitedLines
<1>11. LinesBounded'
  BY <1>7, <1>8, <1>10, LinesType DEF ScriptInv, LinesBounded
<1>12. LinesExact'
  BY <1>6, <1>7, <1>8, <1>10, LinesType DEF ScriptInv, LinesExact
<1>13. ScriptTypes' BY <1>1, <1>2, <1>4, <1>6 DEF ScriptTypes
<1>14. MutexHeld'
  <2>1. holder = c BY <1>1 DEF ScriptInv, MutexHeld, Reading
  <2> QED BY <1>1, <1>4, <1>5, <2>1, PipelineAssumption DEF ScriptInv, MutexHeld
<1>15. SpawnsWhenGone' BY <1>4, <1>5, <1>6 DEF ScriptInv, SpawnsWhenGone
<1>16. LinesAreAwaited'
  <2>1. ASSUME worker'.lag = 0 PROVE Written' = 0 /\ Answered' = 0
    <3>1. Behind' = 0 BY <2>1 DEF Behind
    <3>2. Written' \in Nat /\ Answered' \in Nat BY <1>6 DEF Written, Answered, Workers
    <3>3. Written' + Answered' =< Behind' + AwaitedLines' BY <1>11 DEF LinesBounded
    <3>4. Written' + Answered' =< 0 BY <3>1, <3>3, <1>10
    <3> QED BY <3>2, <3>4, SumZero
  <2> QED BY <2>1 DEF LinesAreAwaited, Written, Answered
<1>17. GotOwn'
  <2>1. ASSUME Behind = 0 PROVE Head(worker.stdout) \in {c, Invalid}
    <3>1. worker.stdout[1] = Noise \/ Awaited(worker.stdout[1])
      BY <2>1, <1>2, <1>3 DEF ScriptInv, LinesAreAwaited, Behind, Workers
    <3> QED BY <3>1, <1>1, <1>3, OneReader DEF Awaited, Reading
  <2>2. e.got \in {c, Invalid} \/ e.lag > 0 BY <2>1, <1>4, LinesType DEF ScriptInv
  <2> QED BY <2>2, <1>5 DEF ScriptInv, GotOwn
<1> QED BY <1>11, <1>12, <1>13, <1>14, <1>15, <1>16, <1>17 DEF ScriptInv

(* The steps of one call. *)
LEMMA ExecKeeps ==
  ASSUME ScriptInv, NEW c \in Calls, ExecStep(c)
  PROVE  ScriptInv'
<1> USE DEF ExecPcs
<1> DEFINE To(p) == [exec[c] EXCEPT !.pc = p]
<1>a. ASSUME NEW p \in ExecPcs
      PROVE  To(p) \in Executions /\ To(p).pc = p /\ To(p).got = exec[c].got
               /\ To(p).lag = exec[c].lag
  BY DEF ScriptInv, ScriptTypes, Executions
<1>1. CASE ExecuteRefused(c)
  <2>1. ~ Reading(c) BY <1>1 DEF ExecuteRefused, Reading
  <2>2. exec' = [exec EXCEPT ![c] = To("failed")] /\ UNCHANGED <<holder, worker>>
    BY <1>1 DEF ExecuteRefused
  <2>3. MutexHeld' BY <1>1 DEF ExecuteRefused, ScriptInv, ScriptTypes, MutexHeld, Executions
  <2>4. SpawnsWhenGone'
    BY <1>1 DEF ExecuteRefused, ScriptInv, ScriptTypes, SpawnsWhenGone, Executions
  <2> HIDE DEF To
  <2> QED BY <2>1, <2>2, <2>3, <2>4, <1>a, OtherwiseKept DEF ScriptInv, ScriptTypes
<1>2. CASE Locks(c)
  <2>1. ~ Reading(c) BY <1>2 DEF Locks, Reading
  <2>2. PICK p \in {"writing", "spawning"} :
          exec' = [exec EXCEPT ![c] = To(p)] /\ (p = "spawning" => ~ worker.alive)
    BY <1>2 DEF Locks
  <2>3. MutexHeld'
    BY <1>2, <2>2, PipelineAssumption DEF Locks, ScriptInv, ScriptTypes, MutexHeld, Executions
  <2>4. SpawnsWhenGone'
    BY <1>2, <2>2 DEF Locks, ScriptInv, ScriptTypes, SpawnsWhenGone, Executions
  <2>5. UNCHANGED worker /\ holder' = c BY <1>2 DEF Locks
  <2> HIDE DEF To
  <2> QED BY <2>1, <2>2, <2>3, <2>4, <2>5, <1>a, OtherwiseKept
<1>3. CASE Spawns(c)
  <2>1. MutexHeld' BY <1>3 DEF Spawns, ScriptInv, ScriptTypes, MutexHeld, Executions
  <2>2. \A d \in Calls : exec'[d].pc # "spawning"
    BY <1>3, PipelineAssumption
       DEF Spawns, ScriptInv, ScriptTypes, MutexHeld, Executions
  <2>3. SpawnsWhenGone' BY <2>2 DEF SpawnsWhenGone
  <2>4. worker' \in Workers
    <3>1. NoWorker \in Workers BY DEF NoWorker, Workers
    <3> QED BY <1>3, <3>1 DEF Spawns, Workers
  <2>5. worker'.stdin = << >> /\ worker'.stdout = << >> /\ worker'.lag = 0
    BY <1>3 DEF Spawns, NoWorker
  <2>6. holder' \in Calls \cup {NoCall} BY <1>3 DEF Spawns, ScriptInv, ScriptTypes
  <2> QED BY <1>3, <2>1, <2>3, <2>4, <2>5, <2>6, EmptyPipes DEF Spawns
<1>4. CASE SpawnFails(c)
  <2>1. ~ Reading(c) /\ holder = c BY <1>4 DEF SpawnFails, Reading, ScriptInv, MutexHeld
  <2>2. exec' = [exec EXCEPT ![c] = To("failed")] /\ UNCHANGED worker /\ holder' = NoCall
    BY <1>4 DEF SpawnFails
  <2>3. MutexHeld'
    BY <2>1, <2>2, PipelineAssumption
       DEF ScriptInv, ScriptTypes, MutexHeld, Executions
  <2>4. SpawnsWhenGone'
    BY <2>2 DEF ScriptInv, ScriptTypes, SpawnsWhenGone, Executions
  <2> HIDE DEF To
  <2> QED BY <2>1, <2>2, <2>3, <2>4, <1>a, OtherwiseKept
<1>5. CASE WritesRequest(c) BY <1>5, WriteKeeps
<1>6. CASE WriteFails(c) BY <1>6, DiscardsKeep DEF WriteFails
<1>7. CASE ReadsAnswer(c) BY <1>7, ReadKeeps
<1>8. CASE ReadsEof(c) BY <1>8, DiscardsKeep DEF ReadsEof, Reading
<1>9. CASE ScriptTimesOut(c) BY <1>9, DiscardsKeep DEF ScriptTimesOut, Reading
<1>10. CASE ReadsNoise(c) BY <1>10, DiscardsKeep DEF ReadsNoise, Reading
<1> QED BY <1>1, <1>2, <1>3, <1>4, <1>5, <1>6, <1>7, <1>8, <1>9, <1>10 DEF ExecStep

(* A dropped call leaves the line it has written, or was writing, behind. *)
LEMMA DropKeeps ==
  ASSUME ScriptInv, NEW c \in Calls, ExecDropped(c)
  PROVE  ScriptInv'
<1>1. NotExecuting \in Executions /\ NotExecuting.pc = "none" /\ NotExecuting.got = NoCall
  BY DEF NotExecuting, Executions, ExecPcs
<1>2. worker \in Workers /\ exec \in [Calls -> Executions] BY DEF ScriptInv, ScriptTypes
<1>3. /\ exec' = [exec EXCEPT ![c] = NotExecuting]
      /\ exec'[c] = NotExecuting /\ \A d \in Calls \ {c} : exec'[d] = exec[d]
  BY <1>2 DEF ExecDropped
<1>4. holder' = IF holder = c THEN NoCall ELSE holder BY DEF ExecDropped
<1>5. MutexHeld'
  BY <1>1, <1>3, <1>4, PipelineAssumption DEF ScriptInv, ScriptTypes, MutexHeld
<1>6. GotOwn' BY <1>1, <1>3 DEF ScriptInv, GotOwn
<1>7. \A d \in Calls : Reading(d)' <=> Reading(d) /\ d # c BY <1>1, <1>3 DEF Reading
<1>8. holder' \in Calls \cup {NoCall} BY <1>4 DEF ScriptInv, ScriptTypes
<1>9. exec' \in [Calls -> Executions] BY <1>1, <1>2, <1>3
<1>10. ASSUME worker'.alive = worker.alive PROVE SpawnsWhenGone'
  BY <1>1, <1>3, <1>10 DEF ScriptInv, SpawnsWhenGone
<1>11. Written \in Nat /\ Answered \in Nat /\ Behind \in Nat BY LinesType DEF ScriptInv
<1>12. CASE Reading(c)
  <2>1. /\ worker' \in Workers /\ worker'.alive = worker.alive
        /\ worker'.stdin = worker.stdin /\ Len(worker'.stdout) = Len(worker.stdout)
        /\ worker'.lag = worker.lag + 1
    <3>1. CASE worker' = [worker EXCEPT !.lag = @ + 1] BY <1>2, <3>1 DEF Workers
    <3>2. CASE worker.stdout # << >>
               /\ worker' = [worker EXCEPT !.lag = @ + 1, !.stdout[1] = Noise]
      <4> DEFINE cut == [worker.stdout EXCEPT ![1] = Noise]
                 w == [worker EXCEPT !.lag = @ + 1]
      <4>1. cut \in Seq(Outs) /\ Len(cut) = Len(worker.stdout)
        BY <1>2, <3>2 DEF Workers, Outs
      <4>2. worker' = [w EXCEPT !.stdout = cut] BY <1>2, <3>2 DEF Workers
      <4> HIDE DEF cut
      <4>3. /\ w \in Workers /\ w.alive = worker.alive /\ w.stdin = worker.stdin
            /\ w.lag = worker.lag + 1
        BY <1>2 DEF Workers
      <4> HIDE DEF w
      <4> QED BY <4>1, <4>2, <4>3 DEF Workers
    <3> QED BY <1>12, <3>1, <3>2 DEF ExecDropped, AnswerLeft, Reading
  <2>2. Written' = Written /\ Answered' = Answered /\ Behind' = Behind + 1
    BY <2>1 DEF Written, Answered, Behind
  <2>3. AwaitedLines = 1 BY <1>12 DEF AwaitedLines
  <2>4. AwaitedLines' = 0 BY <1>7, <1>12, OneReader DEF AwaitedLines, Reading
  <2>5. LinesBounded' BY <1>11, <2>2, <2>3, <2>4 DEF ScriptInv, LinesBounded
  <2>6. LinesExact' BY <1>11, <2>1, <2>2, <2>3, <2>4 DEF ScriptInv, LinesExact
  <2>7. worker'.lag # 0 BY <1>2, <2>1 DEF Workers
  <2>8. LinesAreAwaited' BY <2>7 DEF LinesAreAwaited
  <2> QED BY <1>5, <1>6, <1>8, <1>9, <1>10, <2>1, <2>5, <2>6, <2>8 DEF ScriptInv, ScriptTypes
<1>13. CASE exec[c].pc = "writing" /\ worker' = [Sent(c) EXCEPT !.lag = @ + 1]
  <2>1. PICK line \in {c, Invalid} :
          /\ Sent(c) \in Workers /\ Sent(c).alive = worker.alive
          /\ Sent(c).stdin = Append(worker.stdin, line)
          /\ Len(Sent(c).stdin) = Len(worker.stdin) + 1
          /\ Sent(c).stdout = worker.stdout /\ Sent(c).lag = worker.lag
    BY <1>2, SentLine
  <2>2. /\ worker' \in Workers /\ worker'.alive = worker.alive
        /\ Len(worker'.stdin) = Len(worker.stdin) + 1 /\ worker'.stdout = worker.stdout
        /\ worker'.lag = worker.lag + 1
    <3> DEFINE w == Sent(c)
    <3>1. /\ worker' = [w EXCEPT !.lag = @ + 1] /\ w \in Workers
          /\ w.alive = worker.alive /\ Len(w.stdin) = Len(worker.stdin) + 1
          /\ w.stdout = worker.stdout /\ w.lag = worker.lag
      BY <1>13, <2>1
    <3> HIDE DEF w
    <3>2. /\ worker' \in Workers /\ worker'.alive = w.alive /\ worker'.stdin = w.stdin
          /\ worker'.stdout = w.stdout /\ worker'.lag = w.lag + 1
      BY <3>1 DEF Workers
    <3> QED BY <3>1, <3>2
  <2>3. Written' = Written + 1 /\ Answered' = Answered /\ Behind' = Behind + 1
    BY <2>2 DEF Written, Answered, Behind
  <2>4. \A d \in Calls : ~ Reading(d) BY <1>13, OneReader DEF Reading
  <2>5. AwaitedLines = 0 BY <2>4 DEF AwaitedLines
  <2>6. AwaitedLines' = 0 BY <1>7, <2>4 DEF AwaitedLines
  <2>7. LinesBounded' BY <1>11, <2>3, <2>5, <2>6 DEF ScriptInv, LinesBounded
  <2>8. LinesExact' BY <1>11, <2>2, <2>3, <2>5, <2>6 DEF ScriptInv, LinesExact
  <2>9. worker'.lag # 0 BY <1>2, <2>2 DEF Workers
  <2>10. LinesAreAwaited' BY <2>9 DEF LinesAreAwaited
  <2> QED BY <1>5, <1>6, <1>8, <1>9, <1>10, <2>2, <2>7, <2>8, <2>10 DEF ScriptInv, ScriptTypes
<1>14. CASE ~ Reading(c) /\ worker' \in {worker, [worker EXCEPT !.cut = TRUE]}
  <2>1. /\ worker' \in Workers /\ worker'.alive = worker.alive
        /\ worker'.stdin = worker.stdin /\ worker'.stdout = worker.stdout
        /\ worker'.lag = worker.lag
    BY <1>2, <1>14 DEF Workers
  <2>2. Written' = Written /\ Answered' = Answered /\ Behind' = Behind
    BY <2>1 DEF Written, Answered, Behind
  <2>3. \A d \in Calls : Reading(d)' <=> Reading(d) BY <1>7, <1>14
  <2>4. AwaitedLines' = AwaitedLines BY <2>3 DEF AwaitedLines
  <2>5. LinesBounded' BY <2>2, <2>4 DEF ScriptInv, LinesBounded
  <2>6. LinesExact' BY <2>1, <2>2, <2>4 DEF ScriptInv, LinesExact
  <2>7. LinesAreAwaited'
    <3>1. \A d \in Calls : exec'[d].pc = "reading" <=> exec[d].pc = "reading"
      BY <2>3 DEF Reading
    <3> QED BY <2>1, <3>1 DEF ScriptInv, LinesAreAwaited, Awaited, Reading
  <2> QED BY <1>5, <1>6, <1>8, <1>9, <1>10, <2>1, <2>5, <2>6, <2>7 DEF ScriptInv, ScriptTypes
<1>15. CASE exec[c].pc = "writing" /\ worker.alive /\ LineLeft(c)
  BY <1>13, <1>14, <1>15 DEF LineLeft, Reading
<1> QED BY <1>12, <1>14, <1>15 DEF ExecDropped

(* A sequence without one of its elements. *)
LEMMA Removed ==
  ASSUME NEW S, NEW s \in Seq(S), NEW i \in DOMAIN s
  PROVE  /\ RemoveAt(s, i) \in Seq(S) /\ Len(RemoveAt(s, i)) = Len(s) - 1
         /\ \A j \in 1 .. Len(RemoveAt(s, i)) :
              \E k \in 1 .. Len(s) : RemoveAt(s, i)[j] = s[k]
<1> DEFINE front == SubSeq(s, 1, i - 1)
           rest == SubSeq(s, i + 1, Len(s))
<1>1. i \in 1 .. Len(s) /\ Len(s) \in Nat OBVIOUS
<1>2. /\ front \in Seq(S) /\ Len(front) = i - 1
      /\ \A j \in 1 .. i - 1 : front[j] = s[j]
  BY <1>1, SubSeqProperties
<1>3. /\ rest \in Seq(S) /\ Len(rest) = Len(s) - i
      /\ \A j \in 1 .. Len(s) - i : rest[j] = s[j + i]
  BY <1>1, SubSeqProperties
<1> HIDE DEF front, rest
<1>4. /\ front \o rest \in Seq(S) /\ Len(front \o rest) = Len(s) - 1
      /\ \A j \in 1 .. Len(s) - 1 :
           (front \o rest)[j] = IF j =< i - 1 THEN front[j] ELSE rest[j - (i - 1)]
  BY <1>1, <1>2, <1>3, ConcatProperties
<1>5. ASSUME NEW j \in 1 .. Len(s) - 1
      PROVE  \E k \in 1 .. Len(s) : (front \o rest)[j] = s[k]
  <2>1. CASE j =< i - 1
    <3>1. j \in 1 .. i - 1 /\ j \in 1 .. Len(s) BY <1>1, <2>1
    <3> QED BY <1>2, <1>4, <2>1, <3>1
  <2>2. CASE ~ j =< i - 1
    <3>1. j - (i - 1) \in 1 .. Len(s) - i /\ j + 1 \in 1 .. Len(s)
          /\ j - (i - 1) + i = j + 1
      BY <1>1, <2>2
    <3> QED BY <1>3, <1>4, <2>2, <3>1
  <2> QED BY <2>1, <2>2
<1> QED BY <1>4, <1>5 DEF RemoveAt, front, rest

(* Without its first element it is its tail. *)
LEMMA TailIsRemoved ==
  ASSUME NEW S, NEW s \in Seq(S), s # << >>
  PROVE  1 \in DOMAIN s /\ Tail(s) = RemoveAt(s, 1)
<1>1. 1 \in DOMAIN s OBVIOUS
<1>2. SubSeq(s, 1, 1 - 1) = << >> BY SubSeqEmpty
<1>3. Tail(s) = SubSeq(s, 1 + 1, Len(s)) OBVIOUS
<1>4. Tail(s) \in Seq(S) BY DEF Tail
<1>5. << >> \o Tail(s) = Tail(s) BY <1>4, ConcatEmptySeq
<1> QED BY <1>1, <1>2, <1>3, <1>5 DEF RemoveAt

(* A line of stdin goes, and one follows on stdout: that one, or no answer. *)
LEMMA LineGoesOn ==
  ASSUME ScriptInv, UNCHANGED <<holder, exec>>, NEW i \in DOMAIN worker.stdin,
         NEW line \in {worker.stdin[i], Noise},
         worker' = [worker EXCEPT !.stdin = RemoveAt(@, i), !.stdout = Append(@, line)]
  PROVE  ScriptInv'
<1>1. worker \in Workers BY DEF ScriptInv, ScriptTypes
<1> DEFINE rest == RemoveAt(worker.stdin, i)
<1>2. /\ rest \in Seq(Lines) /\ Len(rest) = Len(worker.stdin) - 1
      /\ \A j \in 1 .. Len(rest) : \E k \in 1 .. Len(worker.stdin) : rest[j] = worker.stdin[k]
  BY <1>1, Removed DEF Workers
<1>3. i \in 1 .. Len(worker.stdin) /\ line \in Outs BY <1>1 DEF Workers, Outs
<1>4. /\ Append(worker.stdout, line) \in Seq(Outs)
      /\ Len(Append(worker.stdout, line)) = Len(worker.stdout) + 1
      /\ \A j \in 1 .. Len(Append(worker.stdout, line)) :
           \/ Append(worker.stdout, line)[j] = line
           \/ /\ j \in 1 .. Len(worker.stdout)
              /\ Append(worker.stdout, line)[j] = worker.stdout[j]
  BY <1>1, <1>3 DEF Workers
<1>5. worker' = [worker EXCEPT !.stdin = rest, !.stdout = Append(@, line)] OBVIOUS
<1> HIDE DEF rest
<1>6. /\ worker' \in Workers /\ worker'.alive = worker.alive /\ worker'.lag = worker.lag
      /\ worker'.stdin = rest /\ worker'.stdout = Append(worker.stdout, line)
  <2> DEFINE w == [worker EXCEPT !.stdin = rest]
  <2>1. /\ w \in Workers /\ w.alive = worker.alive /\ w.lag = worker.lag
        /\ w.stdin = rest /\ w.stdout = worker.stdout
    BY <1>1, <1>2 DEF Workers
  <2>2. worker' = [w EXCEPT !.stdout = Append(worker.stdout, line)] BY <1>1, <1>5 DEF Workers
  <2> HIDE DEF w
  <2> QED BY <1>4, <2>1, <2>2 DEF Workers
<1>7. Written' = Written - 1 /\ Answered' = Answered + 1 /\ Behind' = Behind
  BY <1>2, <1>4, <1>6 DEF Written, Answered, Behind
<1>8. AwaitedLines' = AwaitedLines BY DEF AwaitedLines, Reading
<1>9. Written \in Nat /\ Answered \in Nat /\ Behind \in Nat /\ AwaitedLines \in {0, 1}
  BY LinesType DEF ScriptInv
<1>10. LinesBounded' BY <1>7, <1>8, <1>9 DEF ScriptInv, LinesBounded
<1>11. LinesExact' BY <1>6, <1>7, <1>8, <1>9 DEF ScriptInv, LinesExact
<1>12. LinesAreAwaited'
  <2>1. SUFFICES ASSUME worker'.lag = 0
                 PROVE  /\ \A j \in 1 .. Len(worker'.stdin) : Awaited(worker'.stdin[j])
                        /\ \A j \in 1 .. Len(worker'.stdout) :
                             worker'.stdout[j] = Noise \/ Awaited(worker'.stdout[j])
    BY DEF LinesAreAwaited, Awaited, Reading
  <2>2. /\ \A j \in 1 .. Len(worker.stdin) : Awaited(worker.stdin[j])
        /\ \A j \in 1 .. Len(worker.stdout) :
             worker.stdout[j] = Noise \/ Awaited(worker.stdout[j])
    BY <1>6, <2>1 DEF ScriptInv, LinesAreAwaited
  <2>3. line = Noise \/ Awaited(line) BY <1>3, <2>2
  <2>4. ASSUME NEW j \in 1 .. Len(rest) PROVE Awaited(rest[j]) BY <1>2, <2>2
  <2>5. ASSUME NEW j \in 1 .. Len(worker'.stdout)
        PROVE  worker'.stdout[j] = Noise \/ Awaited(worker'.stdout[j])
    BY <1>4, <1>6, <2>2, <2>3
  <2> QED BY <1>6, <2>4, <2>5
<1>13. MutexHeld' /\ GotOwn' BY DEF ScriptInv, MutexHeld, GotOwn
<1>14. SpawnsWhenGone' BY <1>6 DEF ScriptInv, SpawnsWhenGone
<1> QED BY <1>6, <1>10, <1>11, <1>12, <1>13, <1>14 DEF ScriptInv, ScriptTypes

(* The process answers a line, writes one of its own, or dies with the lines *)
(* it has not read.                                                          *)
LEMMA WorkerKeeps ==
  ASSUME ScriptInv, WorkerStep
  PROVE  ScriptInv'
<1>1. worker \in Workers /\ exec \in [Calls -> Executions] BY DEF ScriptInv, ScriptTypes
<1>2. UNCHANGED <<holder, exec>>
  BY DEF WorkerStep, WorkerAnswers, StrayLine, StrayText, WorkerDies
<1>3. \A d : Reading(d)' <=> Reading(d) BY <1>2 DEF Reading
<1>4. AwaitedLines' = AwaitedLines BY <1>3 DEF AwaitedLines
<1>5. MutexHeld' /\ GotOwn' BY <1>2 DEF ScriptInv, MutexHeld, GotOwn
<1>6. Written \in Nat /\ Answered \in Nat /\ Behind \in Nat /\ AwaitedLines \in {0, 1}
  BY LinesType DEF ScriptInv
<1>7. CASE WorkerAnswers
  <2>1. PICK i \in DOMAIN worker.stdin :
          worker' = [worker EXCEPT !.stdin = RemoveAt(@, i),
                                   !.stdout = Append(@, worker.stdin[i])]
    BY <1>7 DEF WorkerAnswers
  <2> QED BY <1>2, <2>1, LineGoesOn
<1>8. CASE StrayText
  <2>1. /\ worker.stdin # << >>
        /\ worker' = [worker EXCEPT !.stdin = Tail(@), !.stdout = Append(@, Noise)]
    BY <1>8 DEF StrayText
  <2>2. 1 \in DOMAIN worker.stdin /\ Tail(worker.stdin) = RemoveAt(worker.stdin, 1)
    BY <1>1, <2>1, TailIsRemoved DEF Workers
  <2> QED BY <1>2, <2>1, <2>2, LineGoesOn
<1>9. CASE StrayLine
  <2>1. PICK line \in {Stray, Noise} :
          worker' = [worker EXCEPT !.stdout = Append(@, line), !.lag = @ + 1]
    BY <1>9 DEF StrayLine
  <2>2. /\ worker' \in Workers /\ worker'.alive = worker.alive
        /\ worker'.stdin = worker.stdin /\ worker'.lag = worker.lag + 1
        /\ Len(worker'.stdout) = Len(worker.stdout) + 1
    <3> DEFINE w == [worker EXCEPT !.lag = @ + 1]
    <3>1. /\ w \in Workers /\ w.alive = worker.alive /\ w.lag = worker.lag + 1
          /\ w.stdin = worker.stdin /\ w.stdout = worker.stdout
      BY <1>1 DEF Workers
    <3>2. Append(worker.stdout, line) \in Seq(Outs)
          /\ Len(Append(worker.stdout, line)) = Len(worker.stdout) + 1
      BY <1>1 DEF Workers, Outs
    <3>3. worker' = [w EXCEPT !.stdout = Append(worker.stdout, line)]
      BY <1>1, <2>1 DEF Workers
    <3> HIDE DEF w
    <3> QED BY <3>1, <3>2, <3>3 DEF Workers
  <2>3. Written' = Written /\ Answered' = Answered + 1 /\ Behind' = Behind + 1
    BY <2>2 DEF Written, Answered, Behind
  <2>4. LinesBounded' BY <1>4, <1>6, <2>3 DEF ScriptInv, LinesBounded
  <2>5. LinesExact' BY <1>4, <1>6, <2>2, <2>3 DEF ScriptInv, LinesExact
  <2>6. worker'.lag # 0 BY <1>1, <2>2 DEF Workers
  <2>7. LinesAreAwaited' BY <2>6 DEF LinesAreAwaited
  <2>8. SpawnsWhenGone' BY <1>2, <2>2 DEF ScriptInv, SpawnsWhenGone
  <2> QED BY <1>2, <1>5, <2>2, <2>4, <2>5, <2>7, <2>8 DEF ScriptInv, ScriptTypes
<1>10. CASE WorkerDies
  <2>1. worker.alive /\ worker' = [worker EXCEPT !.alive = FALSE, !.stdin = << >>]
    BY <1>10 DEF WorkerDies
  <2>2. /\ worker' \in Workers /\ ~ worker'.alive /\ worker'.lag = worker.lag
        /\ worker'.stdin = << >> /\ worker'.stdout = worker.stdout
    <3> DEFINE w == [worker EXCEPT !.alive = FALSE]
    <3>1. /\ w \in Workers /\ ~ w.alive /\ w.stdout = worker.stdout /\ w.lag = worker.lag
      BY <1>1 DEF Workers
    <3>2. worker' = [w EXCEPT !.stdin = << >>] BY <1>1, <2>1 DEF Workers
    <3>3. << >> \in Seq(Lines) OBVIOUS
    <3> HIDE DEF w
    <3> QED BY <3>1, <3>2, <3>3 DEF Workers
  <2>3. Written' = 0 /\ Answered' = Answered /\ Behind' = Behind
    BY <2>2 DEF Written, Answered, Behind
  <2>4. LinesBounded' BY <1>4, <1>6, <2>3 DEF ScriptInv, LinesBounded
  <2>5. LinesExact' BY <2>2 DEF LinesExact
  <2>6. LinesAreAwaited' BY <1>2, <2>2 DEF ScriptInv, LinesAreAwaited, Awaited, Reading
  <2>7. SpawnsWhenGone' BY <2>2 DEF SpawnsWhenGone
  <2> QED BY <1>2, <1>5, <2>2, <2>4, <2>5, <2>6, <2>7 DEF ScriptInv, ScriptTypes
<1> QED BY <1>7, <1>8, <1>9, <1>10 DEF WorkerStep

LEMMA ScriptPreserved == ScriptInv /\ ScriptMoves => ScriptInv'
<1> SUFFICES ASSUME ScriptInv, ScriptMoves PROVE ScriptInv'
  OBVIOUS
<1>1. CASE UNCHANGED scriptVars
  BY <1>1 DEF scriptVars, ScriptInv, ScriptTypes, MutexHeld, SpawnsWhenGone, LinesBounded,
              LinesExact, LinesAreAwaited, Awaited, GotOwn, Written, Answered, Behind,
              AwaitedLines, Reading
<1> QED BY <1>1, ExecKeeps, DropKeeps, WorkerKeeps DEF ScriptMoves

LEMMA ScriptInitially == HttpInit => ScriptInv
<1> SUFFICES ASSUME HttpInit PROVE ScriptInv
  OBVIOUS
<1>1. holder = NoCall /\ worker = NoWorker /\ exec = [c \in Calls |-> NotExecuting]
  BY DEF HttpInit, ScriptInit
<1>2. NoWorker \in Workers /\ NotExecuting \in Executions
  BY DEF NoWorker, NotExecuting, Workers, Executions, ExecPcs
<1>3. \A c \in Calls : exec[c].pc = "none" /\ exec[c].got = NoCall
  BY <1>1 DEF NotExecuting
<1>4. Written = 0 /\ Answered = 0 /\ Behind = 0
  BY <1>1 DEF Written, Answered, Behind, NoWorker
<1>5. AwaitedLines = 0 BY <1>3 DEF AwaitedLines, Reading
<1>6. LinesBounded /\ LinesExact BY <1>4, <1>5 DEF LinesBounded, LinesExact
<1>7. LinesAreAwaited BY <1>1 DEF LinesAreAwaited, NoWorker
<1>8. MutexHeld /\ SpawnsWhenGone /\ GotOwn
  BY <1>1, <1>3, PipelineAssumption DEF MutexHeld, SpawnsWhenGone, GotOwn
<1> QED BY <1>1, <1>2, <1>6, <1>7, <1>8 DEF ScriptInv, ScriptTypes

(* The lines in the pipes of the interpreter are those of calls that were    *)
(* dropped, those that somebody else wrote and the one of the call that      *)
(* reads.  A call that finds them in step gets the answer to its own line,   *)
(* or hears that it was joined to a line cut before it, for any number of    *)
(* calls, stray lines, deaths of the process and timeouts.                   *)
THEOREM OutputsMatchedCorrect == HttpSpec => []OutputsMatched
<1>1. ScriptInv /\ [HttpNext]_httpVars => ScriptInv'
  BY ScriptFrame, ScriptPreserved
<1>2. ScriptInv => OutputsMatched
  BY DEF ScriptInv, LinesExact, GotOwn, OutputsMatched, Written, Answered, Behind, AwaitedLines
<1> QED BY <1>1, <1>2, ScriptInitially, PTL DEF HttpSpec

-----------------------------------------------------------------------------
(* The limiters *)

(* A product grows with its factors; what is refilled in two parts is what   *)
(* is refilled at once.                                                      *)
LEMMA ProductGrows ==
  ASSUME NEW k \in Nat, NEW a \in Int, NEW b \in Int, a =< b PROVE k * a =< k * b
OBVIOUS

LEMMA RefillAdds ==
  ASSUME NEW k \in Nat, NEW a \in Int, NEW b \in Int, NEW c \in Int
  PROVE  k * (b - c) + (a - b) * k = k * (a - c)
OBVIOUS

LEMMA MinOfTwo ==
  ASSUME NEW a \in Nat, NEW b \in Nat PROVE Min({a, b}) \in Nat /\ Min({a, b}) =< a
BY DEF Min

LEMMA DivBounds ==
  ASSUME NEW a \in Nat, NEW b \in Nat \ {0}
  PROVE  a \div b \in Nat /\ (a \div b) * b =< a /\ a < ((a \div b) + 1) * b
OBVIOUS

LEMMA DivMonotone ==
  ASSUME NEW a \in Nat, NEW m \in Nat, a =< m, NEW b \in Nat \ {0}
  PROVE  a \div b =< m \div b
OBVIOUS

(* The window of the clock is one of the windows, and the clock is in it. *)
LEMMA WindowOfClock ==
  ASSUME clock \in Nat, clock =< MaxClock
  PROVE  /\ clock \div Window \in Windows
         /\ WindowStart(clock \div Window) =< clock /\ clock < WindowEnd(clock \div Window)
<1>1. clock \div Window =< MaxClock \div Window BY LimiterAssumption, DivMonotone
<1>2. MaxClock \div Window \in Nat BY LimiterAssumption, DivBounds
<1>3. clock \div Window \in Nat /\ WindowStart(clock \div Window) =< clock
        /\ clock < WindowEnd(clock \div Window)
  BY LimiterAssumption, DivBounds DEF WindowStart, WindowEnd
<1> QED BY <1>1, <1>2, <1>3 DEF Windows

LEMMA WindowLength ==
  ASSUME NEW w \in Windows
  PROVE  /\ WindowStart(w) \in Nat /\ WindowEnd(w) \in Nat
         /\ WindowEnd(w) = WindowStart(w) + Window
<1>1. w \in Nat BY DEF Windows
<1> QED BY <1>1, LimiterAssumption DEF WindowStart, WindowEnd

(* check: what is taken and left is what there was and what was refilled. *)
LEMMA ConsumeKeeps ==
  ASSUME LimiterInv, NEW r \in Reqs, TryConsume(r)
  PROVE  BucketInv' /\ bucket' \in Buckets
<1> DEFINE o == OrNew(bucket)
           b == Refilled(o)
           left == Burst + Rate * (clock - o.born)
<1>1. bucket \in Buckets /\ clock \in Nat BY DEF LimiterInv, LimiterTypes
<1>2. /\ o \in Buckets /\ o.there /\ o.born =< o.last /\ o.last =< clock
      /\ o.taken + o.tokens =< Burst + Rate * (o.last - o.born)
  <2>1. CASE bucket.there
    <3>1. o = bucket BY <2>1 DEF OrNew
    <3> HIDE DEF o
    <3> QED BY <1>1, <2>1, <3>1 DEF LimiterInv, BucketInv
  <2>2. CASE ~ bucket.there
    <3>1. o = [there |-> TRUE, tokens |-> Burst, last |-> clock, born |-> clock, taken |-> 0]
      BY <2>2 DEF OrNew
    <3>2. Rate * (clock - clock) = 0 BY <1>1, LimiterAssumption
    <3> HIDE DEF o
    <3> QED BY <1>1, <3>1, <3>2, LimiterAssumption DEF Buckets
  <2> QED BY <2>1, <2>2
<1> HIDE DEF o
<1> DEFINE n == Min({o.tokens + (clock - o.last) * Rate, Burst})
<1>3. o.tokens \in Nat /\ o.taken \in Nat /\ o.last \in Nat /\ o.born \in Nat
  BY <1>2 DEF Buckets
<1>4. (clock - o.last) * Rate \in Nat BY <1>1, <1>2, <1>3, LimiterAssumption
<1>5. n \in Nat /\ n =< o.tokens + (clock - o.last) * Rate
  <2> DEFINE x == o.tokens + (clock - o.last) * Rate
  <2>1. x \in Nat BY <1>3, <1>4
  <2> HIDE DEF x
  <2>2. Min({x, Burst}) \in Nat /\ Min({x, Burst}) =< x BY <2>1, LimiterAssumption, MinOfTwo
  <2> QED BY <2>2 DEF x
<1>6. b \in Buckets /\ b.there /\ b.tokens = n /\ b.last = clock /\ b.born = o.born
        /\ b.taken = o.taken
  <2> HIDE DEF n
  <2>1. b = [o EXCEPT !.tokens = n, !.last = clock] BY DEF Refilled, n
  <2> QED BY <1>1, <1>2, <1>5, <2>1 DEF Buckets
<1>7. o.taken + n =< left
  <2>1. Rate * (o.last - o.born) + (clock - o.last) * Rate = Rate * (clock - o.born)
    BY <1>1, <1>3, LimiterAssumption, RefillAdds
  <2>2. Rate * (o.last - o.born) \in Int /\ Rate * (clock - o.born) \in Int
    BY <1>1, <1>3, LimiterAssumption
  <2> HIDE DEF n
  <2> QED BY <1>2, <1>3, <1>4, <1>5, <2>1, <2>2, LimiterAssumption
<1>8. left \in Int BY <1>1, <1>3, LimiterAssumption
<1> HIDE DEF b, n
<1>9. CASE b.tokens >= 1
  <2>1. bucket' = [b EXCEPT !.tokens = @ - 1, !.taken = @ + 1]
    BY <1>9 DEF TryConsume, b, o
  <2>2. /\ bucket' \in Buckets /\ bucket'.there /\ bucket'.tokens = n - 1
        /\ bucket'.taken = o.taken + 1 /\ bucket'.last = clock /\ bucket'.born = o.born
    <3> DEFINE m == [b EXCEPT !.tokens = @ - 1]
    <3>1. /\ m \in Buckets /\ m.there /\ m.tokens = n - 1 /\ m.taken = o.taken
          /\ m.last = clock /\ m.born = o.born
      BY <1>3, <1>5, <1>6, <1>9 DEF Buckets
    <3>2. bucket' = [m EXCEPT !.taken = @ + 1] BY <1>6, <2>1 DEF Buckets
    <3> HIDE DEF m
    <3> QED BY <1>3, <3>1, <3>2 DEF Buckets
  <2>3. clock' = clock BY DEF TryConsume
  <2>4. bucket'.taken + bucket'.tokens =< left
    BY <1>3, <1>5, <1>7, <1>8, <2>2
  <2> QED BY <1>1, <1>2, <1>3, <2>2, <2>3, <2>4 DEF BucketInv
<1>10. CASE ~ (b.tokens >= 1)
  <2>1. bucket' = b /\ clock' = clock BY <1>10 DEF TryConsume, b, o
  <2>2. bucket'.taken + bucket'.tokens =< left BY <1>6, <1>7, <2>1
  <2> QED BY <1>1, <1>2, <1>3, <1>6, <2>1, <2>2 DEF BucketInv
<1> QED BY <1>9, <1>10

(* A bucket that is left alone keeps its account while time passes. *)
LEMMA BucketAges ==
  ASSUME LimiterInv, UNCHANGED bucket, clock' \in Nat, clock =< clock'
  PROVE  BucketInv' /\ bucket' \in Buckets
BY DEF LimiterInv, LimiterTypes, BucketInv, Buckets

(* A check moves on to a command for a window that has begun, or returns. *)
Checks == [pc : CheckPcs, window : Windows]
Begun(k) == k.pc \in {"window", "expire"} => WindowStart(k.window) =< clock

LEMMA CheckMoves ==
  ASSUME LimiterInv, NEW r \in Reqs, NEW k \in Checks, Begun(k),
         check' = [check EXCEPT ![r] = k], UNCHANGED clock
  PROVE  ChecksBegun' /\ check' \in [Reqs -> Checks]
BY DEF LimiterInv, LimiterTypes, WindowInv, ChecksBegun, Begun, Checks

LEMMA ReturnsWell ==
  ASSUME LimiterInv, NEW r \in Reqs, NEW pc \in {"allowed", "refused", "error", "none"},
         UNCHANGED clock, check' = [check EXCEPT ![r] = [NoCheck EXCEPT !.pc = pc]]
  PROVE  ChecksBegun' /\ check' \in [Reqs -> Checks]
<1> DEFINE k == [NoCheck EXCEPT !.pc = pc]
<1>1. 0 \in Windows
  BY LimiterAssumption, DivBounds DEF Windows
<1>2. k \in Checks /\ k.pc = pc BY <1>1 DEF NoCheck, Checks, CheckPcs
<1>3. Begun(k) BY <1>2 DEF Begun
<1>4. check' = [check EXCEPT ![r] = k] OBVIOUS
<1> HIDE DEF k
<1> QED BY <1>2, <1>3, <1>4, CheckMoves

(* The counter of one window moves, and what it admitted. *)
LEMMA CounterMoves ==
  ASSUME LimiterInv, UNCHANGED clock, NEW w \in Windows, NEW c \in Counters,
         NEW n \in Nat,
         counter' = [counter EXCEPT ![w] = c], admitted' = [admitted EXCEPT ![w] = n],
         c.expires # Never => c.expires > WindowEnd(w),
         clock < WindowEnd(w) => n =< c.count,
         n =< Limit
  PROVE  /\ counter' \in [Windows -> Counters] /\ admitted' \in [Windows -> Nat]
         /\ KeysOutlive' /\ WindowsCounted' /\ WindowBounded'
<1>1. /\ counter \in [Windows -> Counters] /\ admitted \in [Windows -> Nat]
      /\ KeysOutlive /\ WindowsCounted /\ WindowBounded
  BY DEF LimiterInv, LimiterTypes, WindowInv
<1>2. counter' \in [Windows -> Counters] /\ admitted' \in [Windows -> Nat] BY <1>1
<1>3. ASSUME NEW v \in Windows
      PROVE  KeyOutlives(v)' /\ Counted(v)' /\ admitted'[v] =< Limit
  <2>1. CASE v = w
    <3>1. counter'[v] = c /\ admitted'[v] = n BY <1>1, <2>1
    <3> QED BY <2>1, <3>1 DEF KeyOutlives, Counted, WindowEnd
  <2>2. CASE v # w
    <3>1. counter'[v] = counter[v] /\ admitted'[v] = admitted[v] BY <1>1, <2>2
    <3> QED BY <1>1, <3>1
            DEF KeysOutlive, WindowsCounted, WindowBounded, KeyOutlives, Counted, WindowEnd
  <2> QED BY <2>1, <2>2
<1> QED BY <1>2, <1>3 DEF KeysOutlive, WindowsCounted, WindowBounded, Limit

LEMMA CountersKept ==
  ASSUME LimiterInv, UNCHANGED <<clock, counter, admitted>>
  PROVE  /\ counter' \in [Windows -> Counters] /\ admitted' \in [Windows -> Nat]
         /\ KeysOutlive' /\ WindowsCounted' /\ WindowBounded'
BY DEF LimiterInv, LimiterTypes, WindowInv, KeysOutlive, WindowsCounted, WindowBounded,
       KeyOutlives, Counted, WindowEnd, Limit

(* A second passes: a key that expires now is of a window that is over. *)
LEMMA TickKeeps == ASSUME LimiterInv, LimiterTick PROVE LimiterInv'
<1>1. /\ clock \in Nat /\ clock' = clock + 1 /\ clock' \in Nat /\ clock' =< MaxClock
      /\ UNCHANGED <<bucket, check, admitted>>
  BY LimiterAssumption DEF LimiterTick, LimiterInv, LimiterTypes
<1>2. /\ counter \in [Windows -> Counters] /\ admitted \in [Windows -> Nat]
      /\ KeysOutlive /\ WindowsCounted /\ WindowBounded /\ ChecksBegun
  BY DEF LimiterInv, LimiterTypes, WindowInv
<1>3. NoCounter \in Counters /\ NoCounter.expires = Never BY DEF NoCounter, Counters
<1>4. ASSUME NEW w \in Windows
      PROVE  counter'[w] = IF Expired(counter[w], clock + 1) THEN NoCounter ELSE counter[w]
  BY DEF LimiterTick
<1>5. counter' \in [Windows -> Counters]
  <2>1. counter' = [w \in Windows |->
                      IF Expired(counter[w], clock + 1) THEN NoCounter ELSE counter[w]]
    BY DEF LimiterTick
  <2> QED BY <1>2, <1>3, <2>1
<1>6. ASSUME NEW w \in Windows PROVE KeyOutlives(w)' /\ Counted(w)'
  <2>1. WindowEnd(w) \in Nat BY WindowLength
  <2>2. WindowEnd(w)' = WindowEnd(w) BY DEF WindowEnd
  <2>3. CASE Expired(counter[w], clock + 1)
    <3>1. counter'[w].expires = Never BY <1>3, <1>4, <2>3
    <3>2. ~ (clock' < WindowEnd(w))
      <4>1. counter[w].expires # Never /\ counter[w].expires =< clock + 1
        BY <2>3 DEF Expired
      <4>2. counter[w].expires > WindowEnd(w) BY <1>2, <4>1 DEF KeysOutlive, KeyOutlives
      <4>3. counter[w].expires \in Nat BY <1>2, <4>1 DEF Counters
      <4> QED BY <1>1, <2>1, <4>1, <4>2, <4>3
    <3> QED BY <2>2, <3>1, <3>2 DEF KeyOutlives, Counted
  <2>4. CASE ~ Expired(counter[w], clock + 1)
    <3>1. counter'[w] = counter[w] BY <1>4, <2>4
    <3> QED BY <1>1, <1>2, <2>1, <2>2, <3>1 DEF KeysOutlive, WindowsCounted, KeyOutlives, Counted
  <2> QED BY <2>3, <2>4
<1>7. WindowBounded' BY <1>1, <1>2 DEF WindowBounded, Limit
<1>8. ChecksBegun'
  <2>1. \A r \in Reqs : WindowStart(check[r].window) \in Nat
    BY WindowLength DEF LimiterInv, LimiterTypes
  <2> QED BY <1>1, <1>2, <2>1 DEF ChecksBegun, WindowStart
<1>9. BucketInv' /\ bucket' \in Buckets BY <1>1, BucketAges
<1> QED BY <1>1, <1>2, <1>5, <1>6, <1>7, <1>8, <1>9
    DEF LimiterInv, LimiterTypes, WindowInv, KeysOutlive, WindowsCounted

(* The parts put together again. *)
LEMMA LimiterWhole ==
  ASSUME clock' \in Nat, clock' =< MaxClock,
         BucketInv', bucket' \in Buckets,
         counter' \in [Windows -> Counters], admitted' \in [Windows -> Nat],
         KeysOutlive', WindowsCounted', WindowBounded',
         ChecksBegun', check' \in [Reqs -> Checks]
  PROVE  LimiterInv'
BY DEF LimiterInv, LimiterTypes, WindowInv, Checks

(* The window of a check, and the counter of a window. *)
LEMMA CheckedWindow ==
  ASSUME LimiterInv, NEW r \in Reqs
  PROVE  /\ check[r] \in Checks /\ check[r].window \in Windows
         /\ counter[check[r].window] \in Counters
         /\ counter[check[r].window].count \in Nat
         /\ admitted[check[r].window] \in Nat
         /\ admitted[check[r].window] =< Limit
         /\ KeyOutlives(check[r].window) /\ Counted(check[r].window)
         /\ Begun(check[r])
BY DEF LimiterInv, LimiterTypes, WindowInv, KeysOutlive, WindowsCounted, WindowBounded,
       ChecksBegun, Checks, Counters, Begun

LEMMA RateKeyKeeps == ASSUME LimiterInv, NEW r \in Reqs, RateKey(r) PROVE LimiterInv'
<1> DEFINE k == [check[r] EXCEPT !.pc = "window", !.window = clock \div Window]
<1>1. clock \in Nat /\ clock =< MaxClock BY DEF LimiterInv, LimiterTypes
<1>2. clock \div Window \in Windows /\ WindowStart(clock \div Window) =< clock
  BY <1>1, WindowOfClock
<1>3. UNCHANGED <<clock, bucket, counter, admitted>> /\ check' = [check EXCEPT ![r] = k]
  BY DEF RateKey
<1>4. k \in Checks /\ k.pc = "window" /\ k.window = clock \div Window
  BY <1>2, CheckedWindow DEF Checks, CheckPcs
<1> HIDE DEF k
<1>5. Begun(k) BY <1>2, <1>4 DEF Begun
<1>6. ChecksBegun' /\ check' \in [Reqs -> Checks] BY <1>3, <1>4, <1>5, CheckMoves
<1> QED BY <1>1, <1>3, <1>6, CountersKept, BucketAges, LimiterWhole

(* INCR: a check that is allowed while its window runs is counted. *)
LEMMA IncrKeeps == ASSUME LimiterInv, NEW r \in Reqs, Incr(r) PROVE LimiterInv'
<1> DEFINE w == check[r].window
           n == counter[w].count + 1
           c == [counter[w] EXCEPT !.count = n]
           k == [check[r] EXCEPT !.pc = "expire"]
           a == IF Within(n) /\ clock \div Window = w THEN admitted[w] + 1 ELSE admitted[w]
<1>1. clock \in Nat /\ clock =< MaxClock BY DEF LimiterInv, LimiterTypes
<1>2. /\ check[r].pc = "window" /\ UNCHANGED <<clock, bucket>>
      /\ counter' = [counter EXCEPT ![w] = c]
      /\ check' = IF n = 1 THEN [check EXCEPT ![r] = k]
                  ELSE Returns(r, IF Within(n) THEN "allowed" ELSE "refused")
      /\ admitted' = IF Within(n) /\ clock \div Window = w
                       THEN [admitted EXCEPT ![w] = @ + 1] ELSE admitted
  BY DEF Incr
<1>3. /\ check[r] \in Checks /\ w \in Windows /\ counter[w] \in Counters
      /\ counter[w].count \in Nat /\ admitted[w] \in Nat /\ admitted[w] =< Limit
      /\ KeyOutlives(w) /\ Counted(w) /\ WindowStart(w) =< clock
  BY <1>2, CheckedWindow DEF Begun
<1>4. admitted' = [admitted EXCEPT ![w] = a]
  <2>1. admitted \in [Windows -> Nat] BY DEF LimiterInv, LimiterTypes
  <2>2. CASE Within(n) /\ clock \div Window = w
    BY <1>2, <2>2
  <2>3. CASE ~ (Within(n) /\ clock \div Window = w)
    BY <1>2, <1>3, <2>1, <2>3
  <2> QED BY <2>2, <2>3
<1>5. ChecksBegun' /\ check' \in [Reqs -> Checks]
  <2>1. CASE n = 1
    <3>1. k \in Checks /\ k.pc = "expire" /\ k.window = w BY <1>3 DEF Checks, CheckPcs
    <3>2. check' = [check EXCEPT ![r] = k] BY <1>2, <2>1
    <3>3. Begun(k) BY <1>3, <3>1 DEF Begun
    <3> HIDE DEF k
    <3> QED BY <1>2, <3>1, <3>2, <3>3, CheckMoves
  <2>2. CASE n # 1
    <3>1. PICK pc \in {"allowed", "refused"} : check' = Returns(r, pc) BY <1>2, <2>2
    <3>2. check' = [check EXCEPT ![r] = [NoCheck EXCEPT !.pc = pc]] BY <3>1 DEF Returns
    <3>3. UNCHANGED clock BY <1>2
    <3> QED BY <3>2, <3>3, ReturnsWell
  <2> QED BY <2>1, <2>2
<1>6. c \in Counters /\ c.count = n /\ c.expires = counter[w].expires /\ n \in Nat
  BY <1>3 DEF Counters
<1>7. c.expires # Never => c.expires > WindowEnd(w) BY <1>3, <1>6 DEF KeyOutlives
<1>8. WindowEnd(w) \in Nat BY <1>3, WindowLength
<1>9. Limit \in Nat BY LimiterAssumption DEF Limit
<1>10. a \in Nat /\ a =< Limit /\ (clock < WindowEnd(w) => a =< n)
  <2>1. clock < WindowEnd(w) => admitted[w] =< counter[w].count BY <1>3 DEF Counted
  <2>2. CASE Within(n) /\ clock \div Window = w
    <3>1. clock < WindowEnd(w) BY <1>1, <2>2, WindowOfClock
    <3>2. n =< Limit BY <2>2 DEF Within
    <3>3. a = admitted[w] + 1 BY <2>2
    <3>4. admitted[w] =< counter[w].count BY <2>1, <3>1
    <3> QED BY <1>3, <1>9, <3>2, <3>3, <3>4
  <2>3. CASE ~ (Within(n) /\ clock \div Window = w)
    <3>1. a = admitted[w] BY <2>3
    <3> QED BY <1>3, <2>1, <3>1
  <2> QED BY <2>2, <2>3
<1> HIDE DEF w, c, a, k
<1>11. /\ counter' \in [Windows -> Counters] /\ admitted' \in [Windows -> Nat]
       /\ KeysOutlive' /\ WindowsCounted' /\ WindowBounded'
  <2>1. clock < WindowEnd(w) => a =< c.count BY <1>6, <1>10
  <2> QED BY <1>2, <1>3, <1>4, <1>6, <1>7, <1>10, <2>1, CounterMoves
<1> QED BY <1>1, <1>2, <1>5, <1>11, BucketAges, LimiterWhole

(* EXPIRE: the key outlives its window, because the window has begun. *)
LEMMA ExpireKeeps == ASSUME LimiterInv, NEW r \in Reqs, Expire(r) PROVE LimiterInv'
<1> DEFINE w == check[r].window
           c == [counter[w] EXCEPT !.expires = clock + ExpireSeconds]
           d == IF counter[w].count = 0 \/ Expired(c, clock) THEN NoCounter ELSE c
<1>1. clock \in Nat /\ clock =< MaxClock BY DEF LimiterInv, LimiterTypes
<1>2. /\ check[r].pc = "expire" /\ UNCHANGED <<clock, bucket, admitted>>
      /\ counter' = [counter EXCEPT ![w] = d]
      /\ check' = Returns(r, IF Within(1) THEN "allowed" ELSE "refused")
  BY DEF Expire
<1>3. /\ w \in Windows /\ counter[w] \in Counters
      /\ counter[w].count \in Nat /\ admitted[w] \in Nat /\ admitted[w] =< Limit
      /\ Counted(w) /\ WindowStart(w) =< clock
  BY <1>2, CheckedWindow DEF Begun
<1>4. ChecksBegun' /\ check' \in [Reqs -> Checks]
  <2>1. PICK pc \in {"allowed", "refused"} : check' = Returns(r, pc) BY <1>2
  <2> QED BY <1>2, <2>1, ReturnsWell DEF Returns
<1>5. ExpireSeconds \in Nat /\ ExpireSeconds = Window + 1 /\ Window \in Nat
  BY LimiterAssumption DEF ExpireSeconds
<1>6. /\ c \in Counters /\ c.count = counter[w].count
      /\ c.expires = clock + ExpireSeconds
  BY <1>1, <1>3, <1>5 DEF Counters
<1>7. ~ Expired(c, clock) /\ c.expires > WindowEnd(w)
  BY <1>1, <1>3, <1>5, <1>6, WindowLength DEF Expired
<1>8. /\ d \in Counters /\ d.count = counter[w].count
      /\ d.expires # Never => d.expires > WindowEnd(w)
  <2>1. CASE counter[w].count = 0
    <3>1. d = NoCounter BY <2>1
    <3> HIDE DEF d
    <3> QED BY <2>1, <3>1 DEF NoCounter, Counters
  <2>2. CASE counter[w].count # 0
    <3>1. d = c BY <1>7, <2>2
    <3> HIDE DEF d, c
    <3> QED BY <1>6, <1>7, <3>1
  <2> QED BY <2>1, <2>2
<1> HIDE DEF w, c, d
<1>9. clock < WindowEnd(w) => admitted[w] =< d.count BY <1>3, <1>8 DEF Counted
<1>10. admitted' = [admitted EXCEPT ![w] = admitted[w]]
  BY <1>2 DEF LimiterInv, LimiterTypes
<1>11. /\ counter' \in [Windows -> Counters] /\ admitted' \in [Windows -> Nat]
       /\ KeysOutlive' /\ WindowsCounted' /\ WindowBounded'
  BY <1>2, <1>3, <1>8, <1>9, <1>10, CounterMoves
<1> QED BY <1>1, <1>2, <1>4, <1>11, BucketAges, LimiterWhole

LEMMA ExpireFailsKeeps == ASSUME LimiterInv, NEW r \in Reqs, ExpireFails(r) PROVE LimiterInv'
<1>1. clock \in Nat /\ clock =< MaxClock BY DEF LimiterInv, LimiterTypes
<1>2. PICK pc \in {"allowed", "refused"} :
        check' = Returns(r, pc) /\ UNCHANGED <<clock, bucket, counter, admitted>>
  BY DEF ExpireFails
<1>3. ChecksBegun' /\ check' \in [Reqs -> Checks] BY <1>2, ReturnsWell DEF Returns
<1> QED BY <1>1, <1>2, <1>3, CountersKept, BucketAges, LimiterWhole

(* An INCR that is not answered may have counted: too many, never too few. *)
LEMMA IncrFailsKeeps == ASSUME LimiterInv, NEW r \in Reqs, IncrFails(r) PROVE LimiterInv'
<1> DEFINE w == check[r].window
           c == [counter[w] EXCEPT !.count = @ + 1]
<1>1. clock \in Nat /\ clock =< MaxClock BY DEF LimiterInv, LimiterTypes
<1>2. /\ check' = Returns(r, "error") /\ UNCHANGED <<clock, bucket, admitted>>
      /\ UNCHANGED counter \/ counter' = [counter EXCEPT ![w] = c]
  BY DEF IncrFails
<1>3. ChecksBegun' /\ check' \in [Reqs -> Checks] BY <1>2, ReturnsWell DEF Returns
<1>4. CASE UNCHANGED counter
  BY <1>1, <1>2, <1>3, <1>4, CountersKept, BucketAges, LimiterWhole
<1>5. CASE counter' = [counter EXCEPT ![w] = c]
  <2>1. /\ w \in Windows /\ counter[w] \in Counters
        /\ counter[w].count \in Nat /\ admitted[w] \in Nat /\ admitted[w] =< Limit
        /\ Counted(w) /\ KeyOutlives(w)
    BY CheckedWindow
  <2>2. c \in Counters /\ c.count = counter[w].count + 1 /\ c.expires = counter[w].expires
    BY <2>1 DEF Counters
  <2> HIDE DEF w, c
  <2>3. clock < WindowEnd(w) => admitted[w] =< c.count BY <2>1, <2>2 DEF Counted
  <2>4. c.expires # Never => c.expires > WindowEnd(w) BY <2>1, <2>2 DEF KeyOutlives
  <2>5. admitted' = [admitted EXCEPT ![w] = admitted[w]]
    BY <1>2 DEF LimiterInv, LimiterTypes
  <2>6. /\ counter' \in [Windows -> Counters] /\ admitted' \in [Windows -> Nat]
        /\ KeysOutlive' /\ WindowsCounted' /\ WindowBounded'
    BY <1>2, <1>5, <2>1, <2>2, <2>3, <2>4, <2>5, CounterMoves
  <2> QED BY <1>1, <1>2, <1>3, <2>6, BucketAges, LimiterWhole
<1> QED BY <1>2, <1>4, <1>5

(* reset: the count and what it admitted start again. *)
LEMMA ResetCounterKeeps == ASSUME LimiterInv, ResetCounter PROVE LimiterInv'
<1> DEFINE w == clock \div Window
<1>1. clock \in Nat /\ clock =< MaxClock BY DEF LimiterInv, LimiterTypes
<1>2. /\ UNCHANGED <<clock, bucket, check>>
      /\ counter' = [counter EXCEPT ![w] = NoCounter] /\ admitted' = [admitted EXCEPT ![w] = 0]
  BY DEF ResetCounter
<1>3. w \in Windows BY <1>1, WindowOfClock
<1>4. NoCounter \in Counters /\ NoCounter.expires = Never /\ NoCounter.count = 0
  BY DEF NoCounter, Counters
<1>5. 0 =< Limit BY LimiterAssumption DEF Limit
<1> HIDE DEF w
<1>6. /\ counter' \in [Windows -> Counters] /\ admitted' \in [Windows -> Nat]
      /\ KeysOutlive' /\ WindowsCounted' /\ WindowBounded'
  <2>1. /\ NoCounter.expires # Never => NoCounter.expires > WindowEnd(w)
        /\ clock < WindowEnd(w) => 0 =< NoCounter.count
    BY <1>4
  <2>2. 0 \in Nat OBVIOUS
  <2>3. NoCounter \in Counters BY <1>4
  <2> QED BY <1>2, <1>3, <1>5, <2>1, <2>2, <2>3, CounterMoves
<1>7. ChecksBegun' /\ check' \in [Reqs -> Checks]
  BY <1>2 DEF LimiterInv, LimiterTypes, WindowInv, ChecksBegun, Checks, WindowStart
<1> QED BY <1>1, <1>2, <1>6, <1>7, BucketAges, LimiterWhole

LEMMA LimiterPreserved == LimiterInv /\ LimiterMoves => LimiterInv'
<1> SUFFICES ASSUME LimiterInv, LimiterMoves PROVE LimiterInv'
  OBVIOUS
<1>1. clock \in Nat /\ clock =< MaxClock BY DEF LimiterInv, LimiterTypes
<1>2. ASSUME NEW r \in Reqs, TryConsume(r) PROVE LimiterInv'
  <2>1. UNCHANGED <<clock, counter, admitted>> BY <1>2 DEF TryConsume
  <2>2. PICK pc \in {"allowed", "refused"} :
          check[r].pc = "none" /\ check' = [check EXCEPT ![r].pc = pc]
    BY <1>2 DEF TryConsume
  <2> DEFINE k == [check[r] EXCEPT !.pc = pc]
  <2>3. k \in Checks /\ k.pc = pc BY CheckedWindow DEF Checks, CheckPcs
  <2>4. check' = [check EXCEPT ![r] = k] BY <2>2
  <2> HIDE DEF k
  <2>5. Begun(k) BY <2>3 DEF Begun
  <2>6. ChecksBegun' /\ check' \in [Reqs -> Checks] BY <2>1, <2>3, <2>4, <2>5, CheckMoves
  <2> QED BY <1>1, <1>2, <2>1, <2>6, ConsumeKeeps, CountersKept, LimiterWhole
<1>3. CASE ResetBucket
  <2>1. UNCHANGED <<clock, counter, admitted, check>> /\ bucket' = NoBucket
    BY <1>3 DEF ResetBucket
  <2>2. BucketInv' /\ bucket' \in Buckets BY <2>1 DEF BucketInv, NoBucket, Buckets
  <2>3. ChecksBegun' /\ check' \in [Reqs -> Checks]
    BY <2>1 DEF LimiterInv, LimiterTypes, WindowInv, ChecksBegun, Checks, WindowStart
  <2> QED BY <1>1, <2>1, <2>2, <2>3, CountersKept, LimiterWhole
<1>4. ASSUME NEW r \in Reqs, CheckDropped(r), UNCHANGED <<clock, bucket, counter, admitted>>
      PROVE  LimiterInv'
  <2>1. check' = [check EXCEPT ![r] = [NoCheck EXCEPT !.pc = "none"]]
    BY <1>4 DEF CheckDropped, NoCheck
  <2>2. ChecksBegun' /\ check' \in [Reqs -> Checks] BY <1>4, <2>1, ReturnsWell
  <2> QED BY <1>1, <1>4, <2>2, CountersKept, BucketAges, LimiterWhole
<1>5. CASE UNCHANGED limiterVars
  <2>1. UNCHANGED <<clock, bucket, counter, admitted, check>> BY <1>5 DEF limiterVars
  <2>2. ChecksBegun' /\ check' \in [Reqs -> Checks]
    BY <2>1 DEF LimiterInv, LimiterTypes, WindowInv, ChecksBegun, Checks, WindowStart
  <2> QED BY <1>1, <2>1, <2>2, CountersKept, BucketAges, LimiterWhole
<1>6. ASSUME NEW r \in Reqs, RedisStep(r) PROVE LimiterInv'
  BY <1>6, RateKeyKeeps, IncrKeeps, ExpireKeeps, ExpireFailsKeeps, IncrFailsKeeps DEF RedisStep
<1> QED BY <1>2, <1>3, <1>4, <1>5, <1>6, TickKeeps, ResetCounterKeeps DEF LimiterMoves, MemoryStep

LEMMA LimiterInitially == HttpInit => LimiterInv
<1> SUFFICES ASSUME HttpInit PROVE LimiterInv
  OBVIOUS
<1>1. /\ clock = 0 /\ bucket = NoBucket /\ counter = [w \in Windows |-> NoCounter]
      /\ check = [r \in Reqs |-> NoCheck] /\ admitted = [w \in Windows |-> 0]
  BY DEF HttpInit, LimiterInit
<1>2. 0 \in Windows BY LimiterAssumption, DivBounds DEF Windows
<1>3. /\ NoBucket \in Buckets /\ ~ NoBucket.there /\ NoCounter \in Counters
      /\ NoCounter.expires = Never /\ NoCounter.count = 0
      /\ NoCheck \in [pc : CheckPcs, window : Windows] /\ NoCheck.pc = "none"
  BY <1>2 DEF NoBucket, NoCounter, NoCheck, Buckets, Counters, CheckPcs
<1>4. LimiterTypes BY <1>1, <1>3, LimiterAssumption DEF LimiterTypes
<1>5. BucketInv BY <1>1, <1>3 DEF BucketInv
<1>6. Limit \in Nat BY LimiterAssumption DEF Limit
<1>7. WindowInv
  BY <1>1, <1>3, <1>6 DEF WindowInv, KeysOutlive, KeyOutlives, ChecksBegun, WindowsCounted,
                          Counted, WindowBounded
<1> QED BY <1>4, <1>5, <1>7 DEF LimiterInv

(* What a bucket has let through is bounded by what it was refilled with. *)
LEMMA LimiterBounds == LimiterInv => LimitsHold
<1> SUFFICES ASSUME LimiterInv PROVE LimitsHold
  OBVIOUS
<1>1. bucket \in Buckets /\ clock \in Nat BY DEF LimiterInv, LimiterTypes
<1>2. BucketBounded
  <2>1. CASE bucket.there
    <3>1. /\ bucket.tokens \in Nat /\ bucket.taken \in Nat
          /\ bucket.born \in Nat /\ bucket.last \in Nat
      BY <1>1 DEF Buckets
    <3>2. /\ bucket.last =< clock
          /\ bucket.taken + bucket.tokens =< Burst + Rate * (bucket.last - bucket.born)
      BY <2>1 DEF LimiterInv, BucketInv
    <3>3. Rate * (bucket.last - bucket.born) =< Rate * (clock - bucket.born)
      BY <1>1, <3>1, <3>2, ProductGrows, LimiterAssumption
    <3>4. Rate * (bucket.last - bucket.born) \in Int /\ Rate * (clock - bucket.born) \in Int
      BY <1>1, <3>1, LimiterAssumption
    <3> QED BY <3>1, <3>2, <3>3, <3>4, LimiterAssumption DEF BucketBounded
  <2>2. CASE ~ bucket.there
    <3>1. bucket.taken = 0 /\ bucket.born = 0 BY <2>2 DEF LimiterInv, BucketInv, NoBucket
    <3>2. Rate * (clock - 0) \in Nat BY <1>1, LimiterAssumption
    <3> QED BY <3>1, <3>2, LimiterAssumption DEF BucketBounded
  <2> QED BY <2>1, <2>2
<1> QED BY <1>2 DEF LimitsHold, LimiterInv, WindowInv

(* For every burst, rate and window: since it was created the token bucket   *)
(* has let through at most burst_size and its refill, and a fixed window at  *)
(* most requests_per_second * window_secs, with any number of checks that    *)
(* interleave, time out, are dropped, and commands to Redis that fail.       *)
THEOREM LimitsHoldCorrect == HttpSpec => []LimitsHold
<1>1. LimiterInv /\ [HttpNext]_httpVars => LimiterInv'
  BY LimiterFrame, LimiterPreserved
<1> QED BY <1>1, LimiterInitially, LimiterBounds, PTL DEF HttpSpec

-----------------------------------------------------------------------------
(* The message buses: lists *)

(* Keep takes the elements at the kept indices, each once. *)
Distinct(list) == \A i, j \in DOMAIN list : list[i] = list[j] => i = j

LEMMA KeepFacts ==
  ASSUME NEW S, NEW list \in Seq(S), NEW kept \in SUBSET DOMAIN list
  PROVE  /\ Keep(list, kept) \in Seq(S)
         /\ \A k \in DOMAIN Keep(list, kept) : \E i \in kept : Keep(list, kept)[k] = list[i]
         /\ Distinct(list) => Distinct(Keep(list, kept))
  <1> DEFINE n == Cardinality(kept)
             Upto(i) == {j \in kept : j =< i}
             Rank(i) == Cardinality(Upto(i))
             Src(k) == CHOOSE i \in kept : Rank(i) = k
  <1>1. /\ Len(list) \in Nat /\ DOMAIN list = 1 .. Len(list)
        /\ \A i \in kept : i \in Nat /\ list[i] \in S
    BY LenProperties
  <1>2. IsFiniteSet(kept) /\ n \in Nat
    <2>1. IsFiniteSet(1 .. Len(list))
      BY <1>1, FS_Interval
    <2>2. IsFiniteSet(kept)
      BY <1>1, <2>1, FS_Subset
    <2>3. QED BY <2>2, FS_CardinalityType
  <1>3. ASSUME NEW i \in kept
        PROVE  Rank(i) \in 1 .. n /\ IsFiniteSet(Upto(i)) /\ Rank(i) \in Nat
    <2>1. Upto(i) \in SUBSET kept /\ i \in Upto(i)
      BY <1>1
    <2> HIDE DEF Upto
    <2>2. IsFiniteSet(Upto(i)) /\ Rank(i) =< n
      BY <1>2, <2>1, FS_Subset
    <2>3. Rank(i) \in Nat /\ Rank(i) # 0
      BY <2>1, <2>2, FS_CardinalityType, FS_EmptySet
    <2>4. QED BY <1>2, <2>2, <2>3
  <1>4. ASSUME NEW i \in kept, NEW j \in kept, i < j
        PROVE  Rank(i) # Rank(j)
    <2>1. Upto(i) \in SUBSET Upto(j) /\ j \in Upto(j) /\ j \notin Upto(i)
      BY <1>1, <1>4
    <2>2. IsFiniteSet(Upto(j))
      BY <1>3
    <2> HIDE DEF Upto
    <2>3. Upto(i) # Upto(j)
      BY <2>1
    <2>4. QED BY <2>1, <2>2, <2>3, FS_Subset
  <1>5. ASSUME NEW k \in 1 .. n
        PROVE  Src(k) \in kept /\ Rank(Src(k)) = k
    <2> DEFINE f == [i \in kept |-> Rank(i)]
    <2> HIDE DEF Rank
    <2>1. f \in [kept -> 1 .. n]
      BY <1>3
    <2>2. \A i, j \in kept : f[i] = f[j] => i = j
      BY <1>1, <1>4
    <2>3. f \in Injection(kept, 1 .. n)
      BY <2>1, <2>2 DEF Injection, IsInjective
    <2>4. IsFiniteSet(1 .. n) /\ Cardinality(1 .. n) = n
      <3> HIDE DEF n
      <3>1. \A m \in Nat : IsFiniteSet(1 .. m) /\ Cardinality(1 .. m) = m
        BY FS_Interval
      <3>2. QED BY <1>2, <3>1
    <2>5. f \in Surjection(kept, 1 .. n)
      BY <1>2, <2>3, <2>4, FS_Injection
    <2>6. \E i \in kept : Rank(i) = k
      BY <2>5 DEF Surjection
    <2>7. QED BY <2>6
  <1>6. Keep(list, kept) = [k \in 1 .. n |-> list[Src(k)]]
    BY DEF Keep
  <1> HIDE DEF n, Src, Rank
  <1>7. Keep(list, kept) \in [1 .. n -> S] /\ DOMAIN Keep(list, kept) = 1 .. n
    BY <1>1, <1>5, <1>6
  <1>8. Keep(list, kept) \in Seq(S)
    BY <1>2, <1>7
  <1>9. \A k \in 1 .. n : Src(k) \in kept /\ Keep(list, kept)[k] = list[Src(k)]
    BY <1>5, <1>6
  <1>10. ASSUME Distinct(list)
         PROVE  Distinct(Keep(list, kept))
    <2>1. ASSUME NEW k \in 1 .. n, NEW l \in 1 .. n,
                 Keep(list, kept)[k] = Keep(list, kept)[l]
          PROVE  k = l
      <3>1. Src(k) = Src(l)
        BY <1>9, <1>10, <2>1 DEF Distinct
      <3>2. QED BY <1>5, <3>1
    <2>2. QED BY <1>7, <2>1 DEF Distinct
  <1>11. QED BY <1>7, <1>8, <1>9, <1>10

-----------------------------------------------------------------------------
(* The turns of the subscribers *)

(* How many others the index r of round_robin passes before the i-th sender. *)
Turn(list, r, i) == IF i > r THEN i - 1 - r ELSE i - 1 - r + Len(list)

(* Those whose turn comes sooner have not had more, and nobody has had two   *)
(* more than another.                                                        *)
InTurn(list, r, sh) ==
  /\ \E i \in DOMAIN list : sh[list[i]] = 0
  /\ \A i, j \in DOMAIN list :
       Turn(list, r, i) =< Turn(list, r, j) => sh[list[i]] =< sh[list[j]]

Even(list, r, sh) ==
  /\ \A i \in DOMAIN list : sh[list[i]] \in {0, 1}
  /\ \/ \A i \in DOMAIN list : sh[list[i]] = 0
     \/ r < Len(list) /\ InTurn(list, r, sh)

(* A new list, and the shares of other topics. *)
LEMMA EvenFrame ==
  ASSUME NEW S, NEW list \in Seq(S), NEW r, NEW sh, NEW sh2
  PROVE  /\ (\A i \in DOMAIN list : sh[list[i]] = 0) => Even(list, r, sh)
         /\ Even(list, r, sh) /\ (\A i \in DOMAIN list : sh2[list[i]] = sh[list[i]])
              => Even(list, r, sh2)
  BY DEF Even, InTurn

(* The sender at the index gets the message, and the index goes on. *)
LEMMA EvenDelivers ==
  ASSUME NEW list \in Seq(Subscribers), Distinct(list), NEW r \in 0 .. (Len(list) - 1),
         NEW sh \in [Subscribers -> Nat], Even(list, r, sh)
  PROVE  LET sh2 == Shares(list, [sh EXCEPT ![list[r + 1]] = @ + 1])
         IN  /\ sh2 \in [Subscribers -> Nat]
             /\ \A s \in Subscribers : s \notin {list[i] : i \in DOMAIN list} => sh2[s] = sh[s]
             /\ Even(list, (r + 1) % Len(list), sh2)
  <1> DEFINE n == Len(list)
             next == (r + 1) % n
             x == list[r + 1]
             sh1 == [sh EXCEPT ![x] = @ + 1]
             sh2 == Shares(list, sh1)
             members == {list[i] : i \in DOMAIN list}
  <1>1. /\ n \in Nat /\ n > 0 /\ DOMAIN list = 1 .. n /\ r \in 0 .. (n - 1)
        /\ r + 1 \in 1 .. n /\ \A i \in 1 .. n : list[i] \in Subscribers
    BY LenProperties
  <1>2. next \in 0 .. (n - 1) /\ next = IF r + 1 = n THEN 0 ELSE r + 1
    <2> HIDE DEF n
    <2>1. r + 1 \in Nat /\ (r + 1 < n \/ r + 1 = n) /\ n \in Nat /\ n > 0
      BY <1>1
    <2>2. r + 1 < n => (r + 1) % n = r + 1
      BY <2>1
    <2>3. r + 1 = n => (r + 1) % n = 0
      <3>1. \A m \in Nat \ {0} : m % m = 0
        OBVIOUS
      <3>2. QED BY <2>1, <3>1
    <2>4. QED BY <2>1, <2>2, <2>3
  <1> Len(list) = n
    OBVIOUS
  <1> HIDE DEF n, next
  <1>3. InTurn(list, r, sh)
    <2>1. CASE \A i \in DOMAIN list : sh[list[i]] = 0
      BY <1>1, <2>1 DEF InTurn
    <2>2. QED BY <2>1 DEF Even
  <1>4. Turn(list, r, r + 1) = 0
    BY <1>1 DEF Turn
  <1>5. \A i \in 1 .. n : Turn(list, r, i) \in 0 .. (n - 1)
    BY <1>1 DEF Turn, n
  <1>6. sh[x] = 0
    <2>1. PICK i \in 1 .. n : sh[list[i]] = 0
      BY <1>1, <1>3 DEF InTurn
    <2>2. Turn(list, r, r + 1) =< Turn(list, r, i)
      BY <1>1, <1>4, <1>5
    <2>3. sh[x] =< sh[list[i]] /\ sh[x] \in Nat
      BY <1>1, <1>3, <2>2 DEF InTurn
    <2>4. QED BY <2>1, <2>3
  <1>7. /\ sh1 \in [Subscribers -> Nat] /\ sh1[x] = 1
        /\ \A s \in Subscribers : s # x => sh1[s] = sh[s]
    BY <1>1, <1>6
  <1>8. \A i \in 1 .. n : (i = r + 1 <=> list[i] = x)
    BY <1>1 DEF Distinct
  <1>9. \A i \in 1 .. n : sh1[list[i]] \in {0, 1}
    BY <1>1, <1>7, <1>8 DEF Even
  <1> HIDE DEF sh1, x
  <1>10. \A i \in 1 .. n :
           Turn(list, next, i) = IF i = r + 1 THEN n - 1 ELSE Turn(list, r, i) - 1
    <2> TAKE i \in 1 .. n
    <2>1. n \in Nat /\ r \in Nat /\ next \in Nat /\ i \in Nat
      BY <1>1, <1>2
    <2>2. CASE r + 1 = n
      BY <1>2, <2>1, <2>2 DEF Turn
    <2>3. CASE r + 1 # n
      BY <1>1, <1>2, <2>1, <2>3 DEF Turn
    <2>4. QED BY <2>2, <2>3
  <1>11. ASSUME NEW i \in 1 .. n, NEW j \in 1 .. n, Turn(list, next, i) =< Turn(list, next, j)
         PROVE  sh1[list[i]] =< sh1[list[j]]
    <2>0. sh1[list[i]] \in {0, 1} /\ sh1[list[j]] \in {0, 1}
      BY <1>9
    <2>1. CASE j = r + 1
      <3>1. list[j] = x
        BY <1>8, <2>1
      <3>2. QED BY <1>7, <2>0, <3>1
    <2>2. CASE j # r + 1 /\ i = r + 1
      <3>1. Turn(list, next, i) = n - 1 /\ Turn(list, next, j) = Turn(list, r, j) - 1
        BY <1>10, <2>2
      <3>2. Turn(list, r, j) \in 0 .. (n - 1) /\ n \in Nat
        BY <1>1, <1>5
      <3>3. QED BY <1>11, <3>1, <3>2
    <2>3. CASE j # r + 1 /\ i # r + 1
      <3>1. Turn(list, r, i) =< Turn(list, r, j)
        BY <1>5, <1>10, <1>11, <2>3
      <3>2. sh[list[i]] =< sh[list[j]]
        BY <1>1, <1>3, <3>1 DEF InTurn
      <3>3. QED BY <1>1, <1>7, <1>8, <2>3, <3>2
    <2>4. QED BY <2>1, <2>2, <2>3
  <1>12. members \subseteq Subscribers /\ x \in members
    BY <1>1 DEF x
  <1>13. CASE \A s \in members : sh1[s] > 0
    <2>1. sh2 = [s \in Subscribers |-> IF s \in members THEN sh1[s] - 1 ELSE sh1[s]]
      BY <1>13 DEF Shares
    <2>2. sh2 \in [Subscribers -> Nat]
      <3>1. \A s \in Subscribers : sh1[s] \in Nat /\ (s \in members => sh1[s] - 1 \in Nat)
        <4> HIDE DEF members
        <4>1. QED BY <1>7, <1>13
      <3> HIDE DEF members, sh2
      <3>2. QED BY <2>1, <3>1
    <2>3. \A i \in 1 .. n : sh2[list[i]] = 0
      <3> TAKE i \in 1 .. n
      <3>1. list[i] \in members /\ list[i] \in Subscribers
        BY <1>1
      <3>2. sh1[list[i]] = 1
        BY <1>9, <1>13, <3>1
      <3>3. QED BY <2>1, <3>1, <3>2
    <2>4. \A s \in Subscribers : s \notin members => sh2[s] = sh[s]
      BY <1>7, <1>12, <2>1
    <2>5. Even(list, next, sh2)
      BY <1>1, <2>3 DEF Even
    <2>6. QED BY <2>2, <2>4, <2>5 DEF next, n, sh1, x
  <1>14. CASE ~ \A s \in members : sh1[s] > 0
    <2>1. sh2 = sh1
      BY <1>14 DEF Shares
    <2>2. PICK i \in 1 .. n : ~ (sh1[list[i]] > 0)
      BY <1>1, <1>14
    <2>3. sh1[list[i]] = 0
      BY <1>9, <2>2
    <2>4. InTurn(list, next, sh1)
      BY <1>1, <1>11, <2>3 DEF InTurn
    <2>5. Even(list, next, sh1)
      <3>1. next < Len(list)
        BY <1>1, <1>2
      <3>2. QED BY <1>1, <1>9, <2>4, <3>1 DEF Even
    <2>6. \A s \in Subscribers : s \notin members => sh1[s] = sh[s]
      BY <1>7, <1>12
    <2>7. QED BY <1>7, <2>1, <2>5, <2>6 DEF next, n, sh1, x
  <1>15. QED BY <1>13, <1>14

-----------------------------------------------------------------------------
(* The bus in memory *)

(* A list has each sender once, of a subscriber of its topic. *)
ListOK(t) ==
  /\ senders[t] \in Seq(Subscribers) /\ Distinct(senders[t])
  /\ \A i \in DOMAIN senders[t] :
       sub[senders[t][i]].topic = t /\ sub[senders[t][i]].at \in {"open", "closed"}

(* A publisher that sends has the lock, and its target is whose turn it is. *)
SendOK(p) ==
  pub[p].at = "sending" =>
    LET t == pub[p].topic
    IN  /\ bus = p /\ round_robin[t] \in 0 .. (Len(senders[t]) - 1)
        /\ pub[p].target = senders[t][round_robin[t] + 1]

MemInv ==
  /\ TypeOK
  /\ senders = [t \in Topics |-> senders[t]]
  /\ \A t \in Topics : ListOK(t) /\ Even(senders[t], round_robin[t], share)
  /\ \A p \in Publishers :
       SendOK(p) /\ (pub[p].at # "idle" => pub[p].topic \in Topics)
  /\ \A s \in Subscribers : sub[s].at # "none" => sub[s].topic \in Topics

(* A list is no longer than there are subscribers. *)
LEMMA ListFits ==
  ASSUME NEW list \in Seq(Subscribers), Distinct(list)
  PROVE  Len(list) =< Cardinality(Subscribers) /\ Cardinality(Subscribers) \in Nat
  <1>1. /\ Len(list) \in Nat /\ DOMAIN list = 1 .. Len(list)
        /\ list \in [1 .. Len(list) -> Subscribers]
    BY LenProperties
  <1>2. list \in Injection(1 .. Len(list), Subscribers)
    BY <1>1 DEF Distinct, Injection, IsInjective
  <1>3. \A n \in Nat : Cardinality(1 .. n) = n
    BY FS_Interval
  <1>4. IsFiniteSet(Subscribers)
    BY BusAssumption
  <1>5. Cardinality(1 .. Len(list)) =< Cardinality(Subscribers)
    BY <1>2, <1>4, FS_Injection
  <1>6. QED BY <1>1, <1>3, <1>4, <1>5, FS_CardinalityType

(* The index stays within the list, and the list within the subscribers. *)
LEMMA IndexFits ==
  ASSUME NEW list \in Seq(Subscribers), Distinct(list), list # << >>, NEW k \in Nat
  PROVE  /\ k % Len(list) \in 0 .. (Len(list) - 1)
         /\ k % Len(list) \in 0 .. (Cardinality(Subscribers) - 1)
         /\ k < Len(list) => k % Len(list) = k
         /\ list[(k % Len(list)) + 1] \in Subscribers
  <1>1. Len(list) \in Nat \ {0} /\ \A i \in 1 .. Len(list) : list[i] \in Subscribers
    BY LenProperties, EmptySeq
  <1> DEFINE n == Len(list)
  <1> HIDE DEF n
  <1>2. k % n \in 0 .. (n - 1) /\ (k < n => k % n = k)
    BY <1>1 DEF n
  <1>3. n =< Cardinality(Subscribers) /\ Cardinality(Subscribers) \in Nat
    BY ListFits DEF n
  <1>4. n \in Nat \ {0}
    BY <1>1 DEF n
  <1>5. k % n \in 0 .. (Cardinality(Subscribers) - 1) /\ (k % n) + 1 \in 1 .. n
    BY <1>2, <1>3, <1>4
  <1>6. QED BY <1>1, <1>2, <1>5 DEF n

(* The lock has one holder at most. *)
LEMMA OneHolder ==
  ASSUME MemInv, NEW p \in Publishers, NEW q \in Publishers, pub[q].at = "sending"
  PROVE  bus = q /\ bus # Nobody /\ (pub[p].at = "sending" => p = q)
  BY BusAssumption DEF MemInv, SendOK

(* A subscriber that joined stays one of its topic. *)
Stays == \A s \in Subscribers :
  /\ sub[s].at # "none" => sub'[s].topic = sub[s].topic /\ sub'[s].at # "none"
  /\ sub[s].at \in {"open", "closed"} => sub'[s].at \in {"open", "closed"}

(* A topic that a step does not touch. *)
LEMMA TopicFrame ==
  ASSUME MemInv, Stays, NEW t \in Topics,
         senders'[t] = senders[t], round_robin'[t] = round_robin[t],
         \A i \in DOMAIN senders[t] : share'[senders[t][i]] = share[senders[t][i]]
  PROVE  ListOK(t)' /\ Even(senders[t], round_robin[t], share)'
  <1>1. ListOK(t) /\ Even(senders[t], round_robin[t], share)
    BY DEF MemInv
  <1>2. senders[t] \in Seq(Subscribers)
    BY <1>1 DEF ListOK
  <1>3. Even(senders[t], round_robin[t], share')
    BY <1>1, <1>2, EvenFrame
  <1>4. \A i \in DOMAIN senders[t] : senders[t][i] \in Subscribers
    BY <1>2, LenProperties
  <1>5. \A i \in DOMAIN senders[t] :
          sub'[senders[t][i]].topic = t /\ sub'[senders[t][i]].at \in {"open", "closed"}
    <2> TAKE i \in DOMAIN senders[t]
    <2>1. sub[senders[t][i]].topic = t /\ sub[senders[t][i]].at \in {"open", "closed"}
          /\ senders[t][i] \in Subscribers
      BY <1>1, <1>4 DEF ListOK
    <2>2. QED BY <2>1 DEF Stays
  <1>6. QED BY <1>1, <1>2, <1>3, <1>5 DEF ListOK

(* The list of one topic is set; with it the shares of the topic start anew. *)
LEMMA SendersSet ==
  ASSUME MemInv, Stays, NEW t \in Topics, NEW list \in Seq(Subscribers), Distinct(list),
         \A i \in DOMAIN list :
           sub[list[i]].topic = t /\ sub'[list[i]].topic = t /\ sub'[list[i]].at \in {"open", "closed"},
         SetSenders(t, list),
         \A u \in Topics : u # t => round_robin'[u] = round_robin[u],
         list = senders[t] => Even(list, round_robin'[t], share)
  PROVE  /\ senders' = [u \in Topics |-> senders'[u]] /\ senders'[t] = list
         /\ share' \in [Subscribers -> Nat]
         /\ \A u \in Topics : ListOK(u)' /\ Even(senders[u], round_robin[u], share)'
         /\ \A u \in Topics : u # t => senders'[u] = senders[u]
  <1>1. /\ senders = [u \in Topics |-> senders[u]] /\ share \in [Subscribers -> Nat]
        /\ \A u \in Topics : ListOK(u) /\ Even(senders[u], round_robin[u], share)
    BY DEF MemInv, TypeOK
  <1>2. /\ senders' = [u \in Topics |-> IF u = t THEN list ELSE senders[u]]
        /\ share' = IF list = senders[t] THEN share
                    ELSE [s \in Subscribers |-> IF sub[s].topic = t THEN 0 ELSE share[s]]
    BY <1>1 DEF SetSenders
  <1>3. share' \in [Subscribers -> Nat]
    BY <1>1, <1>2
  <1>4. \A i \in DOMAIN list : list[i] \in Subscribers
    BY LenProperties
  <1>5. ASSUME NEW u \in Topics, u # t
        PROVE  ListOK(u)' /\ Even(senders[u], round_robin[u], share)'
    <2>1. \A i \in DOMAIN senders[u] :
            senders[u][i] \in Subscribers /\ sub[senders[u][i]].topic = u
      BY <1>1, LenProperties DEF ListOK
    <2>2. \A i \in DOMAIN senders[u] : share'[senders[u][i]] = share[senders[u][i]]
      BY <1>2, <1>5, <2>1
    <2>3. senders'[u] = senders[u]
      BY <1>2, <1>5
    <2>4. QED BY <1>5, <2>2, <2>3, TopicFrame
  <1>6. ListOK(t)'
    BY <1>2 DEF ListOK
  <1>7. Even(list, round_robin'[t], share')
    <2>1. CASE list = senders[t]
      BY <1>2, <2>1
    <2>2. CASE list # senders[t]
      <3>1. \A i \in DOMAIN list : share'[list[i]] = 0
        BY <1>2, <1>4, <2>2
      <3>2. QED BY <3>1, EvenFrame
    <2>3. QED BY <2>1, <2>2
  <1>8. QED BY <1>2, <1>3, <1>5, <1>6, <1>7

(* Retain: some of the senders, each once. *)
LEMMA RetainFacts ==
  ASSUME MemInv, NEW t \in Topics
  PROVE  LET list == Retain(senders[t])
         IN  /\ list \in Seq(Subscribers) /\ Distinct(list)
             /\ \A i \in DOMAIN list :
                  sub[list[i]].topic = t /\ sub[list[i]].at \in {"open", "closed"}
  <1> DEFINE kept == {i \in DOMAIN senders[t] : IsOpen(senders[t][i])}
  <1>1. ListOK(t)
    BY DEF MemInv
  <1>2. kept \in SUBSET DOMAIN senders[t] /\ Retain(senders[t]) = Keep(senders[t], kept)
    BY DEF Retain
  <1> HIDE DEF kept
  <1>3. QED BY <1>1, <1>2, KeepFacts DEF ListOK

(* Publishers other than p, whose topics keep their lists. *)
LEMMA SendersGoOn ==
  ASSUME MemInv, NEW q \in Publishers, pub'[q] = pub[q], (bus' = bus) \/ pub[q].at # "sending",
         pub[q].at = "sending" => /\ senders'[pub[q].topic] = senders[pub[q].topic]
                                  /\ round_robin'[pub[q].topic] = round_robin[pub[q].topic]
  PROVE  SendOK(q)' /\ (pub'[q].at # "idle" => pub'[q].topic \in Topics)
  BY DEF MemInv, SendOK

Frees(p) == pub' = [pub EXCEPT ![p] = Idle]

(* The types of the records. *)
LEMMA PubTypes ==
  ASSUME MemInv, NEW p \in Publishers, NEW k, pub' = [pub EXCEPT ![p] = k],
         k \in [at : {"idle", "waiting", "sending"}, topic : Topics \cup {NoTopic},
                target : Subscribers \cup {Nobody}]
  PROVE  /\ pub' \in [Publishers -> [at : {"idle", "waiting", "sending"},
                                     topic : Topics \cup {NoTopic},
                                     target : Subscribers \cup {Nobody}]]
         /\ pub'[p] = k /\ \A q \in Publishers : q # p => pub'[q] = pub[q]
  BY DEF MemInv, TypeOK

LEMMA IdleType ==
  /\ Idle \in [at : {"idle", "waiting", "sending"}, topic : Topics \cup {NoTopic},
               target : Subscribers \cup {Nobody}]
  /\ Idle.at = "idle"
  BY DEF Idle

(* The steps that change two parts of a publisher. *)
Asking(r, place, topic) == [r EXCEPT !.at = place, !.topic = topic]
Aiming(r, place, target) == [r EXCEPT !.at = place, !.target = target]

LEMMA PubMoves ==
  ASSUME NEW place, NEW topic, NEW target, NEW r,
         r = [at |-> place, topic |-> topic, target |-> target], NEW x, NEW y
  PROVE  /\ Asking(r, x, y) = [at |-> x, topic |-> y, target |-> target]
         /\ Aiming(r, x, y) = [at |-> x, topic |-> topic, target |-> y]
  <1> DEFINE q == [r EXCEPT !.at = x]
  <1>1. q = [at |-> x, topic |-> topic, target |-> target]
    OBVIOUS
  <1>2. Asking(r, x, y) = [q EXCEPT !.topic = y] /\ Aiming(r, x, y) = [q EXCEPT !.target = y]
    BY DEF Asking, Aiming
  <1> HIDE DEF q
  <1>3. /\ [q EXCEPT !.topic = y] = [at |-> x, topic |-> y, target |-> target]
        /\ [q EXCEPT !.target = y] = [at |-> x, topic |-> topic, target |-> y]
    BY <1>1
  <1>4. QED BY <1>2, <1>3

LEMMA MemPublish == ASSUME MemInv, NEW p \in Publishers, Publish(p) PROVE MemInv'
  <1>1. PICK t \in Topics : pub' = [pub EXCEPT ![p] = [Idle EXCEPT !.at = "waiting", !.topic = t]]
    BY DEF Publish
  <1> DEFINE k == [at |-> "waiting", topic |-> t, target |-> Nobody]
  <1>2. pub' = [pub EXCEPT ![p] = k]
    <2>1. Asking(Idle, "waiting", t) = k
      BY PubMoves DEF Idle
    <2>2. pub' = [pub EXCEPT ![p] = Asking(Idle, "waiting", t)]
      BY <1>1 DEF Asking
    <2>3. QED BY <2>1, <2>2
  <1>3. /\ pub' \in [Publishers -> [at : {"idle", "waiting", "sending"},
                                     topic : Topics \cup {NoTopic},
                                     target : Subscribers \cup {Nobody}]]
         /\ pub'[p] = k /\ \A q \in Publishers : q # p => pub'[q] = pub[q]
    BY <1>2, PubTypes
  <1>4. UNCHANGED <<senders, round_robin, bus, sub, share>>
    BY DEF Publish
  <1>5. TypeOK'
    BY <1>3, <1>4 DEF MemInv, TypeOK
  <1>6. \A u \in Topics : ListOK(u)' /\ Even(senders[u], round_robin[u], share)'
    BY <1>4 DEF MemInv, ListOK
  <1>7. ASSUME NEW q \in Publishers
        PROVE  SendOK(q)' /\ (pub'[q].at # "idle" => pub'[q].topic \in Topics)
    <2>1. CASE q = p
      BY <1>3, <2>1 DEF SendOK
    <2>2. CASE q # p
      <3>1. pub'[q] = pub[q]
        BY <1>3, <2>2
      <3>2. QED BY <1>4, <3>1, SendersGoOn
    <2>3. QED BY <2>1, <2>2
  <1>8. QED BY <1>4, <1>5, <1>6, <1>7 DEF MemInv

(* The publish is over, and the lock is free or somebody else's. *)
LEMMA MemFreed ==
  ASSUME MemInv, NEW p \in Publishers, Frees(p), UNCHANGED <<senders, round_robin, sub, share>>,
         bus' = IF bus = p THEN Nobody ELSE bus
  PROVE  MemInv'
  <1>1. /\ pub' \in [Publishers -> [at : {"idle", "waiting", "sending"},
                                     topic : Topics \cup {NoTopic},
                                     target : Subscribers \cup {Nobody}]]
         /\ pub'[p] = Idle /\ \A q \in Publishers : q # p => pub'[q] = pub[q]
    BY PubTypes, IdleType DEF Frees
  <1>2. TypeOK'
    BY <1>1 DEF MemInv, TypeOK
  <1>3. \A u \in Topics : ListOK(u)' /\ Even(senders[u], round_robin[u], share)'
    BY DEF MemInv, ListOK
  <1>4. ASSUME NEW q \in Publishers
        PROVE  SendOK(q)' /\ (pub'[q].at # "idle" => pub'[q].topic \in Topics)
    <2>1. CASE q = p
      BY <1>1, <2>1, IdleType DEF SendOK
    <2>2. CASE q # p
      <3>1. pub'[q] = pub[q]
        BY <1>1, <2>2
      <3>2. pub[q].at = "sending" => bus' = bus
        BY <2>2 DEF MemInv, SendOK
      <3>3. QED BY <3>1, <3>2, SendersGoOn
    <2>3. QED BY <2>1, <2>2
  <1>5. QED BY <1>2, <1>3, <1>4 DEF MemInv

LEMMA MemDropped == ASSUME MemInv, NEW p \in Publishers, PublishDropped(p) PROVE MemInv'
  <1> DEFINE t == pub[p].topic
             list == Retain(senders[t])
  <1>1. /\ pub[p].at = "waiting" /\ bus = Nobody /\ SetSenders(t, list) /\ Frees(p)
        /\ UNCHANGED <<round_robin, bus, sub>> /\ list = << >>
    BY DEF PublishDropped, Frees
  <1>2. t \in Topics
    BY <1>1 DEF MemInv
  <1>3. /\ list \in Seq(Subscribers) /\ Distinct(list)
        /\ \A i \in DOMAIN list : sub[list[i]].topic = t /\ sub[list[i]].at \in {"open", "closed"}
    BY <1>2, RetainFacts
  <1>4. Stays
    BY <1>1 DEF Stays
  <1>5. Even(list, round_robin'[t], share)
    BY <1>1 DEF Even
  <1> HIDE DEF list, t
  <1>6. /\ senders' = [u \in Topics |-> senders'[u]] /\ senders'[t] = list
        /\ share' \in [Subscribers -> Nat]
        /\ \A u \in Topics : ListOK(u)' /\ Even(senders[u], round_robin[u], share)'
        /\ \A u \in Topics : u # t => senders'[u] = senders[u]
    BY <1>1, <1>2, <1>3, <1>4, <1>5, SendersSet
  <1>7. /\ pub' \in [Publishers -> [at : {"idle", "waiting", "sending"},
                                     topic : Topics \cup {NoTopic},
                                     target : Subscribers \cup {Nobody}]]
         /\ pub'[p] = Idle /\ \A q \in Publishers : q # p => pub'[q] = pub[q]
    BY <1>1, PubTypes, IdleType DEF Frees
  <1>8. TypeOK'
    BY <1>1, <1>6, <1>7 DEF MemInv, TypeOK, ListOK
  <1>9. ASSUME NEW q \in Publishers
        PROVE  SendOK(q)' /\ (pub'[q].at # "idle" => pub'[q].topic \in Topics)
    <2>1. CASE q = p
      BY <1>7, <2>1, IdleType DEF SendOK
    <2>2. CASE q # p
      <3>1. pub'[q] = pub[q] /\ pub[q].at # "sending"
        BY <1>1, <1>7, <2>2, OneHolder
      <3>2. QED BY <1>1, <3>1, SendersGoOn
    <2>3. QED BY <2>1, <2>2
  <1>10. QED BY <1>1, <1>6, <1>8, <1>9 DEF MemInv

LEMMA MemSelects == ASSUME MemInv, NEW p \in Publishers, PublishSelects(p) PROVE MemInv'
  <1> DEFINE t == pub[p].topic
             list == Retain(senders[t])
             idx == round_robin[t] % Len(list)
             k == [at |-> "sending", topic |-> t, target |-> list[idx + 1]]
  <1>1. /\ pub[p].at = "waiting" /\ bus = Nobody /\ SetSenders(t, list)
        /\ pub' = [pub EXCEPT ![p].at = "sending", ![p].target = list[idx + 1]]
        /\ round_robin' = [round_robin EXCEPT ![t] = idx] /\ bus' = p
        /\ UNCHANGED sub /\ list # << >>
    BY DEF PublishSelects
  <1>2. t \in Topics /\ round_robin \in [Topics -> Nat]
    BY <1>1 DEF MemInv, TypeOK
  <1>3. /\ list \in Seq(Subscribers) /\ Distinct(list)
        /\ \A i \in DOMAIN list : sub[list[i]].topic = t /\ sub[list[i]].at \in {"open", "closed"}
    BY <1>2, RetainFacts
  <1>4. Stays
    BY <1>1 DEF Stays
  <1>5. pub' = [pub EXCEPT ![p] = k]
    <2>1. pub[p] = [at |-> pub[p].at, topic |-> t, target |-> pub[p].target]
      BY DEF MemInv, TypeOK
    <2>2. Aiming(pub[p], "sending", list[idx + 1]) = k
      BY <2>1, PubMoves
    <2>3. pub' = [pub EXCEPT ![p] = Aiming(pub[p], "sending", list[idx + 1])]
      BY <1>1 DEF Aiming, MemInv, TypeOK
    <2>4. QED BY <2>2, <2>3
  <1> HIDE DEF list
  <1>6. /\ idx \in 0 .. (Len(list) - 1) /\ idx \in 0 .. (Cardinality(Subscribers) - 1)
        /\ (round_robin[t] < Len(list) => idx = round_robin[t])
        /\ list[idx + 1] \in Subscribers
    <2>1. round_robin[t] \in Nat
      BY <1>2
    <2>2. QED BY <1>1, <1>3, <2>1, IndexFits
  <1>7. round_robin'[t] = idx /\ \A u \in Topics : u # t => round_robin'[u] = round_robin[u]
    BY <1>1, <1>2
  <1> HIDE DEF idx, t
  <1>8. list = senders[t] => Even(list, round_robin'[t], share)
    <2>1. Even(senders[t], round_robin[t], share)
      BY <1>2 DEF MemInv
    <2>2. QED BY <1>6, <1>7, <2>1 DEF Even
  <1>9. /\ senders' = [u \in Topics |-> senders'[u]] /\ senders'[t] = list
        /\ share' \in [Subscribers -> Nat]
        /\ \A u \in Topics : ListOK(u)' /\ Even(senders[u], round_robin[u], share)'
        /\ \A u \in Topics : u # t => senders'[u] = senders[u]
    BY <1>1, <1>2, <1>3, <1>4, <1>7, <1>8, SendersSet
  <1>10. k \in [at : {"idle", "waiting", "sending"}, topic : Topics \cup {NoTopic},
                target : Subscribers \cup {Nobody}]
    BY <1>2, <1>6
  <1>11. /\ pub' \in [Publishers -> [at : {"idle", "waiting", "sending"},
                                     topic : Topics \cup {NoTopic},
                                     target : Subscribers \cup {Nobody}]]
         /\ pub'[p] = k /\ \A q \in Publishers : q # p => pub'[q] = pub[q]
    <2> HIDE DEF k
    <2>1. QED BY <1>5, <1>10, PubTypes
  <1>12. round_robin' \in [Topics -> 0 .. (Cardinality(Subscribers) - 1)]
    BY <1>1, <1>6 DEF MemInv, TypeOK
  <1>13. TypeOK'
    BY <1>1, <1>9, <1>11, <1>12 DEF MemInv, TypeOK, ListOK
  <1>14. ASSUME NEW q \in Publishers
        PROVE  SendOK(q)' /\ (pub'[q].at # "idle" => pub'[q].topic \in Topics)
    <2>1. CASE q = p
      <3>1. pub'[q].at = "sending" /\ pub'[q].topic = t /\ pub'[q].target = list[idx + 1]
        BY <1>11, <2>1
      <3>2. bus' = q /\ round_robin'[t] = idx /\ senders'[t] = list /\ idx \in 0 .. (Len(list) - 1)
        BY <1>1, <1>6, <1>7, <1>9, <2>1
      <3> HIDE DEF k
      <3>3. QED BY <1>2, <3>1, <3>2 DEF SendOK
    <2>2. CASE q # p
      <3>1. pub'[q] = pub[q] /\ pub[q].at # "sending"
        BY <1>1, <1>11, <2>2, OneHolder
      <3>2. QED BY <1>1, <3>1, SendersGoOn
    <2>3. QED BY <2>1, <2>2
  <1>15. QED BY <1>1, <1>9, <1>13, <1>14 DEF MemInv

(* The lock is free: no publisher sends. *)
LEMMA NobodySends ==
  ASSUME MemInv, bus = Nobody, NEW q \in Publishers
  PROVE  pub[q].at # "sending"
  BY OneHolder

LEMMA MemDelivers == ASSUME MemInv, NEW p \in Publishers, SendDelivers(p) PROVE MemInv'
  <1> DEFINE t == pub[p].topic
             list == senders[t]
             r == round_robin[t]
             s == pub[p].target
             sh2 == Shares(list, [share EXCEPT ![s] = @ + 1])
             next == (r + 1) % Len(list)
  <1>1. /\ pub[p].at = "sending" /\ IsOpen(s) /\ sub[s].queued < Capacity
        /\ sub' = [sub EXCEPT ![s].queued = @ + 1] /\ share' = sh2
        /\ round_robin' = [round_robin EXCEPT ![t] = next]
        /\ bus' = Nobody /\ Frees(p) /\ UNCHANGED senders
    BY DEF SendDelivers, Advance, Frees, MemInv, TypeOK
  <1>2. /\ t \in Topics /\ bus = p /\ r \in 0 .. (Len(list) - 1) /\ s = list[r + 1]
        /\ ListOK(t) /\ Even(list, r, share) /\ share \in [Subscribers -> Nat]
        /\ round_robin \in [Topics -> 0 .. (Cardinality(Subscribers) - 1)]
    BY <1>1 DEF MemInv, SendOK, TypeOK
  <1>3. /\ list \in Seq(Subscribers) /\ Distinct(list)
        /\ \A i \in DOMAIN list : sub[list[i]].topic = t /\ sub[list[i]].at \in {"open", "closed"}
    BY <1>2 DEF ListOK
  <1>4. /\ sh2 \in [Subscribers -> Nat]
        /\ \A x \in Subscribers : x \notin {list[i] : i \in DOMAIN list} => sh2[x] = share[x]
        /\ Even(list, next, sh2)
    <2>1. sh2 = Shares(list, [share EXCEPT ![list[r + 1]] = @ + 1])
      BY <1>2
    <2> HIDE DEF list, r, sh2
    <2>2. QED BY <1>2, <1>3, <2>1, EvenDelivers
  <1>5. next \in 0 .. (Cardinality(Subscribers) - 1)
    <2>1. r + 1 \in Nat /\ list # << >>
      BY <1>2, <1>3
    <2>2. QED BY <1>3, <2>1, IndexFits
  <1>6. s \in Subscribers
    <2>1. r + 1 \in 1 .. Len(list)
      BY <1>2, <1>3, LenProperties
    <2>2. QED BY <1>2, <1>3, <2>1, LenProperties
  <1> HIDE DEF next, sh2
  <1>7. round_robin'[t] = next /\ \A u \in Topics : u # t => round_robin'[u] = round_robin[u]
    BY <1>1, <1>2
  <1>8. /\ sub' \in [Subscribers -> [at : {"none", "joining", "open", "closed"},
                                     topic : Topics \cup {NoTopic}, queued : 0 .. Capacity]]
        /\ \A x \in Subscribers : sub'[x].at = sub[x].at /\ sub'[x].topic = sub[x].topic
    <2>1. sub \in [Subscribers -> [at : {"none", "joining", "open", "closed"},
                                   topic : Topics \cup {NoTopic}, queued : 0 .. Capacity]]
      BY DEF MemInv, TypeOK
    <2>2. sub[s].queued + 1 \in 0 .. Capacity
      BY <1>1, <1>6, <2>1, BusAssumption
    <2> HIDE DEF s
    <2>3. sub' = [sub EXCEPT ![s] = [sub[s] EXCEPT !.queued = @ + 1]]
      BY <1>1, <2>1
    <2>4. [sub[s] EXCEPT !.queued = @ + 1]
            = [at |-> sub[s].at, topic |-> sub[s].topic, queued |-> sub[s].queued + 1]
      BY <1>6, <2>1
    <2>5. QED BY <1>6, <2>1, <2>2, <2>3, <2>4
  <1>9. Stays
    BY <1>8 DEF Stays
  <1>10. ASSUME NEW u \in Topics
         PROVE  ListOK(u)' /\ Even(senders[u], round_robin[u], share)'
    <2>1. CASE u = t
      <3>1. Even(senders[u], round_robin[u], share)'
        BY <1>1, <1>4, <1>7, <2>1
      <3>2. ListOK(u)'
        <4>1. \A i \in DOMAIN list : list[i] \in Subscribers
          BY <1>3, LenProperties
        <4>2. QED BY <1>1, <1>3, <1>8, <2>1, <4>1 DEF ListOK
      <3>3. QED BY <3>1, <3>2
    <2>2. CASE u # t
      <3>1. \A i \in DOMAIN senders[u] : senders[u][i] \in Subscribers /\ sub[senders[u][i]].topic = u
        BY LenProperties DEF MemInv, ListOK
      <3>2. \A i \in DOMAIN senders[u] : senders[u][i] \notin {list[j] : j \in DOMAIN list}
        BY <1>3, <2>2, <3>1
      <3>3. \A i \in DOMAIN senders[u] : share'[senders[u][i]] = share[senders[u][i]]
        BY <1>1, <1>4, <3>1, <3>2
      <3>4. senders'[u] = senders[u] /\ round_robin'[u] = round_robin[u]
        BY <1>1, <1>7, <2>2
      <3>5. QED BY <1>9, <3>3, <3>4, TopicFrame
    <2>3. QED BY <2>1, <2>2
  <1>11. /\ pub' \in [Publishers -> [at : {"idle", "waiting", "sending"},
                                     topic : Topics \cup {NoTopic},
                                     target : Subscribers \cup {Nobody}]]
         /\ pub'[p] = Idle /\ \A q \in Publishers : q # p => pub'[q] = pub[q]
    BY <1>1, PubTypes, IdleType DEF Frees
  <1>12. round_robin' \in [Topics -> 0 .. (Cardinality(Subscribers) - 1)]
    BY <1>1, <1>2, <1>5
  <1>13. TypeOK'
    BY <1>1, <1>4, <1>8, <1>11, <1>12 DEF MemInv, TypeOK
  <1>14. ASSUME NEW q \in Publishers
        PROVE  SendOK(q)' /\ (pub'[q].at # "idle" => pub'[q].topic \in Topics)
    <2>1. CASE q = p
      BY <1>11, <2>1, IdleType DEF SendOK
    <2>2. CASE q # p
      <3>1. pub'[q] = pub[q] /\ pub[q].at # "sending"
        BY <1>1, <1>11, <2>2, OneHolder
      <3>2. QED BY <1>1, <3>1, SendersGoOn
    <2>3. QED BY <2>1, <2>2
  <1>15. \A x \in Subscribers : sub'[x].at # "none" => sub'[x].topic \in Topics
    BY <1>8 DEF MemInv
  <1>16. senders' = [u \in Topics |-> senders'[u]]
    BY <1>1 DEF MemInv
  <1>17. QED BY <1>10, <1>13, <1>14, <1>15, <1>16 DEF MemInv

LEMMA MemFails == ASSUME MemInv, NEW p \in Publishers, SendFails(p) PROVE MemInv'
  <1>1. bus = p
    BY DEF MemInv, SendFails, SendOK
  <1>2. QED BY <1>1, MemFreed DEF SendFails, Frees

LEMMA MemAbandoned == ASSUME MemInv, NEW p \in Publishers, PublishAbandoned(p) PROVE MemInv'
  BY MemFreed DEF PublishAbandoned, Frees

-----------------------------------------------------------------------------
(* The steps of the subscribers *)

SubRecords == [at : {"none", "joining", "open", "closed"}, topic : Topics \cup {NoTopic},
               queued : 0 .. Capacity]

Joining(r, place, topic) == [r EXCEPT !.at = place, !.topic = topic]
Closing(r, place, queued) == [r EXCEPT !.at = place, !.queued = queued]

LEMMA SubMoves ==
  ASSUME NEW place, NEW topic, NEW queued, NEW r,
         r = [at |-> place, topic |-> topic, queued |-> queued], NEW x, NEW y
  PROVE  /\ Joining(r, x, y) = [at |-> x, topic |-> y, queued |-> queued]
         /\ Closing(r, x, y) = [at |-> x, topic |-> topic, queued |-> y]
  <1> DEFINE q == [r EXCEPT !.at = x]
  <1>1. q = [at |-> x, topic |-> topic, queued |-> queued]
    OBVIOUS
  <1>2. Joining(r, x, y) = [q EXCEPT !.topic = y] /\ Closing(r, x, y) = [q EXCEPT !.queued = y]
    BY DEF Joining, Closing
  <1> HIDE DEF q
  <1>3. /\ [q EXCEPT !.topic = y] = [at |-> x, topic |-> y, queued |-> queued]
        /\ [q EXCEPT !.queued = y] = [at |-> x, topic |-> topic, queued |-> y]
    BY <1>1
  <1>4. QED BY <1>2, <1>3

(* A subscriber moves, and the lists stay. *)
LEMMA MemSubMoves ==
  ASSUME MemInv, NEW s \in Subscribers, NEW place, NEW topic, NEW queued,
         sub' = [sub EXCEPT ![s] = [at |-> place, topic |-> topic, queued |-> queued]],
         [at |-> place, topic |-> topic, queued |-> queued] \in SubRecords,
         place # "none" => topic \in Topics,
         sub[s].at # "none" => topic = sub[s].topic /\ place # "none",
         sub[s].at \in {"open", "closed"} => place \in {"open", "closed"}
  PROVE  /\ Stays /\ sub' \in [Subscribers -> SubRecords]
         /\ \A x \in Subscribers : sub'[x].at # "none" => sub'[x].topic \in Topics
         /\ UNCHANGED <<senders, round_robin, bus, pub, share>> => MemInv'
  <1>1. sub \in [Subscribers -> SubRecords]
    BY DEF MemInv, TypeOK, SubRecords
  <1>2. /\ sub'[s] = [at |-> place, topic |-> topic, queued |-> queued]
        /\ \A x \in Subscribers : x # s => sub'[x] = sub[x]
    BY <1>1
  <1>3. Stays
    BY <1>2 DEF Stays
  <1>4. sub' \in [Subscribers -> SubRecords]
    BY <1>1
  <1>5. \A x \in Subscribers : sub'[x].at # "none" => sub'[x].topic \in Topics
    BY <1>2 DEF MemInv
  <1>6. ASSUME UNCHANGED <<senders, round_robin, bus, pub, share>>
        PROVE  MemInv'
    <2>1. TypeOK'
      BY <1>4, <1>6 DEF MemInv, TypeOK, SubRecords
    <2>2. \A u \in Topics : ListOK(u)' /\ Even(senders[u], round_robin[u], share)'
      BY <1>3, <1>6, TopicFrame
    <2>3. \A q \in Publishers : SendOK(q)' /\ (pub'[q].at # "idle" => pub'[q].topic \in Topics)
      BY <1>6, SendersGoOn
    <2>4. QED BY <1>5, <1>6, <2>1, <2>2, <2>3 DEF MemInv
  <1>7. QED BY <1>3, <1>4, <1>5, <1>6

LEMMA SubRecordOf ==
  ASSUME MemInv, NEW s \in Subscribers
  PROVE  /\ sub \in [Subscribers -> SubRecords]
         /\ sub[s] = [at |-> sub[s].at, topic |-> sub[s].topic, queued |-> sub[s].queued]
         /\ sub[s].queued \in 0 .. Capacity /\ sub[s].topic \in Topics \cup {NoTopic}
  BY DEF MemInv, TypeOK, SubRecords

LEMMA MemSubscribe == ASSUME MemInv, NEW s \in Subscribers, Subscribe(s) PROVE MemInv'
  <1>0. /\ sub[s] = [at |-> sub[s].at, topic |-> sub[s].topic, queued |-> sub[s].queued]
        /\ sub[s].queued \in 0 .. Capacity /\ sub[s].topic \in Topics \cup {NoTopic}
    BY SubRecordOf
  <1>1. PICK t \in Topics : sub' = [sub EXCEPT ![s].at = "joining", ![s].topic = t]
    BY DEF Subscribe
  <1>2. sub' = [sub EXCEPT ![s] = Joining(sub[s], "joining", t)]
    BY <1>1, SubRecordOf DEF Joining
  <1>3. Joining(sub[s], "joining", t)
          = [at |-> "joining", topic |-> t, queued |-> sub[s].queued]
    BY <1>0, SubMoves
  <1>4. sub[s].at = "none" /\ UNCHANGED <<senders, round_robin, bus, pub, share>>
    BY DEF Subscribe
  <1>5. [at |-> "joining", topic |-> t, queued |-> sub[s].queued] \in SubRecords
    BY <1>0 DEF SubRecords
  <1>6. sub' = [sub EXCEPT ![s] = [at |-> "joining", topic |-> t, queued |-> sub[s].queued]]
    BY <1>2, <1>3
  <1>7. QED BY <1>4, <1>5, <1>6, MemSubMoves

LEMMA MemRecv == ASSUME MemInv, NEW s \in Subscribers, Recv(s) PROVE MemInv'
  <1> DEFINE q == sub[s].queued - 1
             k == [at |-> "open", topic |-> sub[s].topic, queued |-> q]
  <1>0. /\ sub[s] = [at |-> sub[s].at, topic |-> sub[s].topic, queued |-> sub[s].queued]
        /\ sub[s].queued \in 0 .. Capacity /\ sub[s].topic \in Topics \cup {NoTopic}
    BY SubRecordOf
  <1>1. /\ sub[s].at = "open" /\ sub[s].queued > 0
        /\ UNCHANGED <<senders, round_robin, bus, pub, share>>
    BY DEF Recv, IsOpen
  <1>2. sub' = [sub EXCEPT ![s] = [sub[s] EXCEPT !.queued = q]]
    BY SubRecordOf DEF Recv
  <1>3. [sub[s] EXCEPT !.queued = q] = k
    BY <1>0, <1>1
  <1>4. k \in SubRecords
    BY <1>0, <1>1, BusAssumption DEF SubRecords
  <1>5. sub' = [sub EXCEPT ![s] = k]
    BY <1>2, <1>3
  <1>6. sub[s].topic \in Topics
    BY <1>1 DEF MemInv
  <1> HIDE DEF q
  <1>7. QED BY <1>1, <1>4, <1>5, <1>6, MemSubMoves

LEMMA MemUnsubscribe == ASSUME MemInv, NEW s \in Subscribers, Unsubscribe(s) PROVE MemInv'
  <1> DEFINE k == [at |-> "closed", topic |-> sub[s].topic, queued |-> 0]
  <1>0. /\ sub[s] = [at |-> sub[s].at, topic |-> sub[s].topic, queued |-> sub[s].queued]
        /\ sub[s].queued \in 0 .. Capacity /\ sub[s].topic \in Topics \cup {NoTopic}
    BY SubRecordOf
  <1>1. /\ sub[s].at = "open" /\ UNCHANGED <<senders, round_robin, bus, pub, share>>
        /\ sub' = [sub EXCEPT ![s].at = "closed", ![s].queued = 0]
    BY DEF Unsubscribe, IsOpen
  <1>2. sub' = [sub EXCEPT ![s] = Closing(sub[s], "closed", 0)]
    BY <1>1, SubRecordOf DEF Closing
  <1>3. Closing(sub[s], "closed", 0) = k
    BY <1>0, SubMoves
  <1>4. k \in SubRecords
    BY <1>0, BusAssumption DEF SubRecords
  <1>5. sub' = [sub EXCEPT ![s] = k]
    BY <1>2, <1>3
  <1>6. sub[s].topic \in Topics
    BY <1>1 DEF MemInv
  <1>7. QED BY <1>1, <1>4, <1>5, <1>6, MemSubMoves

LEMMA MemSubscribed == ASSUME MemInv, NEW s \in Subscribers, Subscribed(s) PROVE MemInv'
  <1> DEFINE t == sub[s].topic
             list == Append(senders[t], s)
             k == [at |-> "open", topic |-> t, queued |-> sub[s].queued]
  <1>0. /\ sub[s] = [at |-> sub[s].at, topic |-> sub[s].topic, queued |-> sub[s].queued]
        /\ sub[s].queued \in 0 .. Capacity /\ sub[s].topic \in Topics \cup {NoTopic}
    BY SubRecordOf
  <1>1. /\ sub[s].at = "joining" /\ bus = Nobody /\ SetSenders(t, list)
        /\ UNCHANGED <<round_robin, bus, pub>> /\ sub' = [sub EXCEPT ![s].at = "open"]
    BY DEF Subscribed
  <1>2. sub' = [sub EXCEPT ![s] = [sub[s] EXCEPT !.at = "open"]]
    BY <1>1, SubRecordOf
  <1>3. [sub[s] EXCEPT !.at = "open"] = k
    BY <1>0
  <1>4. k \in SubRecords
    BY <1>0 DEF SubRecords
  <1>5. t \in Topics
    BY <1>1 DEF MemInv
  <1>6. sub' = [sub EXCEPT ![s] = k]
    BY <1>2, <1>3
  <1>7. /\ Stays /\ sub' \in [Subscribers -> SubRecords]
        /\ \A x \in Subscribers : sub'[x].at # "none" => sub'[x].topic \in Topics
    BY <1>1, <1>4, <1>5, <1>6, MemSubMoves
  <1>8. sub'[s] = k
    BY <1>6, SubRecordOf
  <1>9. ListOK(t)
    BY <1>5 DEF MemInv
  <1>10. /\ senders[t] \in Seq(Subscribers) /\ Len(senders[t]) \in Nat
         /\ DOMAIN senders[t] = 1 .. Len(senders[t])
         /\ \A i \in 1 .. Len(senders[t]) : senders[t][i] \in Subscribers
    BY <1>9, LenProperties DEF ListOK
  <1>11. /\ list \in Seq(Subscribers) /\ DOMAIN list = 1 .. (Len(senders[t]) + 1)
         /\ \A i \in 1 .. Len(senders[t]) : list[i] = senders[t][i]
         /\ list[Len(senders[t]) + 1] = s
    BY <1>10, AppendProperties
  <1>12. \A i \in 1 .. Len(senders[t]) : senders[t][i] # s
    BY <1>1, <1>9, <1>10 DEF ListOK
  <1>13. \A i \in 1 .. Len(senders[t]) :
           /\ sub[senders[t][i]].topic = t /\ sub'[senders[t][i]].topic = t
           /\ sub'[senders[t][i]].at \in {"open", "closed"}
    <2> TAKE i \in 1 .. Len(senders[t])
    <2>1. /\ senders[t][i] \in Subscribers /\ sub[senders[t][i]].topic = t
          /\ sub[senders[t][i]].at \in {"open", "closed"}
      BY <1>9, <1>10 DEF ListOK
    <2>2. QED BY <1>7, <2>1 DEF Stays
  <1> DEFINE n == Len(senders[t])
  <1>14. \A i \in 1 .. (n + 1) : i \in 1 .. n \/ i = n + 1
    BY <1>10
  <1>15. \A i \in DOMAIN list :
           /\ sub[list[i]].topic = t /\ sub'[list[i]].topic = t
           /\ sub'[list[i]].at \in {"open", "closed"}
    <2> HIDE DEF list, t
    <2>1. \A i \in 1 .. n : /\ sub[list[i]].topic = t /\ sub'[list[i]].topic = t
                            /\ sub'[list[i]].at \in {"open", "closed"}
      BY <1>11, <1>13
    <2>2. sub[s].topic = t /\ sub'[s].topic = t /\ sub'[s].at \in {"open", "closed"}
      BY <1>8 DEF t
    <2>3. QED BY <1>11, <1>14, <2>1, <2>2
  <1>16. Distinct(list)
    <2> HIDE DEF list, t
    <2>1. QED BY <1>9, <1>10, <1>11, <1>12, <1>14 DEF Distinct, ListOK
  <1>17. list # senders[t]
    <2>1. Len(senders[t]) + 1 \in DOMAIN list /\ Len(senders[t]) + 1 \notin DOMAIN senders[t]
      BY <1>10, <1>11
    <2>2. QED BY <2>1
  <1> HIDE DEF list, t, n
  <1>18. /\ senders' = [u \in Topics |-> senders'[u]] /\ senders'[t] = list
         /\ share' \in [Subscribers -> Nat]
         /\ \A u \in Topics : ListOK(u)' /\ Even(senders[u], round_robin[u], share)'
    BY <1>1, <1>5, <1>7, <1>11, <1>15, <1>16, <1>17, SendersSet
  <1>19. TypeOK'
    BY <1>1, <1>7, <1>18 DEF MemInv, TypeOK, ListOK, SubRecords
  <1>20. \A q \in Publishers : SendOK(q)' /\ (pub'[q].at # "idle" => pub'[q].topic \in Topics)
    BY <1>1, NobodySends, SendersGoOn
  <1>21. QED BY <1>7, <1>18, <1>19, <1>20 DEF MemInv

-----------------------------------------------------------------------------

LEMMA MemInitOK == Init => MemInv
  <1> SUFFICES ASSUME Init PROVE MemInv
    OBVIOUS
  <1>1. 0 \in 0 .. (Cardinality(Subscribers) - 1)
    <2>1. Cardinality(Subscribers) \in Nat /\ Cardinality(Subscribers) # 0
      BY BusAssumption, FS_CardinalityType, FS_EmptySet
    <2>2. QED BY <2>1
  <1>2. senders = [t \in Topics |-> senders[t]] /\ \A t \in Topics : senders[t] = << >>
    BY DEF Init
  <1>3. TypeOK
    <2>1. 0 \in 0 .. Capacity
      BY BusAssumption
    <2>2. QED BY <1>1, <1>2, <2>1, IdleType DEF Init, TypeOK
  <1>4. ASSUME NEW t \in Topics
        PROVE  ListOK(t) /\ Even(senders[t], round_robin[t], share)
    <2>1. senders[t] = << >>
      BY <1>2
    <2>2. DOMAIN senders[t] = {}
      BY <2>1
    <2>3. ListOK(t)
      BY <2>1, <2>2 DEF ListOK, Distinct
    <2>4. Even(senders[t], round_robin[t], share)
      BY <2>2 DEF Even
    <2>5. QED BY <2>3, <2>4
  <1>5. \A p \in Publishers : pub[p].at = "idle"
    BY IdleType DEF Init
  <1>6. \A s \in Subscribers : sub[s].at = "none"
    BY DEF Init
  <1>7. QED BY <1>2, <1>3, <1>4, <1>5, <1>6 DEF MemInv, SendOK

LEMMA MemNextOK == MemInv /\ [Next]_vars => MemInv'
  <1> SUFFICES ASSUME MemInv, [Next]_vars PROVE MemInv'
    OBVIOUS
  <1>1. ASSUME NEW p \in Publishers, PublisherStep(p) PROVE MemInv'
    BY <1>1, MemPublish, MemDropped, MemSelects, MemDelivers, MemFails, MemAbandoned
       DEF PublisherStep
  <1>2. ASSUME NEW s \in Subscribers, SubscriberStep(s) PROVE MemInv'
    BY <1>2, MemSubscribe, MemSubscribed, MemRecv, MemUnsubscribe DEF SubscriberStep
  <1>3. CASE UNCHANGED vars
    <2>1. UNCHANGED <<senders, round_robin, bus, pub, sub, share>>
      BY <1>3 DEF vars
    <2>2. QED BY <2>1 DEF MemInv, TypeOK, ListOK, SendOK
  <1>4. QED BY <1>1, <1>2, <1>3 DEF Next

LEMMA MemBalanced == MemInv => Balanced
  <1> SUFFICES ASSUME MemInv, NEW t \in Topics, NEW i \in DOMAIN senders[t],
                      NEW j \in DOMAIN senders[t]
               PROVE  share[senders[t][i]] =< share[senders[t][j]] + 1
    BY DEF Balanced
  <1>1. share[senders[t][i]] \in {0, 1} /\ share[senders[t][j]] \in {0, 1}
    BY DEF MemInv, Even
  <1>2. QED BY <1>1

-----------------------------------------------------------------------------
(* A broker *)

Numbers == 1 .. published

(* What the task of a reader took and its consumer has not received yet, in  *)
(* the order in which it will.                                               *)
Flow(r) == reader[r].chan \o reader[r].batch
InFlow(m) == \E r \in Readers : \E i \in DOMAIN Flow(r) : Flow(r)[i] = m
Waits(m) == \E i \in DOMAIN queue : queue[i] = m

Reader(place, batch, chan, open) == [at |-> place, batch |-> batch, chan |-> chan, open |-> open]

ReaderOK(k) ==
  /\ k = Reader(k.at, k.batch, k.chan, k.open)
  /\ k.batch \in Seq(Nat) /\ k.chan \in Seq(Nat)
  /\ k.at = "sending" <=> k.batch # << >>

BrokerTypes ==
  /\ published \in 0 .. MaxMsgs
  /\ queue \in Seq(Nat) /\ \A m : Waits(m) => m \in Numbers
  /\ pending \subseteq Numbers /\ held \subseteq Numbers /\ acked \subseteq Numbers
  /\ reader = [r \in Readers |-> reader[r]] /\ \A r \in Readers : ReaderOK(reader[r])
  /\ \A m : InFlow(m) => m \in Numbers
  /\ got \in [Msgs -> 0 .. 2] /\ again \subseteq Numbers

(* A message that was not delivered again is in one place of one flow.       *)
Apart ==
  \A r, q \in Readers : \A i \in DOMAIN Flow(r), j \in DOMAIN Flow(q) :
    Flow(r)[i] = Flow(q)[j] /\ Flow(r)[i] \notin again => r = q /\ i = j

(* ... and it waits, or is on its way, or was received, once. *)
FirstTime(m) ==
  /\ got[m] =< 1
  /\ Waits(m) => got[m] = 0 /\ ~ InFlow(m)
  /\ InFlow(m) => got[m] = 0

WaitsOnce == Distinct(queue) /\ \A i \in DOMAIN queue : queue[i] \notin pending

OnceInv ==
  /\ BrokerTypes /\ WaitsOnce /\ Apart
  /\ \A m \in held \cup acked : got[m] > 0
  /\ \A m \in Msgs \ Numbers : got[m] = 0
  /\ \A m \in Numbers \ again : FirstTime(m)

-----------------------------------------------------------------------------
(* What becomes of a flow *)

(* g is a part of f, d places on. *)
PartFrom(g, f, d) ==
  \A i \in DOMAIN g : i \in Nat /\ i + d \in DOMAIN f /\ g[i] = f[i + d]
Part(g, f) == \E d \in Nat : PartFrom(g, f, d)

LEMMA FlowFacts ==
  ASSUME NEW c \in Seq(Nat), NEW b \in Seq(Nat)
  PROVE  /\ c \o b \in Seq(Nat) /\ Len(c) \in Nat /\ Len(b) \in Nat
         /\ DOMAIN c = 1 .. Len(c) /\ DOMAIN b = 1 .. Len(b)
         /\ DOMAIN (c \o b) = 1 .. (Len(c) + Len(b))
         /\ \A i \in 1 .. Len(c) : (c \o b)[i] = c[i]
         /\ \A i \in 1 .. (Len(c) + Len(b)) : i > Len(c) => (c \o b)[i] = b[i - Len(c)]
  BY LenProperties, ConcatProperties

LEMMA PartFacts ==
  ASSUME NEW c \in Seq(Nat), NEW b \in Seq(Nat)
  PROVE  /\ Part(c \o b, c \o b) /\ Part(<< >> \o b, c \o b) /\ Part(c \o << >>, c \o b)
         /\ Part(<< >> \o << >>, c \o b)
         /\ c # << >> => /\ PartFrom(Tail(c) \o b, c \o b, 1) /\ Part(Tail(c) \o b, c \o b)
                        /\ c[1] = Head(c)
         /\ b # << >> => Append(c, Head(b)) \o Tail(b) = c \o b
  <1> DEFINE f == c \o b
             e == << >> \in Seq(Nat)
  <1>1. /\ f \in Seq(Nat) /\ Len(c) \in Nat /\ Len(b) \in Nat
        /\ DOMAIN c = 1 .. Len(c) /\ DOMAIN b = 1 .. Len(b)
        /\ DOMAIN f = 1 .. (Len(c) + Len(b))
        /\ \A i \in 1 .. Len(c) : f[i] = c[i]
        /\ \A i \in 1 .. (Len(c) + Len(b)) : i > Len(c) => f[i] = b[i - Len(c)]
    BY FlowFacts
  <1>2. << >> \o b = b /\ c \o << >> = c /\ << >> \o << >> = << >>
    BY ConcatEmptySeq
  <1> HIDE DEF f
  <1>3. Part(f, f)
    <2>1. PartFrom(f, f, 0)
      BY <1>1 DEF PartFrom
    <2>2. QED BY <2>1 DEF Part
  <1>4. Part(b, f)
    <2>1. ASSUME NEW i \in 1 .. Len(b)
          PROVE  i \in Nat /\ i + Len(c) \in DOMAIN f /\ b[i] = f[i + Len(c)]
      <3>1. /\ i + Len(c) \in 1 .. (Len(c) + Len(b)) /\ i + Len(c) > Len(c)
            /\ (i + Len(c)) - Len(c) = i
        BY <1>1
      <3>2. f[i + Len(c)] = b[(i + Len(c)) - Len(c)]
        BY <1>1, <3>1
      <3>3. QED BY <1>1, <3>1, <3>2
    <2>2. PartFrom(b, f, Len(c))
      BY <1>1, <2>1 DEF PartFrom
    <2>3. QED BY <1>1, <2>2 DEF Part
  <1>5. Part(c, f)
    <2>1. PartFrom(c, f, 0)
      BY <1>1 DEF PartFrom
    <2>2. QED BY <2>1 DEF Part
  <1>6. Part(<< >>, f)
    <2>1. PartFrom(<< >>, f, 0)
      BY DEF PartFrom
    <2>2. QED BY <2>1 DEF Part
  <1>7. ASSUME c # << >>
        PROVE  PartFrom(Tail(c) \o b, f, 1) /\ Part(Tail(c) \o b, f) /\ c[1] = Head(c)
    <2>1. /\ Tail(c) \in Seq(Nat) /\ Len(Tail(c)) = Len(c) - 1 /\ c[1] = Head(c)
          /\ \A i \in 1 .. (Len(c) - 1) : Tail(c)[i] = c[i + 1]
      BY <1>7, HeadTailProperties
    <2>2. Len(c) > 0
      BY <1>1, <1>7, EmptySeq
    <2> DEFINE g == Tail(c) \o b
    <2>3. /\ DOMAIN g = 1 .. ((Len(c) - 1) + Len(b))
          /\ \A i \in 1 .. (Len(c) - 1) : g[i] = Tail(c)[i]
          /\ \A i \in 1 .. ((Len(c) - 1) + Len(b)) : i > Len(c) - 1 => g[i] = b[i - (Len(c) - 1)]
      BY <2>1, FlowFacts
    <2> HIDE DEF g
    <2>4. ASSUME NEW i \in 1 .. ((Len(c) - 1) + Len(b))
          PROVE  i + 1 \in 1 .. (Len(c) + Len(b)) /\ g[i] = f[i + 1]
      <3>1. i + 1 \in 1 .. (Len(c) + Len(b))
        BY <1>1, <2>2
      <3>2. CASE i =< Len(c) - 1
        BY <1>1, <2>1, <2>2, <2>3, <3>1, <3>2
      <3>3. CASE i > Len(c) - 1
        <4>1. i - (Len(c) - 1) = (i + 1) - Len(c) /\ i + 1 > Len(c)
          BY <1>1, <3>3
        <4>2. QED BY <1>1, <2>3, <3>1, <3>3, <4>1
      <3>4. QED BY <1>1, <3>1, <3>2, <3>3
    <2>5. PartFrom(g, f, 1)
      BY <1>1, <2>3, <2>4 DEF PartFrom
    <2>6. QED BY <2>1, <2>5 DEF Part, g
  <1>8. ASSUME b # << >>
        PROVE  Append(c, Head(b)) \o Tail(b) = f
    <2>1. /\ Tail(b) \in Seq(Nat) /\ Head(b) \in Nat /\ Len(Tail(b)) = Len(b) - 1 /\ b[1] = Head(b)
          /\ \A i \in 1 .. (Len(b) - 1) : Tail(b)[i] = b[i + 1]
      BY <1>8, HeadTailProperties
    <2>2. Len(b) > 0
      BY <1>1, <1>8, EmptySeq
    <2> DEFINE a == Append(c, Head(b))
               g == a \o Tail(b)
    <2>3. /\ a \in Seq(Nat) /\ Len(a) = Len(c) + 1 /\ a[Len(c) + 1] = Head(b)
          /\ \A i \in 1 .. Len(c) : a[i] = c[i]
      BY <1>1, <2>1, AppendProperties
    <2> HIDE DEF a
    <2>4. /\ g \in Seq(Nat) /\ DOMAIN g = 1 .. ((Len(c) + 1) + (Len(b) - 1))
          /\ \A i \in 1 .. (Len(c) + 1) : g[i] = a[i]
          /\ \A i \in 1 .. ((Len(c) + 1) + (Len(b) - 1)) :
               i > Len(c) + 1 => g[i] = Tail(b)[i - (Len(c) + 1)]
      <3>1. /\ g \in Seq(Nat) /\ DOMAIN g = 1 .. (Len(a) + Len(Tail(b)))
            /\ \A i \in 1 .. Len(a) : g[i] = a[i]
            /\ \A i \in 1 .. (Len(a) + Len(Tail(b))) : i > Len(a) => g[i] = Tail(b)[i - Len(a)]
        BY <2>1, <2>3, FlowFacts
      <3>2. Len(a) = Len(c) + 1 /\ Len(Tail(b)) = Len(b) - 1
        BY <2>1, <2>3
      <3> HIDE DEF g
      <3>3. QED BY <3>1, <3>2
    <2> HIDE DEF g
    <2>5. (Len(c) + 1) + (Len(b) - 1) = Len(c) + Len(b)
      BY <1>1
    <2>6. ASSUME NEW i \in 1 .. (Len(c) + Len(b))
          PROVE  g[i] = f[i]
      <3>1. CASE i =< Len(c)
        BY <1>1, <2>3, <2>4, <3>1
      <3>2. CASE i = Len(c) + 1
        <4>1. i > Len(c) /\ i - Len(c) = 1 /\ i \in 1 .. (Len(c) + 1)
          BY <1>1, <3>2
        <4>2. g[i] = Head(b)
          BY <2>3, <2>4, <3>2, <4>1
        <4>3. f[i] = b[1]
          BY <1>1, <4>1
        <4>4. QED BY <2>1, <4>2, <4>3
      <3>3. CASE i > Len(c) + 1
        <4>1. /\ i > Len(c) /\ i - (Len(c) + 1) \in 1 .. (Len(b) - 1)
              /\ (i - (Len(c) + 1)) + 1 = i - Len(c)
          BY <1>1, <3>3
        <4>2. g[i] = Tail(b)[i - (Len(c) + 1)]
          BY <2>4, <2>5, <3>3
        <4>3. f[i] = b[i - Len(c)]
          BY <1>1, <4>1
        <4>4. QED BY <2>1, <4>1, <4>2, <4>3
      <3>4. i \in Nat /\ Len(c) \in Nat
        BY <1>1
      <3>5. QED BY <3>1, <3>2, <3>3, <3>4
    <2>7. g = [i \in DOMAIN g |-> g[i]] /\ f = [i \in DOMAIN f |-> f[i]]
      BY <1>1, <2>4
    <2>8. g = f
      BY <1>1, <2>4, <2>5, <2>6, <2>7
    <2>9. QED BY <2>8 DEF g, a
  <1>9. QED BY <1>2, <1>3, <1>4, <1>5, <1>6, <1>7, <1>8 DEF f

-----------------------------------------------------------------------------
(* Steps that receive nothing, and take nothing that goes on *)

Quiet ==
  /\ published' \in published .. MaxMsgs /\ got' = got /\ again \subseteq again'
  /\ again' \subseteq Numbers
  /\ \A r \in Readers : Part(Flow(r)', Flow(r))
  /\ \A m : Waits(m)' => Waits(m) \/ m \in again' \/ m \in Numbers' \ Numbers

(* Flows of which a part goes on. *)
LEMMA PartsApart ==
  ASSUME Apart, again \subseteq again', \A r \in Readers : Part(Flow(r)', Flow(r))
  PROVE  Apart' /\ \A m : InFlow(m)' => InFlow(m)
  <1>1. ASSUME NEW m, InFlow(m)'
        PROVE  InFlow(m)
    <2>1. PICK r \in Readers : \E i \in DOMAIN Flow(r)' : Flow(r)'[i] = m
      BY <1>1 DEF InFlow
    <2>2. PICK i \in DOMAIN Flow(r)' : Flow(r)'[i] = m
      BY <2>1
    <2>3. PICK d \in Nat : PartFrom(Flow(r)', Flow(r), d)
      BY DEF Part
    <2>4. i + d \in DOMAIN Flow(r) /\ Flow(r)[i + d] = m
      BY <2>2, <2>3 DEF PartFrom
    <2>5. QED BY <2>4 DEF InFlow
  <1>2. Apart'
    <2>1. SUFFICES ASSUME NEW r \in Readers, NEW q \in Readers,
                          NEW i \in DOMAIN Flow(r)', NEW j \in DOMAIN Flow(q)',
                          Flow(r)'[i] = Flow(q)'[j], Flow(r)'[i] \notin again'
                   PROVE  r = q /\ i = j
      BY DEF Apart
    <2>2. PICK d \in Nat : PartFrom(Flow(r)', Flow(r), d)
      BY DEF Part
    <2>3. PICK e \in Nat : PartFrom(Flow(q)', Flow(q), e) /\ (r = q => e = d)
      BY <2>2 DEF Part
    <2>4. /\ i + d \in DOMAIN Flow(r) /\ Flow(r)'[i] = Flow(r)[i + d]
          /\ j + e \in DOMAIN Flow(q) /\ Flow(q)'[j] = Flow(q)[j + e]
      BY <2>2, <2>3 DEF PartFrom
    <2>5. Flow(r)[i + d] = Flow(q)[j + e] /\ Flow(r)[i + d] \notin again
      BY <2>1, <2>4
    <2>6. r = q /\ i + d = j + e
      BY <2>4, <2>5 DEF Apart
    <2>7. e = d
      BY <2>3, <2>6
    <2>8. i \in Nat /\ j \in Nat
      BY <2>2, <2>3 DEF PartFrom
    <2>9. QED BY <2>6, <2>7, <2>8
  <1>3. QED BY <1>1, <1>2

LEMMA QuietKeeps ==
  ASSUME OnceInv, Quiet
  PROVE  /\ Apart' /\ \A m \in Numbers' \ again' : FirstTime(m)'
         /\ \A m : InFlow(m)' => InFlow(m) /\ m \in Numbers'
         /\ \A m : Waits(m)' => m \in Numbers'
         /\ \A m \in Msgs \ Numbers' : got'[m] = 0
         /\ got' \in [Msgs -> 0 .. 2] /\ again' \subseteq Numbers' /\ published' \in 0 .. MaxMsgs
         /\ Numbers \subseteq Numbers'
  <1>1. BrokerTypes /\ published \in 0 .. MaxMsgs /\ published' \in published .. MaxMsgs
    BY DEF OnceInv, BrokerTypes, Quiet
  <1>2. Numbers \subseteq Numbers' /\ Numbers' \subseteq Msgs /\ published' \in 0 .. MaxMsgs
    BY <1>1, BrokerAssumption DEF Numbers, Msgs
  <1>3. Apart' /\ \A m : InFlow(m)' => InFlow(m)
    BY PartsApart DEF OnceInv, Quiet
  <1>4. ASSUME NEW m \in Numbers' \ again'
        PROVE  FirstTime(m)'
    <2>1. m \in Msgs /\ m \notin again /\ got'[m] = got[m]
      BY <1>2 DEF Quiet
    <2>2. CASE m \in Numbers
      <3>1. FirstTime(m) /\ (Waits(m)' => Waits(m))
        BY <2>1, <2>2 DEF OnceInv, Quiet
      <3>2. QED BY <1>3, <2>1, <3>1 DEF FirstTime
    <2>3. CASE m \notin Numbers
      <3>1. got[m] = 0 /\ ~ InFlow(m)
        BY <1>1, <2>1, <2>3 DEF OnceInv, BrokerTypes
      <3>2. QED BY <1>3, <2>1, <3>1 DEF FirstTime
    <2>4. QED BY <2>2, <2>3
  <1>5. \A m : InFlow(m)' => InFlow(m) /\ m \in Numbers'
    BY <1>1, <1>2, <1>3 DEF BrokerTypes
  <1>6. \A m : Waits(m)' => m \in Numbers'
    BY <1>1, <1>2 DEF BrokerTypes, Quiet
  <1>7. \A m \in Msgs \ Numbers' : got'[m] = 0
    BY <1>2 DEF OnceInv, Quiet
  <1>8. got' \in [Msgs -> 0 .. 2] /\ again' \subseteq Numbers'
    BY <1>1, <1>2 DEF BrokerTypes, Quiet
  <1>9. QED BY <1>2, <1>3, <1>4, <1>5, <1>6, <1>7, <1>8

ReadersOK == reader = [r \in Readers |-> reader[r]] /\ \A r \in Readers : ReaderOK(reader[r])

(* One reader moves. *)
LEMMA ReaderMoves ==
  ASSUME ReadersOK, NEW r \in Readers, NEW k, ReaderOK(k), reader' = [reader EXCEPT ![r] = k]
  PROVE  /\ ReadersOK' /\ Flow(r)' = k.chan \o k.batch
         /\ \A q \in Readers : q # r => Flow(q)' = Flow(q)
         /\ Part(k.chan \o k.batch, reader[r].chan \o reader[r].batch)
              => \A q \in Readers : Part(Flow(q)', Flow(q))
  <1>1. reader' = [q \in Readers |-> IF q = r THEN k ELSE reader[q]]
    BY DEF ReadersOK
  <1>2. ReadersOK'
    BY <1>1 DEF ReadersOK
  <1>3. Flow(r)' = k.chan \o k.batch /\ \A q \in Readers : q # r => Flow(q)' = Flow(q)
    BY <1>1 DEF Flow
  <1>4. \A q \in Readers : Part(Flow(q), Flow(q))
    BY PartFacts DEF ReadersOK, ReaderOK, Flow
  <1>5. Flow(r) = reader[r].chan \o reader[r].batch
    BY DEF Flow
  <1> HIDE DEF Flow
  <1>6. ASSUME Part(k.chan \o k.batch, reader[r].chan \o reader[r].batch), NEW q \in Readers
        PROVE  Part(Flow(q)', Flow(q))
    BY <1>3, <1>4, <1>5, <1>6
  <1>7. QED BY <1>2, <1>3, <1>6

LEMMA ReadersStay ==
  ASSUME ReadersOK, reader' = reader
  PROVE  ReadersOK' /\ \A q \in Readers : Part(Flow(q)', Flow(q))
  <1>1. \A q \in Readers : Part(Flow(q), Flow(q)) /\ Flow(q)' = Flow(q)
    BY PartFacts DEF ReadersOK, ReaderOK, Flow
  <1>2. ReadersOK'
    BY DEF ReadersOK
  <1>3. QED BY <1>1, <1>2

(* The records of the steps that change several parts. *)
Opens(k, place, open) == [k EXCEPT !.at = place, !.open = open]
Loads(k, place, batch) == [k EXCEPT !.at = place, !.batch = batch]
Passes(k, chan, batch, place) == [k EXCEPT !.chan = chan, !.batch = batch, !.at = place]
Shuts(k, open, chan) == [k EXCEPT !.open = open, !.chan = chan]

LEMMA ReaderRecords ==
  ASSUME NEW k, k = Reader(k.at, k.batch, k.chan, k.open),
         NEW place, NEW batch, NEW chan, NEW open
  PROVE  /\ Opens(k, place, open) = Reader(place, k.batch, k.chan, open)
         /\ Loads(k, place, batch) = Reader(place, batch, k.chan, k.open)
         /\ Passes(k, chan, batch, place) = Reader(place, batch, chan, k.open)
         /\ Shuts(k, open, chan) = Reader(k.at, k.batch, chan, open)
  <1> DEFINE a == [k EXCEPT !.at = place]
             o == [k EXCEPT !.open = open]
             c == [k EXCEPT !.chan = chan]
             cb == [c EXCEPT !.batch = batch]
  <1>1. /\ a = Reader(place, k.batch, k.chan, k.open) /\ o = Reader(k.at, k.batch, k.chan, open)
        /\ c = Reader(k.at, k.batch, chan, k.open)
    BY DEF Reader
  <1>2. cb = Reader(k.at, batch, chan, k.open)
    <2> HIDE DEF c
    <2>1. QED BY <1>1 DEF Reader
  <1>3. /\ Opens(k, place, open) = [a EXCEPT !.open = open]
        /\ Loads(k, place, batch) = [a EXCEPT !.batch = batch]
        /\ Passes(k, chan, batch, place) = [cb EXCEPT !.at = place]
        /\ Shuts(k, open, chan) = [o EXCEPT !.chan = chan]
    BY DEF Opens, Loads, Passes, Shuts
  <1> HIDE DEF a, o, c, cb
  <1>4. /\ [a EXCEPT !.open = open] = Reader(place, k.batch, k.chan, open)
        /\ [a EXCEPT !.batch = batch] = Reader(place, batch, k.chan, k.open)
        /\ [cb EXCEPT !.at = place] = Reader(place, batch, chan, k.open)
        /\ [o EXCEPT !.chan = chan] = Reader(k.at, k.batch, chan, open)
    BY <1>1, <1>2 DEF Reader
  <1>5. QED BY <1>3, <1>4

-----------------------------------------------------------------------------
(* What becomes of the queue *)

(* The first n of the queue are taken. *)
Cut(rest, n) ==
  /\ rest \in Seq(Nat) /\ DOMAIN rest = 1 .. (Len(queue) - n)
  /\ \A i \in 1 .. (Len(queue) - n) : rest[i] = queue[i + n]

LEMMA CutFacts ==
  ASSUME OnceInv, NEW n \in 0 .. Len(queue), NEW rest, Cut(rest, n), NEW taken,
         \A m : m \in taken <=> \E i \in 1 .. n : queue[i] = m,
         queue' = rest, pending' = pending \cup taken
  PROVE  /\ WaitsOnce' /\ queue' \in Seq(Nat) /\ pending' \subseteq Numbers
         /\ \A m : Waits(m)' => Waits(m) /\ m \notin taken
         /\ \A m \in taken : Waits(m) /\ m \in Numbers
  <1>1. /\ queue \in Seq(Nat) /\ Len(queue) \in Nat /\ DOMAIN queue = 1 .. Len(queue)
        /\ \A i, j \in 1 .. Len(queue) : queue[i] = queue[j] => i = j
        /\ \A i \in 1 .. Len(queue) : queue[i] \notin pending
        /\ pending \subseteq Numbers /\ \A m : Waits(m) => m \in Numbers
    BY LenProperties DEF OnceInv, BrokerTypes, WaitsOnce, Distinct
  <1>2. \A i \in 1 .. (Len(queue) - n) : i \in Nat /\ i + n \in 1 .. Len(queue) /\ i + n > n
    BY <1>1
  <1>3. \A m \in taken : Waits(m) /\ m \in Numbers
    <2>1. \A i \in 1 .. n : i \in 1 .. Len(queue)
      BY <1>1
    <2>2. QED BY <1>1, <2>1 DEF Waits
  <1>4. \A i \in 1 .. (Len(queue) - n) : rest[i] \notin taken
    <2>1. ASSUME NEW i \in 1 .. (Len(queue) - n), NEW j \in 1 .. n, queue[j] = rest[i]
          PROVE  FALSE
      <3>1. queue[j] = queue[i + n]
        BY <2>1 DEF Cut
      <3>2. j \in 1 .. Len(queue) /\ i + n \in 1 .. Len(queue) /\ j # i + n
        BY <1>1, <1>2
      <3>3. QED BY <1>1, <3>1, <3>2
    <2>2. QED BY <2>1
  <1>5. ASSUME NEW m, Waits(m)'
        PROVE  Waits(m) /\ m \notin taken
    <2>1. PICK i \in 1 .. (Len(queue) - n) : rest[i] = m
      BY <1>5 DEF Waits, Cut
    <2>2. QED BY <1>1, <1>2, <1>4, <2>1 DEF Waits, Cut
  <1>6. Distinct(rest)
    <2>1. ASSUME NEW i \in 1 .. (Len(queue) - n), NEW j \in 1 .. (Len(queue) - n), rest[i] = rest[j]
          PROVE  i = j
      <3>1. queue[i + n] = queue[j + n]
        BY <2>1 DEF Cut
      <3>2. i + n = j + n
        BY <1>1, <1>2, <3>1
      <3>3. i \in Nat /\ j \in Nat /\ n \in Nat
        BY <1>1
      <3>4. QED BY <3>2, <3>3
    <2>2. QED BY <2>1 DEF Distinct, Cut
  <1>7. \A i \in 1 .. (Len(queue) - n) : rest[i] \notin pending
    BY <1>1, <1>2 DEF Cut
  <1>8. WaitsOnce'
    BY <1>4, <1>6, <1>7 DEF WaitsOnce, Cut
  <1>9. QED BY <1>1, <1>3, <1>5, <1>8 DEF Cut

(* SubSeq and Tail cut the queue. *)
LEMMA Cuts ==
  ASSUME queue \in Seq(Nat), NEW n \in 0 .. Len(queue)
  PROVE  LET front == SubSeq(queue, 1, n)
         IN  /\ Cut(SubSeq(queue, n + 1, Len(queue)), n)
             /\ front \in Seq(Nat) /\ DOMAIN front = 1 .. n
             /\ \A i \in 1 .. n : front[i] = queue[i]
             /\ \A m : m \in ToSet(front) <=> \E i \in 1 .. n : queue[i] = m
  <1>1. /\ Len(queue) \in Nat /\ DOMAIN queue = 1 .. Len(queue)
        /\ \A i \in 1 .. Len(queue) : queue[i] \in Nat
    BY LenProperties
  <1> DEFINE front == SubSeq(queue, 1, n)
             rest == SubSeq(queue, n + 1, Len(queue))
  <1>2. front = [i \in 1 .. n |-> queue[i]]
    <2>1. front = [i \in 1 .. (1 + n - 1) |-> queue[i + 1 - 1]]
      BY DEF SubSeq
    <2>2. QED BY <1>1, <2>1
  <1>3. rest = [i \in 1 .. (Len(queue) - n) |-> queue[i + n]]
    BY <1>1
  <1> HIDE DEF front, rest
  <1>4. /\ front \in Seq(Nat) /\ DOMAIN front = 1 .. n
        /\ \A i \in 1 .. n : front[i] = queue[i]
    <2>1. \A i \in 1 .. n : i \in 1 .. Len(queue)
      BY <1>1
    <2>2. front \in [1 .. n -> Nat] /\ n \in Nat
      BY <1>1, <1>2, <2>1
    <2>3. QED BY <1>2, <2>2
  <1>5. Cut(rest, n)
    <2>1. \A i \in 1 .. (Len(queue) - n) : i + n \in 1 .. Len(queue)
      BY <1>1
    <2>2. rest \in [1 .. (Len(queue) - n) -> Nat] /\ Len(queue) - n \in Nat
      BY <1>1, <1>3, <2>1
    <2>3. rest \in Seq(Nat)
      BY <2>2
    <2>4. QED BY <1>3, <2>3 DEF Cut
  <1>6. \A m : m \in ToSet(front) <=> \E i \in 1 .. n : queue[i] = m
    BY <1>4 DEF ToSet
  <1>7. QED BY <1>4, <1>5, <1>6 DEF front, rest

LEMMA TailCut ==
  ASSUME queue \in Seq(Nat), queue # << >>
  PROVE  /\ 1 \in 0 .. Len(queue) /\ Cut(Tail(queue), 1)
         /\ \A m : m \in {Head(queue)} <=> \E i \in 1 .. 1 : queue[i] = m
  <1>1. /\ Len(queue) \in Nat /\ Len(queue) # 0
    BY LenProperties, EmptySeq
  <1>2. /\ Tail(queue) \in Seq(Nat) /\ Len(Tail(queue)) = Len(queue) - 1 /\ queue[1] = Head(queue)
        /\ \A i \in 1 .. (Len(queue) - 1) : Tail(queue)[i] = queue[i + 1]
    BY HeadTailProperties
  <1>3. DOMAIN Tail(queue) = 1 .. (Len(queue) - 1)
    BY <1>2, LenProperties
  <1>4. QED BY <1>1, <1>2, <1>3 DEF Cut

(* One more waits. *)
LEMMA AppendFacts ==
  ASSUME NEW q \in Seq(Nat), Distinct(q), NEW m \in Nat, \A i \in DOMAIN q : q[i] # m
  PROVE  /\ Append(q, m) \in Seq(Nat) /\ Distinct(Append(q, m))
         /\ \A i \in DOMAIN Append(q, m) :
              Append(q, m)[i] = m \/ \E j \in DOMAIN q : Append(q, m)[i] = q[j]
  <1> DEFINE a == Append(q, m)
             n == Len(q)
  <1>1. /\ a \in Seq(Nat) /\ n \in Nat /\ DOMAIN q = 1 .. n /\ DOMAIN a = 1 .. (n + 1)
        /\ \A i \in 1 .. n : a[i] = q[i]
        /\ a[n + 1] = m
    BY AppendProperties, LenProperties
  <1> HIDE DEF a, n
  <1>2. \A i \in 1 .. (n + 1) : i \in 1 .. n \/ i = n + 1
    BY <1>1
  <1>3. Distinct(a)
    BY <1>1, <1>2 DEF Distinct
  <1>4. QED BY <1>1, <1>2, <1>3 DEF a

(* What a quiet step has to keep besides. *)
Tidy ==
  /\ WaitsOnce' /\ queue' \in Seq(Nat) /\ ReadersOK'
  /\ pending' \subseteq Numbers' /\ held' \subseteq held /\ acked' \subseteq acked \cup held

LEMMA QuietStep == ASSUME OnceInv, Quiet, Tidy PROVE OnceInv'
  <1>1. /\ Apart' /\ \A m \in Numbers' \ again' : FirstTime(m)'
        /\ \A m : InFlow(m)' => InFlow(m) /\ m \in Numbers'
        /\ \A m : Waits(m)' => m \in Numbers'
        /\ \A m \in Msgs \ Numbers' : got'[m] = 0
        /\ got' \in [Msgs -> 0 .. 2] /\ again' \subseteq Numbers' /\ published' \in 0 .. MaxMsgs
        /\ Numbers \subseteq Numbers'
    BY QuietKeeps
  <1>2. /\ WaitsOnce' /\ queue' \in Seq(Nat) /\ ReadersOK'
        /\ pending' \subseteq Numbers' /\ held' \subseteq held /\ acked' \subseteq acked \cup held
    BY DEF Tidy
  <1>3. held \subseteq Numbers /\ acked \subseteq Numbers /\ \A m \in held \cup acked : got[m] > 0
    BY DEF OnceInv, BrokerTypes
  <1>4. BrokerTypes'
    BY <1>1, <1>2, <1>3 DEF BrokerTypes, ReadersOK
  <1>5. \A m \in held' \cup acked' : got'[m] > 0
    BY <1>2, <1>3 DEF Quiet
  <1>6. QED BY <1>1, <1>2, <1>4, <1>5 DEF OnceInv

(* What of the invariant the steps start from. *)
LEMMA OnceParts ==
  ASSUME OnceInv
  PROVE  /\ ReadersOK /\ WaitsOnce /\ Apart /\ queue \in Seq(Nat) /\ Distinct(queue)
         /\ published \in 0 .. MaxMsgs /\ published \in Nat /\ published \in published .. MaxMsgs
         /\ pending \subseteq Numbers /\ held \subseteq Numbers /\ acked \subseteq Numbers
         /\ again \subseteq Numbers /\ Numbers \subseteq Nat
         /\ \A m : Waits(m) => m \in Numbers /\ m \notin pending
  <1>1. published \in 0 .. MaxMsgs /\ MaxMsgs \in Nat
    BY BrokerAssumption DEF OnceInv, BrokerTypes
  <1>2. published \in Nat /\ published \in published .. MaxMsgs
    BY <1>1
  <1>3. QED BY <1>1, <1>2 DEF OnceInv, BrokerTypes, ReadersOK, WaitsOnce, Waits, Numbers

(* Nothing but readers, acknowledgements and faults. *)
LEMMA QuietReaders ==
  ASSUME OnceInv, ReadersOK', \A q \in Readers : Part(Flow(q)', Flow(q)),
         UNCHANGED <<published, queue, pending, got, again>>,
         held' \subseteq held, acked' \subseteq acked \cup held
  PROVE  OnceInv'
  <1>1. Quiet
    BY OnceParts DEF Quiet, Waits
  <1>2. WaitsOnce'
    BY OnceParts DEF WaitsOnce
  <1>3. pending' \subseteq Numbers'
    BY OnceParts DEF Numbers
  <1>4. Tidy
    BY <1>2, <1>3, OnceParts DEF Tidy
  <1>5. QED BY <1>1, <1>4, QuietStep

LEMMA ReaderOf ==
  ASSUME ReadersOK, NEW r \in Readers
  PROVE  /\ ReaderOK(reader[r]) /\ reader = [q \in Readers |-> reader[q]]
         /\ reader[r] = Reader(reader[r].at, reader[r].batch, reader[r].chan, reader[r].open)
         /\ reader[r].batch \in Seq(Nat) /\ reader[r].chan \in Seq(Nat)
         /\ reader[r].at # "sending" => reader[r].batch = << >>
  BY DEF ReadersOK, ReaderOK

(* A record is in order when its parts are. *)
LEMMA ReaderIsOK ==
  ASSUME NEW place, NEW batch \in Seq(Nat), NEW chan \in Seq(Nat), NEW open,
         place = "sending" <=> batch # << >>
  PROVE  /\ ReaderOK(Reader(place, batch, chan, open))
         /\ Reader(place, batch, chan, open).chan = chan /\ Reader(place, batch, chan, open).batch = batch
  BY DEF ReaderOK, Reader

(* A reader moves and keeps what is on its way, or a part of it. *)
LEMMA MovesQuietly ==
  ASSUME OnceInv, NEW r \in Readers, NEW place, NEW batch \in Seq(Nat), NEW chan \in Seq(Nat),
         NEW open, place = "sending" <=> batch # << >>,
         reader' = [reader EXCEPT ![r] = Reader(place, batch, chan, open)],
         Part(chan \o batch, reader[r].chan \o reader[r].batch)
  PROVE  ReadersOK' /\ \A q \in Readers : Part(Flow(q)', Flow(q))
  <1> DEFINE k == Reader(place, batch, chan, open)
  <1>1. ReaderOK(k) /\ k.chan = chan /\ k.batch = batch
    BY ReaderIsOK
  <1>2. ReadersOK
    BY OnceParts
  <1>3. reader' = [reader EXCEPT ![r] = k]
    OBVIOUS
  <1>4. Part(k.chan \o k.batch, reader[r].chan \o reader[r].batch)
    BY <1>1
  <1> HIDE DEF k
  <1>5. QED BY <1>1, <1>2, <1>3, <1>4, ReaderMoves

LEMMA OnceSubscribe == ASSUME OnceInv, NEW r \in Readers, BrokerSubscribe(r) PROVE OnceInv'
  <1> DEFINE k == reader[r]
  <1>1. ReadersOK
    BY OnceParts
  <1>2. /\ ReaderOK(k) /\ reader = [q \in Readers |-> reader[q]]
        /\ k = Reader(k.at, k.batch, k.chan, k.open)
        /\ k.batch \in Seq(Nat) /\ k.chan \in Seq(Nat)
        /\ k.at # "sending" => k.batch = << >>
    BY <1>1, ReaderOf
  <1>20. k = Reader(k.at, k.batch, k.chan, k.open)
    BY <1>2
  <1>3. /\ k.at = "none" /\ UNCHANGED <<published, queue, pending, acked, ack_map, held, got, again>>
        /\ reader' = [reader EXCEPT ![r].at = "loop", ![r].open = TRUE]
    BY DEF BrokerSubscribe
  <1>4. reader' = [reader EXCEPT ![r] = Opens(k, "loop", TRUE)]
    BY <1>2, <1>3 DEF Opens
  <1> HIDE DEF k
  <1>5. Opens(k, "loop", TRUE) = Reader("loop", k.batch, k.chan, TRUE)
    BY <1>20, ReaderRecords
  <1>6. reader' = [reader EXCEPT ![r] = Reader("loop", k.batch, k.chan, TRUE)]
    BY <1>4, <1>5
  <1>7. Part(k.chan \o k.batch, k.chan \o k.batch)
    BY <1>2, PartFacts
  <1>8. /\ k.batch \in Seq(Nat) /\ k.chan \in Seq(Nat)
        /\ k.batch = << >>
    BY <1>2, <1>3
  <1>9. ReadersOK' /\ \A q \in Readers : Part(Flow(q)', Flow(q))
    <2>1. PICK place, open : place = "loop" /\ open = TRUE
      OBVIOUS
    <2>2. reader' = [reader EXCEPT ![r] = Reader(place, k.batch, k.chan, open)]
      BY <1>6, <2>1
    <2>3. place = "sending" <=> k.batch # << >>
      BY <1>8, <2>1
    <2>4. Part(k.chan \o k.batch, reader[r].chan \o reader[r].batch)
      BY <1>7 DEF k
    <2>5. QED BY <1>8, <2>2, <2>3, <2>4, MovesQuietly
  <1>10. QED BY <1>3, <1>9, QuietReaders

(* A reader that ends does not touch what is on its way. *)
LEMMA EndsQuietly ==
  ASSUME OnceInv, NEW r \in Readers, reader[r].at = "loop",
         reader' = [reader EXCEPT ![r].at = "done"]
  PROVE  ReadersOK' /\ \A q \in Readers : Part(Flow(q)', Flow(q))
  <1> DEFINE k == reader[r]
  <1>1. ReadersOK
    BY OnceParts
  <1>2. /\ ReaderOK(k) /\ reader = [q \in Readers |-> reader[q]]
        /\ k = Reader(k.at, k.batch, k.chan, k.open)
        /\ k.batch \in Seq(Nat) /\ k.chan \in Seq(Nat)
        /\ k.batch = << >>
    BY <1>1, ReaderOf
  <1>20. k = Reader(k.at, k.batch, k.chan, k.open)
    BY <1>2
  <1>3. reader' = [reader EXCEPT ![r] = [k EXCEPT !.at = "done"]]
    BY <1>2
  <1> HIDE DEF k
  <1>4. [k EXCEPT !.at = "done"] = Reader("done", k.batch, k.chan, k.open)
    BY <1>20 DEF Reader
  <1>5. reader' = [reader EXCEPT ![r] = Reader("done", k.batch, k.chan, k.open)]
    BY <1>3, <1>4
  <1>6. Part(k.chan \o k.batch, k.chan \o k.batch)
    BY <1>2, PartFacts
  <1>7. QED BY <1>2, <1>5, <1>6, MovesQuietly DEF k

LEMMA OnceRedisEnds == ASSUME OnceInv, NEW r \in Readers, RedisReaderEnds(r) PROVE OnceInv'
  <1>1. ReadersOK' /\ \A q \in Readers : Part(Flow(q)', Flow(q))
    BY EndsQuietly DEF RedisReaderEnds
  <1>2. QED BY <1>1, QuietReaders DEF RedisReaderEnds

LEMMA OnceStreamEnds == ASSUME OnceInv, NEW r \in Readers, NatsStreamEnds(r) PROVE OnceInv'
  <1>1. ReadersOK' /\ \A q \in Readers : Part(Flow(q)', Flow(q))
    BY EndsQuietly DEF NatsStreamEnds
  <1>2. QED BY <1>1, QuietReaders DEF NatsStreamEnds

LEMMA OnceDrop == ASSUME OnceInv, NEW r \in Readers, DropReceiver(r) PROVE OnceInv'
  <1> DEFINE k == reader[r]
  <1>1. ReadersOK
    BY OnceParts
  <1>2. /\ ReaderOK(k) /\ reader = [q \in Readers |-> reader[q]]
        /\ k = Reader(k.at, k.batch, k.chan, k.open)
        /\ k.batch \in Seq(Nat) /\ k.chan \in Seq(Nat)
        /\ k.at = "sending" <=> k.batch # << >>
    BY <1>1, ReaderOf DEF ReaderOK
  <1>20. k = Reader(k.at, k.batch, k.chan, k.open)
    BY <1>2
  <1>3. /\ UNCHANGED <<published, queue, pending, acked, held, got, again>>
        /\ reader' = [reader EXCEPT ![r].open = FALSE, ![r].chan = << >>]
    BY DEF DropReceiver
  <1>4. reader' = [reader EXCEPT ![r] = Shuts(k, FALSE, << >>)]
    BY <1>2, <1>3 DEF Shuts
  <1> HIDE DEF k
  <1>5. Shuts(k, FALSE, << >>) = Reader(k.at, k.batch, << >>, FALSE)
    BY <1>20, ReaderRecords
  <1>6. reader' = [reader EXCEPT ![r] = Reader(k.at, k.batch, << >>, FALSE)]
    BY <1>4, <1>5
  <1>7. Part(<< >> \o k.batch, k.chan \o k.batch)
    BY <1>2, PartFacts
  <1>8. << >> \in Seq(Nat)
    OBVIOUS
  <1>9. ReadersOK' /\ \A q \in Readers : Part(Flow(q)', Flow(q))
    BY <1>2, <1>6, <1>7, <1>8, MovesQuietly DEF k
  <1>10. QED BY <1>3, <1>9, QuietReaders

LEMMA OnceTxSend == ASSUME OnceInv, NEW r \in Readers, TxSend(r) PROVE OnceInv'
  <1> DEFINE k == reader[r]
  <1>1. ReadersOK
    BY OnceParts
  <1>2. /\ ReaderOK(k) /\ reader = [q \in Readers |-> reader[q]]
        /\ k = Reader(k.at, k.batch, k.chan, k.open)
        /\ k.batch \in Seq(Nat) /\ k.chan \in Seq(Nat) /\ << >> \in Seq(Nat)
        /\ k.at = "sending" <=> k.batch # << >>
    BY <1>1, ReaderOf DEF ReaderOK
  <1>20. k = Reader(k.at, k.batch, k.chan, k.open)
    BY <1>2
  <1>3. UNCHANGED <<published, queue, pending, acked, held, got, again>> /\ k.at = "sending"
    BY DEF TxSend
  <1> DEFINE then == IF Len(k.batch) = 1 THEN "loop" ELSE k.at
             c == Append(k.chan, Head(k.batch))
             b == Tail(k.batch)
  <1>4. CASE reader' = [reader EXCEPT ![r].chan = Append(@, Head(k.batch)),
                                      ![r].batch = Tail(@),
                                      ![r].at = IF Len(k.batch) = 1 THEN "loop" ELSE @]
    <2>1. reader' = [reader EXCEPT ![r] = Passes(k, c, b, then)]
      BY <1>2, <1>4 DEF Passes
    <2>2. /\ Head(k.batch) \in Nat /\ b \in Seq(Nat) /\ c \in Seq(Nat)
          /\ Len(b) = Len(k.batch) - 1 /\ Len(k.batch) \in Nat
      BY <1>2, <1>3, HeadTailProperties, AppendProperties, LenProperties
    <2>3. Part(c \o b, k.chan \o k.batch)
      BY <1>2, <1>3, PartFacts
    <2>4. then = "sending" <=> b # << >>
      <3>1. b = << >> <=> Len(b) = 0
        BY <2>2, EmptySeq
      <3> HIDE DEF b, k
      <3>2. QED BY <1>3, <2>2, <3>1
    <2> HIDE DEF k, c, b, then
    <2>5. Passes(k, c, b, then) = Reader(then, b, c, k.open)
      BY <1>20, ReaderRecords
    <2>6. reader' = [reader EXCEPT ![r] = Reader(then, b, c, k.open)]
      BY <2>1, <2>5
    <2>7. ReadersOK' /\ \A q \in Readers : Part(Flow(q)', Flow(q))
      BY <2>2, <2>3, <2>4, <2>6, MovesQuietly DEF k
    <2>8. QED BY <1>3, <2>7, QuietReaders
  <1>5. CASE reader' = [reader EXCEPT ![r].at = "done", ![r].batch = << >>]
    <2>1. reader' = [reader EXCEPT ![r] = Loads(k, "done", << >>)]
      BY <1>2, <1>5 DEF Loads
    <2> HIDE DEF k
    <2>2. Loads(k, "done", << >>) = Reader("done", << >>, k.chan, k.open)
      BY <1>20, ReaderRecords
    <2>3. reader' = [reader EXCEPT ![r] = Reader("done", << >>, k.chan, k.open)]
      BY <2>1, <2>2
    <2>4. Part(k.chan \o << >>, k.chan \o k.batch)
      BY <1>2, PartFacts
    <2>5. ReadersOK' /\ \A q \in Readers : Part(Flow(q)', Flow(q))
      BY <1>2, <2>3, <2>4, MovesQuietly DEF k
    <2>6. QED BY <1>3, <2>5, QuietReaders
  <1>6. QED BY <1>4, <1>5 DEF TxSend

LEMMA OnceCrash == ASSUME OnceInv, Crash PROVE OnceInv'
  <1>1. ReadersOK /\ reader' = [r \in Readers |-> NoReader]
    BY OnceParts DEF Crash
  <1>2. NoReader = Reader("none", << >>, << >>, FALSE) /\ << >> \in Seq(Nat)
    BY DEF NoReader, Reader
  <1>3. ReaderOK(NoReader) /\ NoReader.chan = << >> /\ NoReader.batch = << >>
    BY <1>2 DEF ReaderOK, NoReader, Reader
  <1>4. ReadersOK'
    BY <1>1, <1>3 DEF ReadersOK
  <1>5. ASSUME NEW q \in Readers
        PROVE  Part(Flow(q)', Flow(q))
    <2>1. Flow(q)' = << >> \o << >>
      BY <1>1, <1>3 DEF Flow
    <2>2. Part(<< >> \o << >>, reader[q].chan \o reader[q].batch)
      BY <1>1, ReaderOf, PartFacts
    <2>3. QED BY <2>1, <2>2 DEF Flow
  <1>6. QED BY <1>4, <1>5, QuietReaders DEF Crash

LEMMA OnceDisappears == ASSUME OnceInv, GroupDisappears PROVE OnceInv'
  <1>1. /\ UNCHANGED <<published, acked, reader, held, got, again>>
        /\ queue' = << >> /\ pending' = {}
    BY DEF GroupDisappears
  <1>2. ReadersOK' /\ \A q \in Readers : Part(Flow(q)', Flow(q))
    BY <1>1, OnceParts, ReadersStay
  <1>3. WaitsOnce' /\ queue' \in Seq(Nat) /\ \A m : ~ Waits(m)'
    <2>1. DOMAIN << >> = {} /\ << >> \in Seq(Nat)
      OBVIOUS
    <2>2. QED BY <1>1, <2>1 DEF WaitsOnce, Distinct, Waits
  <1>4. Quiet
    BY <1>1, <1>2, <1>3, OnceParts DEF Quiet
  <1>5. Tidy
    BY <1>1, <1>2, <1>3 DEF Tidy
  <1>6. QED BY <1>4, <1>5, QuietStep

LEMMA OnceAckFails == ASSUME OnceInv, NEW m \in Msgs, BrokerAckFails(m) PROVE OnceInv'
  <1>1. ReadersOK' /\ \A q \in Readers : Part(Flow(q)', Flow(q))
    BY OnceParts, ReadersStay DEF BrokerAckFails
  <1>2. QED BY <1>1, QuietReaders DEF BrokerAckFails, Forget

(* Something is taken from the queue, and goes nowhere. *)
LEMMA OnceCut ==
  ASSUME OnceInv, ReadersOK', \A q \in Readers : Part(Flow(q)', Flow(q)),
         UNCHANGED <<published, acked, held, got, again>>,
         WaitsOnce', queue' \in Seq(Nat), pending' \subseteq Numbers,
         \A m : Waits(m)' => Waits(m)
  PROVE  OnceInv'
  <1>1. Quiet
    BY OnceParts DEF Quiet
  <1>2. pending' \subseteq Numbers'
    BY DEF Numbers
  <1>3. Tidy
    BY <1>2 DEF Tidy
  <1>4. QED BY <1>1, <1>3, QuietStep

LEMMA OnceNatsEnds == ASSUME OnceInv, NEW r \in Readers, NatsReaderEnds(r) PROVE OnceInv'
  <1>1. ReadersOK' /\ \A q \in Readers : Part(Flow(q)', Flow(q))
    BY EndsQuietly DEF NatsReaderEnds
  <1>2. /\ queue \in Seq(Nat) /\ queue # << >> /\ queue' = Tail(queue)
        /\ pending' = pending \cup {Head(queue)}
    BY OnceParts DEF NatsReaderEnds
  <1>3. /\ 1 \in 0 .. Len(queue) /\ Cut(Tail(queue), 1)
        /\ \A m : m \in {Head(queue)} <=> \E i \in 1 .. 1 : queue[i] = m
    BY <1>2, TailCut
  <1>4. /\ WaitsOnce' /\ queue' \in Seq(Nat) /\ pending' \subseteq Numbers
        /\ \A m : Waits(m)' => Waits(m)
    BY <1>2, <1>3, CutFacts
  <1>5. QED BY <1>1, <1>4, OnceCut DEF NatsReaderEnds

(* The length of a batch. *)
LEMMA BatchFits ==
  ASSUME queue \in Seq(Nat), queue # << >>
  PROVE  /\ Batch \in 1 .. Len(queue) /\ Batch \in 0 .. Len(queue)
         /\ 1 \in 1 .. Len(queue)
  <1>1. Len(queue) \in Nat /\ Len(queue) # 0
    BY LenProperties, EmptySeq
  <1>2. QED BY <1>1, BrokerAssumption DEF Batch

LEMMA OnceReadFails == ASSUME OnceInv, NEW r \in Readers, XReadGroupFails(r) PROVE OnceInv'
  <1> DEFINE rest == SubSeq(queue, Batch + 1, Len(queue))
             taken == ToSet(SubSeq(queue, 1, Batch))
  <1>1. ReadersOK' /\ \A q \in Readers : Part(Flow(q)', Flow(q))
    BY OnceParts, ReadersStay DEF XReadGroupFails
  <1>2. /\ queue \in Seq(Nat) /\ queue # << >> /\ queue' = rest
        /\ pending' = pending \cup taken
    BY OnceParts DEF XReadGroupFails
  <1>3. Batch \in 0 .. Len(queue)
    BY <1>2, BatchFits
  <1>4. Cut(rest, Batch) /\ \A m : m \in taken <=> \E i \in 1 .. Batch : queue[i] = m
    BY <1>2, <1>3, Cuts
  <1> HIDE DEF rest, taken
  <1>5. /\ WaitsOnce' /\ queue' \in Seq(Nat) /\ pending' \subseteq Numbers
        /\ \A m : Waits(m)' => Waits(m)
    BY <1>2, <1>3, <1>4, CutFacts
  <1>6. QED BY <1>1, <1>5, OnceCut DEF XReadGroupFails

(* The first n of the queue go into the batch of r. *)
LEMMA OnceTakes ==
  ASSUME OnceInv, NEW r \in Readers, reader[r].at = "loop", NEW n \in 1 .. Len(queue),
         Takes(r, n), UNCHANGED <<published, acked, held, got, again>>
  PROVE  OnceInv'
  <1> DEFINE k == reader[r]
             front == SubSeq(queue, 1, n)
             rest == SubSeq(queue, n + 1, Len(queue))
             taken == ToSet(front)
             l == Len(k.chan)
  <1>1. ReadersOK /\ queue \in Seq(Nat) /\ Distinct(queue) /\ Len(queue) \in Nat
        /\ DOMAIN queue = 1 .. Len(queue)
    BY OnceParts, LenProperties
  <1>2. /\ ReaderOK(k) /\ reader = [q \in Readers |-> reader[q]]
        /\ k.chan \in Seq(Nat) /\ k.batch = << >>
    BY <1>1, ReaderOf
  <1>3. k = Reader(k.at, k.batch, k.chan, k.open)
    BY <1>1, ReaderOf
  <1>4. n \in 0 .. Len(queue) /\ n \in Nat /\ n > 0
    BY <1>1
  <1>5. /\ Cut(rest, n) /\ front \in Seq(Nat) /\ DOMAIN front = 1 .. n
        /\ \A i \in 1 .. n : front[i] = queue[i]
        /\ \A m : m \in taken <=> \E i \in 1 .. n : queue[i] = m
    BY <1>1, <1>4, Cuts
  <1>6. /\ queue' = rest /\ pending' = pending \cup taken
        /\ reader' = [reader EXCEPT ![r].at = "sending", ![r].batch = front]
    BY DEF Takes
  <1>7. reader' = [reader EXCEPT ![r] = Loads(k, "sending", front)]
    BY <1>2, <1>6 DEF Loads
  <1> HIDE DEF rest, taken, front
  <1>8. /\ WaitsOnce' /\ queue' \in Seq(Nat) /\ pending' \subseteq Numbers
        /\ \A m : Waits(m)' => Waits(m) /\ m \notin taken
        /\ \A m \in taken : Waits(m) /\ m \in Numbers
    BY <1>4, <1>5, <1>6, CutFacts
  <1>9. front # << >>
    <2>1. 1 \in DOMAIN front
      BY <1>4, <1>5
    <2>2. QED BY <2>1
  <1>10. Loads(k, "sending", front) = Reader("sending", front, k.chan, k.open)
    <2> HIDE DEF k
    <2>1. QED BY <1>3, ReaderRecords
  <1> DEFINE z == Reader("sending", front, k.chan, k.open)
  <1>11. ReaderOK(z) /\ z.chan = k.chan /\ z.batch = front /\ reader' = [reader EXCEPT ![r] = z]
    <2>1. PICK place : place = "sending"
      OBVIOUS
    <2>2. place = "sending" <=> front # << >>
      BY <1>9, <2>1
    <2>3. z = Reader(place, front, k.chan, k.open)
      BY <2>1
    <2> HIDE DEF z, k
    <2>4. ReaderOK(z) /\ z.chan = k.chan /\ z.batch = front
      BY <1>2, <1>5, <2>2, <2>3, ReaderIsOK
    <2>5. QED BY <1>7, <1>10, <2>4 DEF z
  <1> HIDE DEF z
  <1>12. /\ ReadersOK' /\ Flow(r)' = z.chan \o z.batch
         /\ \A q \in Readers : q # r => Flow(q)' = Flow(q)
    BY <1>1, <1>11, ReaderMoves
  <1>13. Flow(r) = k.chan /\ Flow(r)' = k.chan \o front
    BY <1>2, <1>11, <1>12, ConcatEmptySeq DEF Flow
  <1>14. /\ l \in Nat /\ DOMAIN Flow(r) = 1 .. l /\ DOMAIN Flow(r)' = 1 .. (l + n)
         /\ \A i \in 1 .. l : Flow(r)'[i] = Flow(r)[i]
         /\ \A i \in 1 .. (l + n) : i > l => Flow(r)'[i] = front[i - l]
    <2>1. Len(front) = n
      BY <1>4, <1>5, LenProperties
    <2> HIDE DEF k
    <2>2. /\ Len(k.chan) \in Nat /\ DOMAIN k.chan = 1 .. Len(k.chan)
          /\ DOMAIN (k.chan \o front) = 1 .. (Len(k.chan) + Len(front))
          /\ \A i \in 1 .. Len(k.chan) : (k.chan \o front)[i] = k.chan[i]
          /\ \A i \in 1 .. (Len(k.chan) + Len(front)) :
               i > Len(k.chan) => (k.chan \o front)[i] = front[i - Len(k.chan)]
      BY <1>2, <1>5, FlowFacts
    <2> HIDE DEF Flow
    <2>3. QED BY <1>13, <2>1, <2>2
  <1> HIDE DEF l, k
  <1>15. ASSUME NEW q \in Readers, NEW i \in DOMAIN Flow(q)'
         PROVE  \/ i \in DOMAIN Flow(q) /\ Flow(q)'[i] = Flow(q)[i]
                \/ /\ q = r /\ i - l \in 1 .. n /\ i \in Nat
                   /\ Flow(q)'[i] = queue[i - l] /\ Flow(q)'[i] \in taken
    <2>1. CASE q # r
      BY <1>12, <2>1
    <2>2. CASE q = r /\ i \in 1 .. l
      BY <1>14, <2>2
    <2>3. CASE q = r /\ i \notin 1 .. l
      <3>1. i \in 1 .. (l + n)
        BY <1>14, <2>3
      <3>2. i \in Nat /\ i > l /\ i - l \in 1 .. n
        BY <1>4, <1>14, <2>3, <3>1
      <3>3. Flow(q)'[i] = queue[i - l]
        BY <1>5, <1>14, <2>3, <3>1, <3>2
      <3>4. QED BY <1>5, <2>3, <3>2, <3>3
    <2>4. QED BY <2>1, <2>2, <2>3
  <1>16. \A m : InFlow(m)' => InFlow(m) \/ m \in taken
    BY <1>15 DEF InFlow
  <1>17. ASSUME NEW m \in taken, m \notin again
         PROVE  FirstTime(m) /\ Waits(m) /\ got[m] = 0 /\ ~ InFlow(m)
    BY <1>8, <1>17 DEF OnceInv, FirstTime
  <1>18. Apart'
    <2>1. SUFFICES ASSUME NEW p \in Readers, NEW q \in Readers,
                          NEW i \in DOMAIN Flow(p)', NEW j \in DOMAIN Flow(q)',
                          Flow(p)'[i] = Flow(q)'[j], Flow(p)'[i] \notin again
                   PROVE  p = q /\ i = j
      BY DEF Apart
    <2> DEFINE m == Flow(p)'[i]
    <2>2. Apart
      BY DEF OnceInv
    <2>3. CASE m \in taken
      <3>1. ~ InFlow(m)
        BY <1>17, <2>1, <2>3
      <3>2. /\ ~ (i \in DOMAIN Flow(p) /\ Flow(p)'[i] = Flow(p)[i])
            /\ ~ (j \in DOMAIN Flow(q) /\ Flow(q)'[j] = Flow(q)[j])
        BY <2>1, <3>1 DEF InFlow
      <3>3. /\ p = r /\ q = r /\ i - l \in 1 .. n /\ j - l \in 1 .. n /\ i \in Nat /\ j \in Nat
            /\ queue[i - l] = queue[j - l]
        BY <1>15, <2>1, <3>2
      <3>4. i - l \in DOMAIN queue /\ j - l \in DOMAIN queue
        BY <1>1, <3>3
      <3>5. i - l = j - l
        BY <1>1, <3>3, <3>4 DEF Distinct
      <3>6. QED BY <1>14, <3>3, <3>5
    <2>4. CASE m \notin taken
      <3>1. /\ i \in DOMAIN Flow(p) /\ Flow(p)'[i] = Flow(p)[i]
            /\ j \in DOMAIN Flow(q) /\ Flow(q)'[j] = Flow(q)[j]
        BY <1>15, <2>1, <2>4
      <3>2. QED BY <2>1, <2>2, <3>1 DEF Apart
    <2>5. QED BY <2>3, <2>4
  <1>19. Numbers' = Numbers
    BY DEF Numbers
  <1>20. ASSUME NEW m \in Numbers \ again
         PROVE  FirstTime(m)'
    <2>1. FirstTime(m)
      BY DEF OnceInv
    <2>2. QED BY <1>8, <1>16, <1>17, <2>1 DEF FirstTime
  <1>21. BrokerTypes'
    <2>1. \A m : Waits(m)' => m \in Numbers
      BY <1>8, OnceParts
    <2>2. \A m : InFlow(m)' => m \in Numbers
      BY <1>8, <1>16 DEF OnceInv, BrokerTypes
    <2>3. QED BY <1>8, <1>12, <1>19, <2>1, <2>2 DEF OnceInv, BrokerTypes, ReadersOK
  <1>22. /\ \A m \in held' \cup acked' : got'[m] > 0
         /\ \A m \in Msgs \ Numbers' : got'[m] = 0
    BY <1>19 DEF OnceInv
  <1>23. \A m \in Numbers' \ again' : FirstTime(m)'
    BY <1>19, <1>20
  <1>24. QED BY <1>8, <1>18, <1>21, <1>22, <1>23 DEF OnceInv

LEMMA OnceNats == ASSUME OnceInv, NEW r \in Readers, NatsMessage(r) PROVE OnceInv'
  <1>1. queue \in Seq(Nat) /\ queue # << >>
    BY OnceParts DEF NatsMessage, Takes
  <1>2. 1 \in 1 .. Len(queue)
    BY <1>1, BatchFits
  <1>3. reader[r].at = "loop" /\ Takes(r, 1) /\ UNCHANGED <<published, acked, held, got, again>>
    BY DEF NatsMessage
  <1>4. QED BY <1>2, <1>3, OnceTakes

LEMMA OnceRead == ASSUME OnceInv, NEW r \in Readers, XReadGroup(r) PROVE OnceInv'
  <1>1. queue \in Seq(Nat) /\ queue # << >>
    BY OnceParts DEF XReadGroup, Takes
  <1>2. Batch \in 1 .. Len(queue)
    BY <1>1, BatchFits
  <1>3. /\ reader[r].at = "loop" /\ Takes(r, Batch)
        /\ UNCHANGED <<published, acked, held, got, again>>
    BY DEF XReadGroup
  <1>4. QED BY <1>2, <1>3, OnceTakes

(* The queue changes, and the readers do not. *)
LEMMA OnceQueue ==
  ASSUME OnceInv, Quiet, reader' = reader, WaitsOnce', queue' \in Seq(Nat),
         pending' \subseteq Numbers, held' \subseteq held, acked' \subseteq acked \cup held
  PROVE  OnceInv'
  <1>1. ReadersOK'
    BY OnceParts, ReadersStay
  <1>2. Numbers \subseteq Numbers'
    BY OnceParts DEF Quiet, Numbers
  <1>3. Tidy
    BY <1>1, <1>2 DEF Tidy
  <1>4. QED BY <1>3, QuietStep

LEMMA OncePublish == ASSUME OnceInv, NEW m \in Msgs, BrokerPublish(m) PROVE OnceInv'
  <1>1. /\ m = published + 1 /\ published' = m /\ reader' = reader
        /\ UNCHANGED <<pending, acked, held, got, again>>
    BY DEF BrokerPublish, Stores
  <1>2. /\ queue \in Seq(Nat) /\ Distinct(queue) /\ published \in Nat
        /\ \A x : Waits(x) => x \in Numbers /\ x \notin pending
        /\ \A q \in Readers : Part(Flow(q)', Flow(q))
    BY <1>1, OnceParts, ReadersStay
  <1>3. m \in Nat /\ m \notin Numbers /\ m \in Numbers' /\ Numbers \subseteq Numbers'
    BY <1>1, <1>2 DEF Numbers
  <1>4. ASSUME NEW q \in Seq(Nat), Distinct(q), queue' = Append(q, m),
               \A i \in DOMAIN q : \E j \in DOMAIN queue : q[i] = queue[j]
        PROVE  OnceInv'
    <2>1. \A i \in DOMAIN q : Waits(q[i])
      BY <1>4 DEF Waits
    <2>2. \A i \in DOMAIN q : q[i] # m
      BY <1>2, <1>3, <2>1
    <2>3. /\ queue' \in Seq(Nat) /\ Distinct(queue')
          /\ \A i \in DOMAIN queue' : queue'[i] = m \/ \E j \in DOMAIN q : queue'[i] = q[j]
      BY <1>3, <1>4, <2>2, AppendFacts
    <2>4. \A x : Waits(x)' => Waits(x) \/ x = m
      BY <2>1, <2>3 DEF Waits
    <2>5. m \notin pending
      BY <1>3, OnceParts
    <2>6. WaitsOnce'
      <3>1. ASSUME NEW i \in DOMAIN queue'
            PROVE  queue'[i] \notin pending
        <4>1. CASE queue'[i] = m
          BY <2>5, <4>1
        <4>2. CASE \E j \in DOMAIN q : queue'[i] = q[j]
          BY <1>2, <2>1, <4>2
        <4>3. QED BY <2>3, <4>1, <4>2
      <3>2. QED BY <1>1, <2>3, <3>1 DEF WaitsOnce
    <2>7. published' \in published .. MaxMsgs
      BY <1>1, <1>2, BrokerAssumption DEF Msgs
    <2>8. Quiet
      BY <1>1, <1>2, <1>3, <2>4, <2>7, OnceParts DEF Quiet
    <2>9. QED BY <1>1, <2>3, <2>6, <2>8, OnceParts, OnceQueue
  <1>5. CASE queue' = Append(queue, m)
    BY <1>2, <1>4, <1>5
  <1>6. CASE Len(queue) >= MaxLen /\ queue' = Append(Tail(queue), m)
    <2>1. queue # << >>
      <3>1. Len(queue) # 0
        BY <1>2, <1>6, BrokerAssumption, LenProperties
      <3>2. QED BY <1>2, <3>1, EmptySeq
    <2>2. 1 \in 0 .. Len(queue) /\ Cut(Tail(queue), 1)
      BY <1>2, <2>1, TailCut
    <2> DEFINE q == Tail(queue)
               n == Len(queue) - 1
    <2>3. /\ Len(queue) \in Nat /\ DOMAIN queue = 1 .. Len(queue)
      BY <1>2, LenProperties
    <2>4. /\ q \in Seq(Nat) /\ DOMAIN q = 1 .. n
          /\ \A i \in 1 .. n : q[i] = queue[i + 1]
      BY <2>2 DEF Cut
    <2>5. \A i \in 1 .. n : i \in Nat /\ i + 1 \in DOMAIN queue
      BY <2>3
    <2> HIDE DEF q, n
    <2>6. Distinct(q)
      <3>1. ASSUME NEW i \in 1 .. n, NEW j \in 1 .. n, q[i] = q[j]
            PROVE  i = j
        <4>1. i + 1 = j + 1
          BY <1>2, <2>4, <2>5, <3>1 DEF Distinct
        <4>2. QED BY <2>5, <4>1
      <3>2. QED BY <2>4, <3>1 DEF Distinct
    <2>7. \A i \in DOMAIN q : \E j \in DOMAIN queue : q[i] = queue[j]
      BY <2>4, <2>5
    <2>8. queue' = Append(q, m)
      BY <1>6 DEF q
    <2>9. QED BY <1>4, <2>4, <2>6, <2>7, <2>8
  <1>7. QED BY <1>5, <1>6 DEF BrokerPublish, Stores

LEMMA OnceRedelivers == ASSUME OnceInv, NEW m \in Msgs, Redelivers(m) PROVE OnceInv'
  <1>1. /\ m \in pending /\ pending' = pending \ {m} /\ queue' = Append(queue, m)
        /\ again' = again \cup {m} /\ UNCHANGED <<published, acked, reader, held, got>>
    BY DEF Redelivers
  <1>2. /\ queue \in Seq(Nat) /\ Distinct(queue) /\ published \in Nat
        /\ published \in published .. MaxMsgs
        /\ pending \subseteq Numbers /\ Numbers \subseteq Nat /\ again \subseteq Numbers
        /\ \A x : Waits(x) => x \in Numbers /\ x \notin pending
        /\ \A q \in Readers : Part(Flow(q)', Flow(q))
    BY <1>1, OnceParts, ReadersStay
  <1>3. m \in Nat /\ \A i \in DOMAIN queue : queue[i] # m
    BY <1>1, <1>2 DEF Waits
  <1>4. /\ queue' \in Seq(Nat) /\ Distinct(queue')
        /\ \A i \in DOMAIN queue' : queue'[i] = m \/ \E j \in DOMAIN queue : queue'[i] = queue[j]
    BY <1>1, <1>2, <1>3, AppendFacts
  <1>5. WaitsOnce'
    BY <1>1, <1>2, <1>4 DEF WaitsOnce, Waits
  <1>6. \A x : Waits(x)' => Waits(x) \/ x \in again'
    BY <1>1, <1>4 DEF Waits
  <1>7. Quiet
    BY <1>1, <1>2, <1>6 DEF Quiet
  <1>8. QED BY <1>1, <1>2, <1>4, <1>5, <1>7, OnceQueue

LEMMA OnceAck == ASSUME OnceInv, NEW m \in Msgs, BrokerAck(m) PROVE OnceInv'
  <1> DEFINE kept == {i \in DOMAIN queue : queue[i] # m}
  <1>1. /\ m \in held /\ held' = held \ {m} /\ acked' = acked \cup {m}
        /\ pending' = pending \ {m} /\ queue' = Keep(queue, kept)
        /\ UNCHANGED <<published, reader, got, again>>
    BY DEF BrokerAck, Forget
  <1>2. /\ queue \in Seq(Nat) /\ Distinct(queue)
        /\ published \in published .. MaxMsgs
        /\ pending \subseteq Numbers /\ again \subseteq Numbers
        /\ \A x : Waits(x) => x \in Numbers /\ x \notin pending
        /\ \A q \in Readers : Part(Flow(q)', Flow(q))
    BY <1>1, OnceParts, ReadersStay
  <1>3. kept \in SUBSET DOMAIN queue
    OBVIOUS
  <1> HIDE DEF kept
  <1>4. /\ queue' \in Seq(Nat) /\ Distinct(queue')
        /\ \A k \in DOMAIN queue' : \E i \in kept : queue'[k] = queue[i]
    BY <1>1, <1>2, <1>3, KeepFacts
  <1>5. \A x : Waits(x)' => Waits(x)
    BY <1>3, <1>4 DEF Waits
  <1>6. WaitsOnce'
    BY <1>1, <1>2, <1>3, <1>4 DEF WaitsOnce, Waits
  <1>7. Quiet
    BY <1>1, <1>2, <1>5 DEF Quiet
  <1>8. pending' \subseteq Numbers /\ held' \subseteq held /\ acked' \subseteq acked \cup held
    BY <1>1, <1>2
  <1>9. QED BY <1>1, <1>4, <1>6, <1>7, <1>8, OnceQueue

-----------------------------------------------------------------------------
(* A message is received. *)

LEMMA OnceReceive == ASSUME OnceInv, NEW r \in Readers, Receive(r) PROVE OnceInv'
  <1> DEFINE k == reader[r]
             c == Tail(k.chan)
  <1> PICK m : m = Head(k.chan)
    OBVIOUS
  <1>1. ReadersOK /\ Apart
    BY OnceParts
  <1>2. /\ ReaderOK(k) /\ reader = [q \in Readers |-> reader[q]]
        /\ k.chan \in Seq(Nat) /\ k.batch \in Seq(Nat)
        /\ k.at = "sending" <=> k.batch # << >>
    BY <1>1, ReaderOf DEF ReaderOK
  <1>3. k = Reader(k.at, k.batch, k.chan, k.open)
    BY <1>1, ReaderOf
  <1>4. /\ k.chan # << >> /\ reader' = [reader EXCEPT ![r].chan = Tail(@)]
        /\ held' = held \cup {m} /\ got' = [got EXCEPT ![m] = IF @ = 2 THEN 2 ELSE @ + 1]
        /\ UNCHANGED <<published, queue, pending, acked, again>>
    BY DEF Receive
  <1>5. reader' = [reader EXCEPT ![r] = [k EXCEPT !.chan = c]]
    BY <1>2, <1>4
  <1>6. c \in Seq(Nat) /\ m \in Nat
    BY <1>2, <1>4, HeadTailProperties
  <1> DEFINE z == Reader(k.at, k.batch, c, k.open)
  <1>7. [k EXCEPT !.chan = c] = z
    <2> HIDE DEF k, c
    <2>1. QED BY <1>3 DEF Reader
  <1>8. ReaderOK(z) /\ z.chan = c /\ z.batch = k.batch
    <2> HIDE DEF k, c
    <2>1. QED BY <1>2, <1>6, ReaderIsOK
  <1>9. reader' = [reader EXCEPT ![r] = z]
    BY <1>5, <1>7
  <1>10. /\ PartFrom(c \o k.batch, k.chan \o k.batch, 1)
         /\ Part(c \o k.batch, k.chan \o k.batch) /\ k.chan[1] = m
    BY <1>2, <1>4, PartFacts
  <1> HIDE DEF z, c
  <1>11. /\ ReadersOK' /\ Flow(r)' = c \o k.batch
         /\ \A q \in Readers : q # r => Flow(q)' = Flow(q)
         /\ \A q \in Readers : Part(Flow(q)', Flow(q))
    BY <1>1, <1>8, <1>9, <1>10, ReaderMoves
  <1>12. Apart' /\ \A x : InFlow(x)' => InFlow(x)
    BY <1>1, <1>4, <1>11, PartsApart
  <1> HIDE DEF k
  <1>13. 1 \in DOMAIN Flow(r) /\ Flow(r)[1] = m /\ InFlow(m)
    <2>1. Flow(r) = k.chan \o k.batch
      BY DEF Flow, k
    <2>2. Len(k.chan) \in Nat /\ Len(k.chan) # 0 /\ Len(k.batch) \in Nat
      BY <1>2, <1>4, LenProperties, EmptySeq
    <2>3. 1 \in DOMAIN Flow(r) /\ Flow(r)[1] = m
      <3>1. 1 \in 1 .. Len(k.chan) /\ 1 \in 1 .. (Len(k.chan) + Len(k.batch))
        <4>1. \A a, b \in Nat : a # 0 => 1 \in 1 .. a /\ 1 \in 1 .. (a + b)
          OBVIOUS
        <4>2. QED BY <2>2, <4>1
      <3>2. /\ DOMAIN (k.chan \o k.batch) = 1 .. (Len(k.chan) + Len(k.batch))
            /\ \A i \in 1 .. Len(k.chan) : (k.chan \o k.batch)[i] = k.chan[i]
        BY <1>2, FlowFacts
      <3>3. QED BY <1>10, <2>1, <3>1, <3>2
    <2>4. QED BY <2>3 DEF InFlow
  <1>14. m \in Numbers /\ m \in Msgs
    <2>1. m \in Numbers
      BY <1>13 DEF OnceInv, BrokerTypes
    <2>2. QED BY <2>1, OnceParts, BrokerAssumption DEF Numbers, Msgs
  <1>15. /\ got' \in [Msgs -> 0 .. 2] /\ got'[m] > 0
         /\ got'[m] = IF got[m] = 2 THEN 2 ELSE got[m] + 1
         /\ \A x \in Msgs : x # m => got'[x] = got[x]
    <2>1. got \in [Msgs -> 0 .. 2]
      BY DEF OnceInv, BrokerTypes
    <2>2. got[m] \in 0 .. 2
      BY <1>14, <2>1
    <2>3. QED BY <1>4, <1>14, <2>1, <2>2
  <1>16. Numbers' = Numbers /\ Numbers \subseteq Msgs
    BY <1>4, OnceParts, BrokerAssumption DEF Numbers, Msgs
  <1>17. m \notin again => ~ InFlow(m)'
    <2>0. SUFFICES ASSUME m \notin again, InFlow(m)'
                   PROVE  FALSE
      OBVIOUS
    <2> PICK q \in Readers : \E i \in DOMAIN Flow(q)' : Flow(q)'[i] = m
      BY <2>0 DEF InFlow
    <2>1. PICK i \in DOMAIN Flow(q)' : Flow(q)'[i] = m
      OBVIOUS
    <2>2. CASE q # r
      <3>1. i \in DOMAIN Flow(q) /\ Flow(q)[i] = m
        BY <1>11, <2>1, <2>2
      <3>2. QED BY <1>1, <1>13, <2>0, <2>2, <3>1 DEF Apart
    <2>3. CASE q = r
      <3>1. PartFrom(Flow(r)', Flow(r), 1)
        BY <1>10, <1>11 DEF Flow, k
      <3>2. i \in Nat /\ i + 1 \in DOMAIN Flow(r) /\ Flow(r)[i + 1] = m
        BY <2>1, <2>3, <3>1 DEF PartFrom
      <3>3. i + 1 = 1
        BY <1>1, <1>13, <2>0, <2>3, <3>2 DEF Apart
      <3>4. i \in 1 .. (Len(c) + Len(k.batch)) /\ Len(c) \in Nat /\ Len(k.batch) \in Nat
        <4>1. i \in DOMAIN (c \o k.batch)
          BY <1>11, <2>3
        <4>2. QED BY <1>2, <1>6, <4>1, FlowFacts
      <3>5. QED BY <3>2, <3>3, <3>4
    <2>4. QED BY <2>2, <2>3
  <1>18. ASSUME NEW x \in Numbers \ again
         PROVE  FirstTime(x)'
    <2>1. FirstTime(x) /\ x \in Msgs /\ (Waits(x)' <=> Waits(x))
      BY <1>4, <1>16 DEF OnceInv, Waits
    <2>2. CASE x = m
      <3>1. got[x] = 0 /\ ~ Waits(x)
        BY <1>13, <2>1, <2>2 DEF FirstTime
      <3>2. got'[x] = 1
        BY <1>15, <2>2, <3>1
      <3>3. QED BY <1>17, <2>1, <2>2, <3>1, <3>2 DEF FirstTime
    <2>3. CASE x # m
      BY <1>12, <1>15, <2>1, <2>3 DEF FirstTime
    <2>4. QED BY <2>2, <2>3
  <1>19. BrokerTypes'
    <2>1. /\ queue \in Seq(Nat) /\ \A x : Waits(x)' => x \in Numbers
          /\ pending \subseteq Numbers /\ held' \subseteq Numbers /\ acked \subseteq Numbers
          /\ published \in 0 .. MaxMsgs /\ again \subseteq Numbers
      BY <1>4, <1>14, OnceParts DEF Waits
    <2>2. \A x : InFlow(x)' => x \in Numbers
      BY <1>12 DEF OnceInv, BrokerTypes
    <2>3. QED BY <1>4, <1>11, <1>15, <1>16, <2>1, <2>2 DEF BrokerTypes, ReadersOK
  <1>20. \A x \in held' \cup acked' : got'[x] > 0
    <2>1. \A x \in held \cup acked : got[x] > 0 /\ x \in Msgs
      BY <1>16, OnceParts DEF OnceInv
    <2>2. QED BY <1>4, <1>15, <2>1
  <1>21. \A x \in Msgs \ Numbers' : got'[x] = 0
    BY <1>14, <1>15, <1>16 DEF OnceInv
  <1>22. WaitsOnce'
    BY <1>4, OnceParts DEF WaitsOnce
  <1>23. \A x \in Numbers' \ again' : FirstTime(x)'
    BY <1>4, <1>16, <1>18
  <1>24. QED BY <1>12, <1>19, <1>20, <1>21, <1>22, <1>23 DEF OnceInv

LEMMA OnceInitOK == BrokerInit => OnceInv
  <1> SUFFICES ASSUME BrokerInit PROVE OnceInv
    OBVIOUS
  <1>1. /\ published = 0 /\ queue = << >> /\ pending = {} /\ acked = {} /\ held = {} /\ again = {}
        /\ reader = [r \in Readers |-> NoReader] /\ got = [m \in Msgs |-> 0]
    BY DEF BrokerInit
  <1>2. ReaderOK(NoReader) /\ NoReader.chan = << >> /\ NoReader.batch = << >>
    <2>1. NoReader = Reader("none", << >>, << >>, FALSE) /\ << >> \in Seq(Nat)
      BY DEF NoReader, Reader
    <2>2. QED BY <2>1 DEF ReaderOK, NoReader, Reader
  <1>3. ReadersOK
    BY <1>1, <1>2 DEF ReadersOK
  <1>4. \A r \in Readers : Flow(r) = << >> /\ DOMAIN Flow(r) = {}
    <2>1. << >> \o << >> = << >>
      BY ConcatEmptySeq
    <2>2. ASSUME NEW r \in Readers
          PROVE  Flow(r) = << >>
      <3>1. reader[r].chan = << >> /\ reader[r].batch = << >>
        BY <1>1, <1>2
      <3>2. QED BY <2>1, <3>1 DEF Flow
    <2>3. DOMAIN << >> = {}
      OBVIOUS
    <2>4. QED BY <2>2, <2>3
  <1>5. (\A m : ~ InFlow(m)) /\ \A m : ~ Waits(m)
    BY <1>1, <1>4 DEF InFlow, Waits
  <1>6. BrokerTypes
    BY <1>1, <1>3, <1>5, BrokerAssumption DEF BrokerTypes, ReadersOK
  <1>7. WaitsOnce /\ Apart
    BY <1>1, <1>4 DEF WaitsOnce, Distinct, Apart
  <1>8. Numbers = {}
    BY <1>1 DEF Numbers
  <1>9. QED BY <1>1, <1>6, <1>7, <1>8 DEF OnceInv

LEMMA OnceNextOK == OnceInv /\ BrokerNext => OnceInv'
  <1> SUFFICES ASSUME OnceInv, BrokerNext PROVE OnceInv'
    OBVIOUS
  <1>1. ASSUME NEW m \in Msgs,
               BrokerPublish(m) \/ BrokerAck(m) \/ BrokerAckFails(m) \/ Redelivers(m)
        PROVE  OnceInv'
    BY <1>1, OncePublish, OnceAck, OnceAckFails, OnceRedelivers
  <1>2. ASSUME NEW r \in Readers, ReaderStep(r)
        PROVE  OnceInv'
    BY <1>2, OnceNats, OnceNatsEnds, OnceRead, OnceRedisEnds, OnceTxSend DEF ReaderStep
  <1>3. ASSUME NEW r \in Readers,
               \/ BrokerSubscribe(r) \/ NatsStreamEnds(r) \/ XReadGroupFails(r)
               \/ Receive(r) \/ DropReceiver(r)
        PROVE  OnceInv'
    BY <1>3, OnceSubscribe, OnceStreamEnds, OnceReadFails, OnceReceive, OnceDrop
  <1>4. QED BY <1>1, <1>2, <1>3, OnceDisappears, OnceCrash DEF BrokerNext

LEMMA OnceStutters == OnceInv /\ UNCHANGED brokerVars => OnceInv'
  <1> SUFFICES ASSUME OnceInv, UNCHANGED brokerVars PROVE OnceInv'
    OBVIOUS
  <1>1. reader' = reader /\ held' = held /\ acked' = acked
        /\ UNCHANGED <<published, queue, pending, got, again>>
    BY DEF brokerVars
  <1>2. ReadersOK' /\ \A q \in Readers : Part(Flow(q)', Flow(q))
    BY <1>1, OnceParts, ReadersStay
  <1>3. QED BY <1>1, <1>2, QuietReaders

LEMMA OnceToOne == OnceInv => ToExactlyOne
  <1> SUFFICES ASSUME OnceInv, NEW m \in Msgs
               PROVE  (got[m] > 1 => m \in again) /\ (m \in acked => got[m] > 0)
    BY DEF ToExactlyOne
  <1>1. m \in acked => got[m] > 0
    BY DEF OnceInv
  <1>2. got[m] \in 0 .. 2
    BY DEF OnceInv, BrokerTypes
  <1>3. m \notin again => got[m] =< 1
    <2>1. CASE m \in Numbers
      BY <2>1 DEF OnceInv, FirstTime
    <2>2. CASE m \notin Numbers
      BY <2>2 DEF OnceInv
    <2>3. QED BY <2>1, <2>2
  <1>4. QED BY <1>1, <1>2, <1>3

BusInv == MemInv /\ OnceInv

(* With every backend: a message reaches a second consumer only when the     *)
(* broker delivered it again (NatsBus, RedisStreamBus), an acknowledged one  *)
(* was received, and the subscribers of a topic of InMemoryBus are served in *)
(* turn, whatever publishes failed or were abandoned in between.             *)
THEOREM MessagesDistributed == BusSpec => []Distributed
  <1>1. BrokerInit => BusInv
    BY MemInitOK, OnceInitOK DEF BrokerInit, BusInv
  <1>2. BusInv /\ [BusNext]_busVars => BusInv'
    <2> SUFFICES ASSUME BusInv, [BusNext]_busVars PROVE BusInv'
      OBVIOUS
    <2>1. CASE Next /\ UNCHANGED brokerVars
      BY <2>1, MemNextOK, OnceStutters DEF BusInv
    <2>2. CASE BrokerNext /\ UNCHANGED vars
      BY <2>2, MemNextOK, OnceNextOK DEF BusInv
    <2>3. CASE UNCHANGED busVars
      <3>1. UNCHANGED vars /\ UNCHANGED brokerVars
        BY <2>3 DEF busVars
      <3>2. QED BY <3>1, MemNextOK, OnceStutters DEF BusInv
    <2>4. QED BY <2>1, <2>2, <2>3 DEF BusNext
  <1>3. BusInv => Distributed
    BY MemBalanced, OnceToOne DEF BusInv, Distributed
  <1>4. QED BY <1>1, <1>2, <1>3, PTL DEF BusSpec

-----------------------------------------------------------------------------
(* The queries *)

(* A set of naturals has a least one: what an induction over the levels has   *)
(* for its step that fails first.                                             *)
LEMMA LeastOne ==
  ASSUME NEW T, T \subseteq Nat, T # {}
  PROVE  \E x \in T : \A y \in T : x =< y
  <1> DEFINE R == {e \in Nat \X Nat : e[1] < e[2]}
  <1>1. IsWellFoundedOn(R, Nat)
    BY NatLessThanWellFounded DEF OpToRel, IsWellFoundedOn
  <1>2. PICK x \in T : \A y \in T : ~ (<<y, x>> \in R)
    BY <1>1, WFMin
  <1>3. ASSUME NEW y \in T
        PROVE  x =< y
    <2>1. x \in Nat /\ y \in Nat
      OBVIOUS
    <2>2. ~ (y < x)
      BY <2>1, <1>2
    <2>3. QED BY <2>1, <2>2
  <1>4. QED BY <1>3

LEMMA LevelFacts ==
  /\ Len(Levels) \in Nat /\ UpTo(0) = {}
  /\ \A n \in Nat : \A s : s \in UpTo(n + 1) => s \in UpTo(n) \/ s \in Levels[n + 1]
  /\ \A n, m \in Nat : n =< m => UpTo(n) \subseteq UpTo(m)
  <1>1. 1 .. 0 = {} /\ Len(Levels) \in Nat
    BY LevelsAssumption
  <1>2. \A n \in Nat : \A i \in 1 .. (n + 1) : i \in 1 .. n \/ i = n + 1
    OBVIOUS
  <1>3. \A n, m \in Nat : n =< m => \A i \in 1 .. n : i \in 1 .. m
    OBVIOUS
  <1>4. \A n \in Nat : \A s : s \in UpTo(n + 1) => s \in UpTo(n) \/ s \in Levels[n + 1]
    BY <1>2 DEF UpTo
  <1>5. \A n, m \in Nat : n =< m => UpTo(n) \subseteq UpTo(m)
    BY <1>3 DEF UpTo
  <1>6. QED BY <1>1, <1>4, <1>5 DEF UpTo

(* The sides of a specification are of the levels below it. *)
LEMMA Sides ==
  ASSUME NEW n \in Nat, n + 1 =< Len(Levels), NEW s \in UpTo(n + 1)
  PROVE  IF Combined(s) THEN s[2] \in UpTo(n) /\ s[3] \in UpTo(n) ELSE s[2] \in Seq(STRING)
  <1>1. PICK i \in 1 .. (n + 1) : s \in Levels[i]
    BY DEF UpTo
  <1>2. i \in 1 .. Len(Levels)
    BY LevelFacts
  <1>3. IF Combined(s) THEN s[2] \in UpTo(i - 1) /\ s[3] \in UpTo(i - 1)
                       ELSE s[2] \in Seq(STRING)
    BY <1>1, <1>2, LevelsAssumption
  <1>4. i - 1 \in Nat /\ i - 1 =< n
    OBVIOUS
  <1>5. UpTo(i - 1) \subseteq UpTo(n)
    BY <1>4, LevelFacts
  <1>6. QED BY <1>3, <1>5

(* A specification asks its sides and nothing else. *)
LEMMA RenderAsks ==
  ASSUME NEW s, NEW f, NEW g, Combined(s) => f[s[2]] = g[s[2]] /\ f[s[3]] = g[s[3]]
  PROVE  Render(s, f) = Render(s, g)
  <1>1. CASE Combined(s)
    BY <1>1 DEF Render
  <1>2. CASE ~ Combined(s)
    BY <1>2 DEF Render
  <1>3. QED BY <1>1, <1>2

(* to_where_clause of the specifications of the first n levels. *)
RendersTo(n, f) == f = [s \in UpTo(n) |-> Render(s, f)]

LEMMA RenderingStep ==
  ASSUME NEW n \in Nat, n + 1 =< Len(Levels), NEW f, RendersTo(n, f)
  PROVE  \E g : RendersTo(n + 1, g)
  <1> DEFINE g == [s \in UpTo(n + 1) |-> Render(s, f)]
  <1>1. UpTo(n) \subseteq UpTo(n + 1)
    BY LevelFacts
  <1>2. \A s \in UpTo(n) : g[s] = f[s]
    <2>1. \A s \in UpTo(n) : g[s] = Render(s, f)
      BY <1>1
    <2>2. \A s \in UpTo(n) : f[s] = Render(s, f)
      BY DEF RendersTo
    <2>3. QED BY <2>1, <2>2
  <1>3. \A s \in UpTo(n + 1) : g[s] = Render(s, f)
    OBVIOUS
  <1>4. g = [s \in UpTo(n + 1) |-> g[s]]
    OBVIOUS
  <1> HIDE DEF g
  <1>5. \A s \in UpTo(n + 1) : Render(s, f) = Render(s, g)
    BY <1>2, Sides, RenderAsks
  <1>6. \A s \in UpTo(n + 1) : g[s] = Render(s, g)
    BY <1>3, <1>5
  <1>7. [s \in UpTo(n + 1) |-> g[s]] = [s \in UpTo(n + 1) |-> Render(s, g)]
    BY <1>6
  <1>8. g = [s \in UpTo(n + 1) |-> Render(s, g)]
    BY <1>4, <1>7
  <1>9. QED BY <1>8 DEF RendersTo

(* The functions of the code exist: the recursion of to_where_clause ends. *)
LEMMA RenderingExists == \E f : RendersTo(Len(Levels), f)
  <1> DEFINE Bad == {n \in 0 .. Len(Levels) : ~ \E f : RendersTo(n, f)}
  <1>1. SUFFICES Bad = {}
    BY LevelFacts
  <1>2. SUFFICES ASSUME Bad # {} PROVE FALSE
    OBVIOUS
  <1>3. Bad \subseteq Nat
    OBVIOUS
  <1>4. PICK n \in Bad : \A m \in Bad : n =< m
    BY <1>2, <1>3, LeastOne
  <1>5. n # 0
    <2>1. RendersTo(0, [s \in {} |-> 0])
      <3>1. [s \in {} |-> 0] = [s \in {} |-> Render(s, [q \in {} |-> 0])]
        OBVIOUS
      <3>2. QED BY <3>1, LevelFacts DEF RendersTo
    <2>2. QED BY <2>1
  <1>6. /\ n - 1 \in Nat /\ n - 1 \in 0 .. Len(Levels) /\ ~ (n =< n - 1)
        /\ (n - 1) + 1 = n /\ n =< Len(Levels)
    BY <1>5, LevelFacts
  <1>7. PICK f : RendersTo(n - 1, f)
    BY <1>4, <1>6
  <1>8. \E g : RendersTo((n - 1) + 1, g)
    BY <1>6, <1>7, RenderingStep
  <1>9. QED BY <1>6, <1>8

(* What a rendered clause is like: its conditions are numbered from the offset *)
(* in the order of the text, each with the parameter at its place.            *)
Numbered(w, o) ==
  /\ w.params \in Seq(STRING) /\ w.clause \in Seq(Nat \X STRING)
  /\ Len(w.clause) = Len(w.params)
  /\ \A i \in 1 .. Len(w.params) : w.clause[i] = <<o + i - 1, w.params[i]>>

Leaf(vs, o) == [clause |-> [i \in DOMAIN vs |-> <<o + i - 1, vs[i]>>], params |-> vs]

LEMMA LeafNumbered ==
  ASSUME NEW vs \in Seq(STRING), NEW o \in Nat, o # 0
  PROVE  Numbered(Leaf(vs, o), o)
  <1> DEFINE c == [i \in DOMAIN vs |-> <<o + i - 1, vs[i]>>]
  <1>1. Len(vs) \in Nat /\ DOMAIN vs = 1 .. Len(vs)
    BY LenProperties
  <1>2. \A i \in 1 .. Len(vs) : o + i - 1 \in Nat /\ vs[i] \in STRING
    BY <1>1
  <1>3. c \in [1 .. Len(vs) -> Nat \X STRING]
    BY <1>1, <1>2
  <1>4. c \in Seq(Nat \X STRING) /\ Len(c) = Len(vs)
    BY <1>1, <1>3
  <1>5. \A i \in 1 .. Len(vs) : c[i] = <<o + i - 1, vs[i]>>
    BY <1>1
  <1> HIDE DEF c
  <1>6. Numbered([clause |-> c, params |-> vs], o)
    BY <1>4, <1>5 DEF Numbered
  <1>7. Leaf(vs, o) = [clause |-> c, params |-> vs]
    BY DEF Leaf, c
  <1>8. QED BY <1>6, <1>7

LEMMA JoinNumbered ==
  ASSUME NEW o \in Nat, o # 0, NEW l, NEW r, Numbered(l, o), Numbered(r, o + Len(l.params))
  PROVE  Numbered([clause |-> l.clause \o r.clause, params |-> l.params \o r.params], o)
  <1>1. PICK lc, lp, rc, rp : lc = l.clause /\ lp = l.params /\ rc = r.clause /\ rp = r.params
    OBVIOUS
  <1>2. /\ lp \in Seq(STRING) /\ lc \in Seq(Nat \X STRING) /\ Len(lc) = Len(lp)
        /\ \A i \in 1 .. Len(lp) : lc[i] = <<o + i - 1, lp[i]>>
    BY <1>1 DEF Numbered
  <1>3. /\ rp \in Seq(STRING) /\ rc \in Seq(Nat \X STRING) /\ Len(rc) = Len(rp)
        /\ \A i \in 1 .. Len(rp) : rc[i] = <<(o + Len(lp)) + i - 1, rp[i]>>
    BY <1>1 DEF Numbered
  <1>4. Len(lp) \in Nat /\ Len(rp) \in Nat
    BY <1>2, <1>3, LenProperties
  <1>5. /\ lp \o rp \in Seq(STRING) /\ lc \o rc \in Seq(Nat \X STRING)
        /\ Len(lp \o rp) = Len(lp) + Len(rp) /\ Len(lc \o rc) = Len(lp) + Len(rp)
        /\ \A i \in 1 .. (Len(lp) + Len(rp)) :
             /\ (lp \o rp)[i] = IF i =< Len(lp) THEN lp[i] ELSE rp[i - Len(lp)]
             /\ (lc \o rc)[i] = IF i =< Len(lp) THEN lc[i] ELSE rc[i - Len(lp)]
    <2>1. /\ lp \o rp \in Seq(STRING) /\ Len(lp \o rp) = Len(lp) + Len(rp)
          /\ \A i \in 1 .. Len(lp) + Len(rp) :
               (lp \o rp)[i] = IF i =< Len(lp) THEN lp[i] ELSE rp[i - Len(lp)]
      BY <1>2, <1>3, ConcatProperties
    <2>2. /\ lc \o rc \in Seq(Nat \X STRING) /\ Len(lc \o rc) = Len(lc) + Len(rc)
          /\ \A i \in 1 .. Len(lc) + Len(rc) :
               (lc \o rc)[i] = IF i =< Len(lc) THEN lc[i] ELSE rc[i - Len(lc)]
      <3>1. PICK S : S = Nat \X STRING
        OBVIOUS
      <3>2. lc \in Seq(S) /\ rc \in Seq(S)
        BY <1>2, <1>3, <3>1
      <3>3. lc \o rc \in Seq(S)
        BY <3>2, ConcatProperties
      <3>4. QED BY <3>1, <3>2, <3>3, ConcatProperties
    <2>3. QED BY <1>2, <1>3, <2>1, <2>2
  <1>6. ASSUME NEW i \in 1 .. (Len(lp) + Len(rp))
        PROVE  (lc \o rc)[i] = <<o + i - 1, (lp \o rp)[i]>>
    <2>1. CASE i =< Len(lp)
      <3>1. i \in 1 .. Len(lp)
        BY <1>4, <2>1
      <3>2. QED BY <1>2, <1>5, <2>1, <3>1
    <2>2. CASE ~ (i =< Len(lp))
      <3>1. /\ i - Len(lp) \in 1 .. Len(rp)
            /\ (o + Len(lp)) + (i - Len(lp)) - 1 = o + i - 1
        BY <1>4, <2>2
      <3>2. rc[i - Len(lp)] = <<o + i - 1, rp[i - Len(lp)]>>
        BY <1>3, <3>1
      <3>3. QED BY <1>5, <2>2, <3>2
    <2>3. QED BY <2>1, <2>2
  <1>7. PICK c, p : c = lc \o rc /\ p = lp \o rp
    OBVIOUS
  <1>8. Numbered([clause |-> c, params |-> p], o)
    BY <1>5, <1>6, <1>7 DEF Numbered
  <1>9. QED BY <1>1, <1>7, <1>8

(* However deep the combinators nest, what a level renders is numbered. *)
LEMMA LevelNumbered ==
  ASSUME NEW n \in Nat, n + 1 =< Len(Levels), NEW f, RendersTo(Len(Levels), f),
         \A s \in UpTo(n), o \in Nat \ {0} : Numbered(f[s][o], o),
         NEW s \in UpTo(n + 1), NEW o \in Nat \ {0}
  PROVE  Numbered(f[s][o], o)
  <1>1. UpTo(n + 1) \subseteq UpTo(Len(Levels))
    BY LevelFacts
  <1>2. f[s] = Render(s, f)
    BY <1>1 DEF RendersTo
  <1>3. CASE Combined(s)
    <2> DEFINE l == f[s[2]][o]
               r == f[s[3]][o + Len(l.params)]
    <2>1. s[2] \in UpTo(n) /\ s[3] \in UpTo(n)
      BY <1>3, Sides
    <2>2. f[s][o] = [clause |-> l.clause \o r.clause, params |-> l.params \o r.params]
      BY <1>2, <1>3 DEF Render, RightOffset
    <2>3. Numbered(l, o)
      BY <2>1
    <2>4. o + Len(l.params) \in Nat \ {0}
      <3> HIDE DEF l
      <3>1. Len(l.params) \in Nat
        BY <2>3, LenProperties DEF Numbered
      <3>2. QED BY <3>1
    <2>5. Numbered(r, o + Len(l.params))
      <3>1. PICK e : e = o + Len(l.params) /\ e \in Nat \ {0}
        BY <2>4
      <3>2. Numbered(f[s[3]][e], e)
        BY <2>1, <3>1
      <3>3. QED BY <3>1, <3>2
    <2> HIDE DEF l, r
    <2>6. PICK v, w : v = l /\ w = r
      OBVIOUS
    <2>7. Numbered(v, o) /\ Numbered(w, o + Len(v.params))
      BY <2>3, <2>5, <2>6
    <2>8. Numbered([clause |-> v.clause \o w.clause, params |-> v.params \o w.params], o)
      BY <2>7, JoinNumbered
    <2>9. f[s][o] = [clause |-> v.clause \o w.clause, params |-> v.params \o w.params]
      BY <2>2, <2>6
    <2>10. QED BY <2>8, <2>9
  <1>4. CASE ~ Combined(s)
    <2>1. s[2] \in Seq(STRING)
      BY <1>4, Sides
    <2>2. f[s][o] = Leaf(s[2], o)
      BY <1>2, <1>4 DEF Render, Leaf
    <2>3. PICK vs : vs = s[2]
      OBVIOUS
    <2>4. Numbered(Leaf(vs, o), o)
      BY <2>1, <2>3, LeafNumbered
    <2>5. f[s][o] = Leaf(vs, o)
      BY <2>2, <2>3
    <2>6. QED BY <2>4, <2>5
  <1>5. QED BY <1>3, <1>4

(* "The clause should use $N placeholders starting at $offset." *)
LEMMA ClausesNumbered ==
  ASSUME NEW spec \in Specs
  PROVE  Numbered(ToWhereClause(spec, 1), 1)
  <1> DEFINE f == CHOOSE g : RendersTo(Len(Levels), g)
             Bad == {n \in 0 .. Len(Levels) :
                       ~ \A s \in UpTo(n), o \in Nat \ {0} : Numbered(f[s][o], o)}
  <1>1. RendersTo(Len(Levels), f)
    BY RenderingExists
  <1>2. ToWhereClause(spec, 1) = f[spec][1]
    BY DEF ToWhereClause, RendersTo, Specs
  <1> HIDE DEF f
  <1>3. Bad = {}
    <2>1. SUFFICES ASSUME Bad # {} PROVE FALSE
      OBVIOUS
    <2>2. Bad \subseteq Nat
      OBVIOUS
    <2>3. PICK n \in Bad : \A m \in Bad : n =< m
      BY <2>1, <2>2, LeastOne
    <2>4. n # 0
      BY LevelFacts
    <2>5. /\ n - 1 \in Nat /\ n - 1 \in 0 .. Len(Levels) /\ ~ (n =< n - 1)
          /\ (n - 1) + 1 = n /\ n =< Len(Levels)
      BY <2>4, LevelFacts
    <2>6. \A s \in UpTo(n - 1), o \in Nat \ {0} : Numbered(f[s][o], o)
      BY <2>3, <2>5
    <2>7. \A s \in UpTo((n - 1) + 1), o \in Nat \ {0} : Numbered(f[s][o], o)
      BY <1>1, <2>5, <2>6, LevelNumbered
    <2>8. QED BY <2>5, <2>7
  <1>4. \A s \in UpTo(Len(Levels)), o \in Nat \ {0} : Numbered(f[s][o], o)
    BY <1>3, LevelFacts
  <1>5. QED BY <1>2, <1>4 DEF Specs

(* The query kept for the request not yet audited was rendered from offset 1. *)
SqlInv == sql # Missing => Numbered(sql.query, 1)

LEMMA SqlPreserved == SqlInv /\ [HttpNext]_httpVars => SqlInv'
  <1> SUFFICES ASSUME SqlInv, [HttpNext]_httpVars
               PROVE  SqlInv'
    OBVIOUS
  <1>1. ASSUME NEW r \in Reqs, QueriesBy(r)
        PROVE  SqlInv'
    <2>1. PICK spec \in Specs : sql' = [spec |-> spec, query |-> ToWhereClause(spec, 1)]
      BY <1>1 DEF QueriesBy
    <2>2. sql'.query = ToWhereClause(spec, 1)
      BY <2>1
    <2>3. Numbered(sql'.query, 1)
      BY <2>2, ClausesNumbered
    <2>4. QED BY <2>3 DEF SqlInv
  <1>2. CASE sql' = sql \/ sql' = Missing
    BY <1>2 DEF SqlInv
  <1>3. ASSUME NEW r \in Reqs, RequestStep(r), ~ QueriesBy(r)
        PROVE  sql' = sql \/ sql' = Missing
    BY <1>3 DEF RequestStep, Arrives, LimitAllows, LimitRefuses, AuthPasses, AuthRefuses,
         HandlerEnds, Answers, TimesOut, ClientLeaves, Audits, Preflight
  <1>4. CASE WorkStep \/ UNCHANGED httpVars
    BY <1>4 DEF WorkStep, httpVars, pipelineVars, SqlInv
  <1>5. QED BY <1>1, <1>2, <1>3, <1>4 DEF HttpNext

(* However the combinators of a query nest, every condition is compared with  *)
(* its own values and every parameter has one placeholder.                    *)
THEOREM PlaceholdersCorrect == HttpSpec => []PlaceholdersMatch
  <1>1. HttpInit => SqlInv
    BY DEF HttpInit, PipelineInit, SqlInv
  <1>2. SqlInv => PlaceholdersMatch
    <2> SUFFICES ASSUME SqlInv, sql # Missing
                 PROVE  /\ Bound(sql.query)
                             = [i \in DOMAIN sql.query.clause |-> sql.query.clause[i][2]]
                        /\ Len(sql.query.params) = Len(sql.query.clause)
      BY DEF PlaceholdersMatch
    <2>1. PICK c, p : c = sql.query.clause /\ p = sql.query.params
      OBVIOUS
    <2>2. /\ p \in Seq(STRING) /\ c \in Seq(Nat \X STRING) /\ Len(c) = Len(p)
          /\ \A i \in 1 .. Len(p) : c[i] = <<1 + i - 1, p[i]>>
      BY <2>1 DEF SqlInv, Numbered
    <2>3. DOMAIN c = 1 .. Len(p)
      BY <2>2, LenProperties
    <2>4. \A i \in 1 .. Len(p) : c[i][1] = i /\ c[i][2] = p[i]
      <3> SUFFICES ASSUME NEW i \in 1 .. Len(p)
                   PROVE  c[i][1] = i /\ c[i][2] = p[i]
        OBVIOUS
      <3>1. 1 + i - 1 = i
        OBVIOUS
      <3>2. QED BY <2>2, <3>1
    <2>5. [i \in DOMAIN c |-> p[c[i][1]]] = [i \in DOMAIN c |-> c[i][2]]
      BY <2>3, <2>4
    <2>6. QED BY <2>1, <2>2, <2>5 DEF Bound
  <1>3. QED BY <1>1, <1>2, SqlPreserved, PTL DEF HttpSpec
=============================================================================
