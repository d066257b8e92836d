------------------------------ MODULE StorePool ------------------------------
(***************************************************************************)
(* A store (rinfra-plugins/src/store: PostgreSQL, MySQL, SQLite share one  *)
(* design): the pool behind an RwLock, executors and transactions, the     *)
(* health check and disconnect.  disconnect keeps the write guard while    *)
(* pool.close waits for the connections, so a task that holds one and asks *)
(* for the pool again waits for disconnect, which waits for that task.     *)
(***************************************************************************)
EXTENDS Integers, FiniteSets

CONSTANTS
  Txs,        \* the tasks that run a transaction of two statements
  MaxConns,   \* max_connections
  MaxRefused  \* bound: statements and commits the database refuses

ASSUME StoreAssumption == MaxConns \in Nat \ {0} /\ MaxRefused \in Nat

VARIABLES
  backend,  \* which store it is
  pool,     \* "open", "closing" (disconnect waits), "closed"
  guard,    \* of pool's RwLock: "free", "health" (read), "behind" (a writer waits for
            \*   that reader), "wanted", "held" (write)
  conns,    \* the connections of each task
  tx,       \* where each task is
  stmts,    \* the statements its transaction has executed
  db,       \* what is committed: <<task, statement>>
  refused

storeVars == <<backend, pool, guard, conns, tx, stmts, db, refused>>

PostgresStore == [name |-> "postgres", migrates |-> TRUE, dollars |-> TRUE, returning |-> TRUE]
MysqlStore == [name |-> "mysql", migrates |-> FALSE, dollars |-> FALSE, returning |-> FALSE]
SqliteStore == [name |-> "sqlite", migrates |-> FALSE, dollars |-> TRUE, returning |-> TRUE]
Backends == {PostgresStore, MysqlStore, SqliteStore}

Health == "health"
Holders == Txs \cup {Health}
Held == LET F[S \in SUBSET Holders] ==
              IF S = {} THEN 0 ELSE LET x == CHOOSE x \in S : TRUE IN conns[x] + F[S \ {x}]
        IN F[Holders]
FreeConns == MaxConns - Held

StoreInit ==
  /\ backend \in Backends
  /\ pool = "open" /\ guard = "free"
  /\ conns = [h \in Holders |-> 0]
  /\ tx = [t \in Txs |-> "none"]
  /\ stmts = [t \in Txs |-> {}]
  /\ db = {} /\ refused = 0

-----------------------------------------------------------------------------
(* The tasks: DbConnection::begin, PgTransaction, PgExecutor *)

(* The RwLock is fair: who reads after a writer asked waits behind it. *)
CanRead == guard \in {"free", "health"}

(* begin and executor ask pool() first: an error when it is taken. *)
AsksPool(t, from, to) ==
  /\ tx[t] = from /\ CanRead
  /\ tx' = [tx EXCEPT ![t] = IF pool = "open" THEN to ELSE "failed"]
  /\ UNCHANGED <<backend, pool, guard, conns, stmts, db, refused>>

Acquires(t, from, to) ==
  /\ tx[t] = from
  /\ \/ /\ pool = "open" /\ FreeConns > 0
        /\ conns' = [conns EXCEPT ![t] = @ + 1]
        /\ tx' = [tx EXCEPT ![t] = to]
     \/ /\ pool # "open"                    \* PoolClosed
        /\ tx' = [tx EXCEPT ![t] = "failed"]
        /\ UNCHANGED conns
  /\ UNCHANGED <<backend, pool, guard, stmts, db, refused>>

(* The pool's acquire timeout: PoolTimedOut. *)
AcquireTimesOut(t) ==
  /\ tx[t] \in {"begin", "query"}
  /\ tx' = [tx EXCEPT ![t] = "failed"]
  /\ UNCHANGED <<backend, pool, guard, conns, stmts, db, refused>>

(* DbConnection::begin of each store. *)
Begins(t) == AsksPool(t, "none", "begin") \/ Acquires(t, "begin", "open")
PgBegin(t) == backend = PostgresStore /\ Begins(t)
MysqlBegin(t) == backend = MysqlStore /\ Begins(t)
SqliteBegin(t) == backend = SqliteStore /\ Begins(t)
Begin(t) == PgBegin(t) \/ MysqlBegin(t) \/ SqliteBegin(t)

(* Defect: the statement runs on the pool, outside the transaction. *)
TxExecuteOnPool(t, s) ==
  /\ tx[t] = "open" /\ s \notin stmts[t]
  /\ stmts' = [stmts EXCEPT ![t] = @ \cup {s}]
  /\ db' = db \cup {<<t, s>>}
  /\ UNCHANGED <<backend, pool, guard, conns, tx, refused>>

TxExecute(t, s) ==
  /\ tx[t] = "open" /\ s \notin stmts[t]
  /\ stmts' = [stmts EXCEPT ![t] = @ \cup {s}]
  /\ UNCHANGED <<backend, pool, guard, conns, tx, db, refused>>

(* The database refuses a statement or the commit: the task gives up. *)
Refused(t) ==
  /\ tx[t] \in {"open", "commit"} /\ refused < MaxRefused
  /\ refused' = refused + 1
  /\ tx' = [tx EXCEPT ![t] = "failed"]
  /\ UNCHANGED <<backend, pool, guard, conns, stmts, db>>

(* A query through executor() while the transaction is open takes another    *)
(* connection for as long as it runs.                                        *)
SideQuery(t) ==
  \/ /\ stmts[t] = {1} /\ AsksPool(t, "open", "query")
  \/ Acquires(t, "query", "rows")
  \/ /\ tx[t] = "rows"
     /\ conns' = [conns EXCEPT ![t] = @ - 1]
     /\ tx' = [tx EXCEPT ![t] = "open"]
     /\ UNCHANGED <<backend, pool, guard, stmts, db, refused>>

(* commit takes the transaction; the database has committed before its       *)
(* answer arrives.                                                           *)
Commits(t) ==
  /\ tx[t] = "open" /\ stmts[t] = {1, 2}
  /\ tx' = [tx EXCEPT ![t] = "commit"]
  /\ UNCHANGED <<backend, pool, guard, conns, stmts, db, refused>>

CommitTakesEffect(t) ==
  /\ tx[t] = "commit"
  /\ db' = db \cup {<<t, s>> : s \in stmts[t]}
  /\ tx' = [tx EXCEPT ![t] = "committed"]
  /\ UNCHANGED <<backend, pool, guard, conns, stmts, refused>>

(* rollback by the task. *)
RollsBack(t) ==
  /\ tx[t] = "open"
  /\ tx' = [tx EXCEPT ![t] = "failed"]
  /\ UNCHANGED <<backend, pool, guard, conns, stmts, db, refused>>

(* The transaction ends or is dropped: what is not committed is rolled back  *)
(* and the connections go back.                                              *)
StoreDropped(t) ==
  /\ conns' = [conns EXCEPT ![t] = 0]
  /\ stmts' = [stmts EXCEPT ![t] = {}]
  /\ tx' = [tx EXCEPT ![t] = "none"]

(* The transactions and the executors of the three stores take the same      *)
(* steps through their own drivers.                                          *)
Transaction(t) ==
  \/ \E s \in {1, 2} : s - 1 \in {0} \cup stmts[t] /\ TxExecute(t, s)
  \/ Refused(t) \/ Commits(t) \/ CommitTakesEffect(t) \/ RollsBack(t)
PgTransaction(t) == backend = PostgresStore /\ Transaction(t)
MysqlTransaction(t) == backend = MysqlStore /\ Transaction(t)
SqliteTransaction(t) == backend = SqliteStore /\ Transaction(t)

PgExecutor(t) == backend = PostgresStore /\ SideQuery(t)
MysqlExecutor(t) == backend = MysqlStore /\ SideQuery(t)
SqliteExecutor(t) == backend = SqliteStore /\ SideQuery(t)

TxStep(t) ==
  \/ Begin(t) \/ AcquireTimesOut(t)
  \/ PgTransaction(t) \/ MysqlTransaction(t) \/ SqliteTransaction(t)
  \/ PgExecutor(t) \/ MysqlExecutor(t) \/ SqliteExecutor(t)

-----------------------------------------------------------------------------
(* health_check takes the read guard and keeps it while it waits for a        *)
(* connection and runs SELECT 1 on it.                                        *)

HealthBegins ==
  /\ guard = "free" /\ pool = "open"
  /\ guard' = "health"
  /\ UNCHANGED <<backend, pool, conns, tx, stmts, db, refused>>

HealthAcquires ==
  /\ guard \in {"health", "behind"} /\ conns[Health] = 0 /\ FreeConns > 0
  /\ conns' = [conns EXCEPT ![Health] = 1]
  /\ UNCHANGED <<backend, pool, guard, tx, stmts, db, refused>>

(* The answer to SELECT 1, or the pool's acquire timeout. *)
HealthEnds ==
  /\ guard \in {"health", "behind"}
  /\ conns' = [conns EXCEPT ![Health] = 0]
  /\ guard' = IF guard = "health" THEN "free" ELSE "wanted"
  /\ UNCHANGED <<backend, pool, tx, stmts, db, refused>>

(* disconnect: pool.write(), take(), close(). *)
DisconnectAsks ==
  /\ guard \in {"free", "health"} /\ pool = "open"
  /\ guard' = IF guard = "free" THEN "wanted" ELSE "behind"
  /\ UNCHANGED <<backend, pool, conns, tx, stmts, db, refused>>

DisconnectCloses ==
  /\ guard = "wanted"
  /\ guard' = "held" /\ pool' = "closing"
  /\ UNCHANGED <<backend, conns, tx, stmts, db, refused>>

DisconnectEnds ==
  /\ guard = "held" /\ FreeConns = MaxConns
  /\ guard' = "free" /\ pool' = "closed"
  /\ UNCHANGED <<backend, conns, tx, stmts, db, refused>>

StoreStep ==
  \/ HealthBegins \/ HealthAcquires \/ HealthEnds
  \/ DisconnectAsks \/ DisconnectCloses \/ DisconnectEnds

-----------------------------------------------------------------------------
(* Properties *)

(* "A database transaction that can be committed or rolled back": of the two *)
(* statements of a task both are in the database or none, wherever it was    *)
(* refused, timed out or dropped.                                            *)
AllOrNothing == \A t \in Txs : <<t, 1>> \in db <=> <<t, 2>> \in db

(* disconnect returns, although a task that holds a connection may wait for  *)
(* the guard that disconnect holds, because the timeout layer drops it; and   *)
(* although the reader before it, a health check, may wait for a connection.  *)
DisconnectReturns == guard \in {"behind", "wanted"} ~> pool = "closed"

(* Not kept by the code - "Works with any database backend implementing      *)
(* DbConnection": the SQL of GenericRepository uses $n and RETURNING.        *)
RepositoryWorks == backend.dollars /\ backend.returning
=============================================================================
