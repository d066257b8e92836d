--------------------------- MODULE MultilevelCache ---------------------------
(***************************************************************************)
(* The cache of two levels (rinfra-plugins/src/cache/multilevel.rs) over   *)
(* the one in memory (memory.rs) and Redis (redis_cache.rs), for one key.  *)
(* Every operation awaits each level in turn, so operations of several     *)
(* requests interleave between the levels, and one that fails or is        *)
(* dropped stops half way.                                                 *)
(***************************************************************************)
EXTENDS Integers

CONSTANTS
  Users,       \* the tasks that use the cache
  Ttl,         \* ttl_secs of the cache in memory
  MaxWrites,   \* bound: sets and deletes
  MaxFailures, \* bound: commands to Redis that fail
  Nothing

ASSUME CacheAssumption == Ttl \in Nat \ {0} /\ MaxWrites \in Nat /\ MaxFailures \in Nat

VARIABLES
  l1, l2,   \* the value in each level, or Nothing
  age,      \* seconds since the entry of l1 was inserted
  use,      \* where each operation is
  writes, failures

cacheVars == <<l1, l2, age, use, writes, failures>>

Unused == [pc |-> "none", value |-> Nothing]

CacheInit ==
  /\ l1 = Nothing /\ l2 = Nothing /\ age = 0
  /\ use = [u \in Users |-> Unused]
  /\ writes = 0 /\ failures = 0

(* moka insert: the entry lives for ttl_secs from here. *)
InsertL1(v) == l1' = v /\ age' = 0

(* Defect: time_to_idle - a hit makes the entry young again. *)
AgeAfterHitIdle == 0

(* time_to_live: a hit leaves the age of the entry alone. *)
AgeAfterHit == age

-----------------------------------------------------------------------------
(* get *)

GetHits(u) ==
  /\ use[u].pc = "none" /\ l1 # Nothing
  /\ age' = AgeAfterHit
  /\ use' = [use EXCEPT ![u].pc = "done"]
  /\ UNCHANGED <<l1, l2, writes, failures>>

GetMisses(u) ==
  /\ use[u].pc = "none" /\ l1 = Nothing
  /\ use' = [use EXCEPT ![u].pc = "get l2"]
  /\ UNCHANGED <<l1, l2, age, writes, failures>>

GetL2(u) ==
  /\ use[u].pc = "get l2"
  /\ use' = [use EXCEPT ![u] = IF l2 = Nothing THEN [Unused EXCEPT !.pc = "done"]
                                ELSE [pc |-> "fill", value |-> l2]]
  /\ UNCHANGED <<l1, l2, age, writes, failures>>

(* Backfill L1, with what l2 held when it was read. *)
Backfill(u) ==
  /\ use[u].pc = "fill"
  /\ InsertL1(use[u].value)
  /\ use' = [use EXCEPT ![u] = [Unused EXCEPT !.pc = "done"]]
  /\ UNCHANGED <<l2, writes, failures>>

-----------------------------------------------------------------------------
(* set, set_with_ttl and delete: l1, then l2 *)

(* delete invalidates: it writes Nothing. *)
WriteL1(u) ==
  /\ use[u].pc = "none" /\ writes < MaxWrites
  /\ \E v \in {Nothing, writes + 1} :
       /\ InsertL1(v)
       /\ use' = [use EXCEPT ![u] = [pc |-> "write l2", value |-> v]]
  /\ writes' = writes + 1
  /\ UNCHANGED <<l2, failures>>

WriteL2(u) ==
  /\ use[u].pc = "write l2"
  /\ l2' = use[u].value
  /\ use' = [use EXCEPT ![u] = [Unused EXCEPT !.pc = "done"]]
  /\ UNCHANGED <<l1, age, writes, failures>>

(* Redis is not connected or does not answer: the operation returns the      *)
(* error, and l1 stays as it is.                                             *)
L2Fails(u) ==
  /\ use[u].pc \in {"get l2", "write l2"} /\ failures < MaxFailures
  /\ failures' = failures + 1
  /\ use' = [use EXCEPT ![u] = [Unused EXCEPT !.pc = "failed"]]
  /\ UNCHANGED <<l1, l2, age, writes>>

-----------------------------------------------------------------------------
(* moka drops an entry that is ttl_secs old; Redis drops one set with a ttl. *)
CacheTick ==
  /\ l1 # Nothing
  /\ IF age + 1 < Ttl THEN age' = age + 1 /\ UNCHANGED l1
                      ELSE age' = 0 /\ l1' = Nothing
  /\ UNCHANGED <<l2, use, writes, failures>>

ExpireL2 ==
  /\ l2 # Nothing
  /\ l2' = Nothing
  /\ UNCHANGED <<l1, age, use, writes, failures>>

CacheStep(u) ==
  GetHits(u) \/ GetMisses(u) \/ GetL2(u) \/ Backfill(u)
    \/ WriteL1(u) \/ WriteL2(u) \/ L2Fails(u)

(* The operation has returned, or its future is dropped. *)
CacheDropped(u) == use' = [use EXCEPT ![u] = Unused]

(* A task of its own goes on to its next operation. *)
CacheReturns(u) ==
  /\ use[u].pc \in {"done", "failed"}
  /\ CacheDropped(u)
  /\ UNCHANGED <<l1, l2, age, writes, failures>>

-----------------------------------------------------------------------------
(* Properties *)

Stale == l1 # Nothing /\ l1 # l2

(* "On get: L1 hit -> return": a level that answers with a value the shared   *)
(* level does not hold - after a backfill that crossed a write, a write that *)
(* failed half way or was dropped - does not do so for ever, even when the   *)
(* key is read all the time.                                                 *)
StaleEnds == Stale ~> ~Stale

(* Not kept by the code - "On delete: remove from both L1 and L2": when no   *)
(* operation is under way, the levels agree on the key.                      *)
LevelsAgree ==
  (\A u \in Users : use[u].pc \notin {"get l2", "fill", "write l2"}) => ~Stale
=============================================================================
