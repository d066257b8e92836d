----------------------------- MODULE RedisLock -----------------------------
(***************************************************************************)
(* RedisLock of rinfra-plugins/src/lock/redis_lock.rs, the other backend   *)
(* of DistributedLock.  It keeps the clients' side of InMemoryLock (the    *)
(* handles, the acquire loop and what is promised of them); the map of     *)
(* entries is that of a Redis server.  lock.backend chooses between them.  *)
(*                                                                         *)
(* A call is a command, executed at once, and its answer, with steps of    *)
(* others and the passing of time between them.  A connection that breaks  *)
(* makes the call fail, before its command is executed or after.           *)
(***************************************************************************)
EXTENDS InMemoryLock

VARIABLES
  backend,  \* lock.backend
  answer    \* the answer on its way to each client; left is what is left of
            \*   the time to live, counted from the sending

lockVars == <<locks, handle, call, backend, answer>>

NoAnswer == [st |-> "none", key |-> AnyKey, token |-> NoToken, left |-> 0]

(* new and connect: a failed connect fails the build of the plugin. *)
RedisInit ==
  /\ Init
  /\ backend \in {"memory", "redis"}
  /\ answer = [c \in Clients |-> NoAnswer]

Fresh(t) == Unused(t) /\ \A c \in Clients : answer[c].token # t

Ready(c) == answer[c].st = "none" /\ call[c].at = "idle"

Answers(c, st, k, t, secs) ==
  answer' = [answer EXCEPT ![c] = [st |-> st, key |-> k, token |-> t, left |-> secs]]

-----------------------------------------------------------------------------
(* SET NX PX, RELEASE_SCRIPT and EXTEND_SCRIPT are atomic in the server.     *)

NoExpiry == -1

(* Defect: SETNX, the expiry to be set by a second command. *)
SetNx(k, t, secs) == locks' = [locks EXCEPT ![k] = [token |-> t, left |-> NoExpiry]]

Set(k, t, secs) == locks' = [locks EXCEPT ![k] = [token |-> t, left |-> secs]]

(* PX 0 is refused as an invalid expire time: the call fails. *)
SetNxPx(c, k, secs) ==
  LET t == CHOOSE u \in Tokens : Fresh(u)
  IN  /\ secs > 0
      /\ \/ /\ Free(k) /\ Fresh(t)
            /\ Set(k, t, secs)
            /\ Answers(c, "granted", k, t, secs)
         \/ /\ ~ Free(k)
            /\ Answers(c, "refused", k, NoToken, 0)
            /\ UNCHANGED locks

(* GET returns the token of the handle; an expired key is gone. *)
Stored(h) == locks[h.key].token = h.token /\ locks[h.key].left # 0

-----------------------------------------------------------------------------
(* The calls *)

RedisTryAcquire(c) ==
  /\ Ready(c)
  /\ \E k \in Keys, secs \in Ttls : SetNxPx(c, k, secs)
  /\ UNCHANGED <<handle, call>>

RedisAcquireBegin(c) == Ready(c) /\ AcquireBegin(c) /\ UNCHANGED answer

RedisAcquireTries(c) ==
  /\ call[c].at = "trying" /\ answer[c].st = "none"
  /\ SetNxPx(c, call[c].key, call[c].ttl)
  /\ UNCHANGED <<handle, call>>

(* acquire ends with the lock or with an error. *)
Ended(c) == call' = [call EXCEPT ![c] = NoCall]

(* The command was not executed. *)
RedisAcquireFails(c) ==
  /\ call[c].at = "trying" /\ answer[c].st = "none"
  /\ Ended(c)
  /\ UNCHANGED <<locks, handle, answer>>

(* sleep(poll_interval) *)
RedisAcquirePolls(c) ==
  /\ call[c].at = "refused" /\ call[c].left > 0
  /\ call' = [call EXCEPT ![c].at = "trying"]
  /\ UNCHANGED <<locks, handle, answer>>

RedisAcquireTimedOut(c) == AcquireTimedOut(c) /\ UNCHANGED answer

(* Whoever releases no longer acts as the holder, whatever the answer. *)
RedisRelease(c) ==
  /\ Ready(c) /\ handle[c].token # NoToken
  /\ IF Stored(handle[c]) THEN locks' = [locks EXCEPT ![handle[c].key] = NoEntry]
                          ELSE UNCHANGED locks
  /\ handle' = [handle EXCEPT ![c].lease = 0]
  /\ UNCHANGED <<call, answer>>

(* Whoever extends counts on the shorter of its leases until the answer. *)
RedisExtend(c) ==
  /\ Ready(c) /\ handle[c].token # NoToken
  /\ \E secs \in Ttls :
       /\ \/ /\ Stored(handle[c])
             /\ locks' = [locks EXCEPT ![handle[c].key].left = secs]
             /\ Answers(c, "extended", handle[c].key, handle[c].token, secs)
          \/ /\ ~ Stored(handle[c])
             /\ Answers(c, "lost", handle[c].key, handle[c].token, 0)
             /\ UNCHANGED locks
       /\ handle' = [handle EXCEPT ![c].lease = IF secs < @ THEN secs ELSE @]
  /\ UNCHANGED call

(* release or extend fails before its command is executed: its client, who    *)
(* cannot tell, counts on no more than after the command.                     *)
RedisCallFails(c) ==
  /\ Ready(c) /\ handle[c].token # NoToken
  /\ \E secs \in Ttls :
       handle' = [handle EXCEPT ![c].lease = IF secs < @ THEN secs ELSE @]
  /\ UNCHANGED <<locks, call, answer>>

-----------------------------------------------------------------------------
(* The answers *)

(* The lease is what the handle's owner may count on: from the sending.     *)
Granted(c) ==
  /\ answer[c].st = "granted"
  /\ handle' = [handle EXCEPT ![c] = [key |-> answer[c].key, token |-> answer[c].token,
                                      lease |-> answer[c].left]]
  /\ Ended(c)

Refused(c) ==
  /\ answer[c].st = "refused"
  /\ call' = [call EXCEPT ![c].at = IF @ = "trying" THEN "refused" ELSE @]
  /\ UNCHANGED handle

Extended(c) ==
  /\ answer[c].st \in {"extended", "lost"}
  /\ handle' = [handle EXCEPT ![c].lease = answer[c].left]
  /\ UNCHANGED call

Answered(c) ==
  /\ Granted(c) \/ Refused(c) \/ Extended(c)
  /\ answer' = [answer EXCEPT ![c] = NoAnswer]
  /\ UNCHANGED locks

(* Err, out of acquire too; what the command did stays done. *)
AnswerLost(c) ==
  /\ answer[c].st # "none"
  /\ answer' = [answer EXCEPT ![c] = NoAnswer]
  /\ Ended(c)
  /\ UNCHANGED <<locks, handle>>

-----------------------------------------------------------------------------

Aged(n) == IF n = NoExpiry THEN n ELSE Less(n)

RedisTick ==
  /\ locks' = [k \in Keys |-> [locks[k] EXCEPT !.left = Aged(@)]]
  /\ handle' = [c \in Clients |-> [handle[c] EXCEPT !.lease = Less(@)]]
  /\ call' = [c \in Clients |-> [call[c] EXCEPT !.left = Less(@)]]
  /\ answer' = [c \in Clients |-> [answer[c] EXCEPT !.left = Less(@)]]

RedisStep(c) ==
  \/ RedisTryAcquire(c) \/ RedisAcquireBegin(c) \/ RedisAcquireTries(c)
  \/ RedisAcquireFails(c) \/ RedisAcquirePolls(c) \/ RedisAcquireTimedOut(c)
  \/ RedisRelease(c) \/ RedisExtend(c) \/ RedisCallFails(c)
  \/ Answered(c) \/ AnswerLost(c)

RedisNext == (\E c \in Clients : RedisStep(c)) \/ RedisTick

LockNext ==
  /\ \/ backend = "memory" /\ Next /\ UNCHANGED answer
     \/ backend = "redis" /\ RedisNext
  /\ UNCHANGED backend

LockSpec == RedisInit /\ [][LockNext]_lockVars

(* Fairness of InMemoryLock, and for Redis: a command is answered or fails.  *)
AcquireProceeds(c) ==
  \/ /\ backend = "memory"
     /\ \/ AcquireGranted(c) \/ AcquireRefused(c) \/ AcquireTimedOut(c)
        \/ AcquireWait(c) \/ WakeAtDeadline(c)
     /\ UNCHANGED <<backend, answer>>
  \/ /\ backend = "redis"
     /\ \/ RedisAcquireTries(c) \/ RedisAcquireFails(c) \/ RedisAcquirePolls(c)
        \/ RedisAcquireTimedOut(c) \/ Answered(c) \/ AnswerLost(c)
     /\ UNCHANGED backend

TimePasses ==
  /\ \/ backend = "memory" /\ Tick /\ UNCHANGED answer
     \/ backend = "redis" /\ RedisTick
  /\ UNCHANGED backend

LockFairSpec ==
  /\ LockSpec
  /\ WF_lockVars(TimePasses)
  /\ \A c \in Clients : WF_lockVars(AcquireProceeds(c))

-----------------------------------------------------------------------------
(* Properties, besides those of InMemoryLock *)

Orphaned(k) ==
  /\ ~ Free(k)
  /\ \A c \in Clients : locks[k].token \notin {handle[c].token, answer[c].token}

(* An entry that nobody has a handle of - its SET took effect and the answer *)
(* was lost, or its handle was replaced - blocks the key only until it       *)
(* expires.                                                                  *)
OrphanExpires == \A k \in Keys : Orphaned(k) ~> ~ Orphaned(k)
=============================================================================
