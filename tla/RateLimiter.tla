----------------------------- MODULE RateLimiter -----------------------------
(***************************************************************************)
(* The two rate limiters, for one key: the token bucket of                 *)
(* rinfra-plugins/src/ratelimit/mod.rs, whose check runs under one mutex,  *)
(* and the fixed window of redis_limiter.rs, where the window is read from *)
(* the clock, INCR and EXPIRE are two commands, and either may fail.  Time *)
(* is counted in seconds; the bucket's tokens are whole ones.              *)
(***************************************************************************)
EXTENDS Integers, FiniteSetsExt

CONSTANTS
  Reqs,       \* the requests that are checked
  Burst,      \* burst_size
  Rate,       \* requests_per_second
  Window,     \* window_secs
  MaxClock,   \* bound: seconds
  MaxErrors   \* bound: commands to Redis that fail

ASSUME LimiterAssumption ==
  /\ Burst \in Nat /\ Rate \in Nat /\ Window \in Nat \ {0}
  /\ MaxClock \in Nat /\ MaxErrors \in Nat

VARIABLES
  clock,
  bucket,    \* TokenBucket: tokens, last_refill; and born, taken (history)
  counter,   \* Redis: per window the count and the second its key expires
  check,     \* where each check is: "none", "window", "expire",
             \*   "allowed", "refused"
  admitted,  \* history: checks the counter of a window allowed while it ran
  errors

limiterVars == <<clock, bucket, counter, check, admitted, errors>>

Windows == 0 .. (MaxClock \div Window)
Never == -1

(* No bucket is there before the first check, nor after reset. *)
NoBucket == [there |-> FALSE, tokens |-> 0, last |-> 0, born |-> 0, taken |-> 0]
NoCounter == [count |-> 0, expires |-> Never]
NoCheck == [pc |-> "none", window |-> 0]

LimiterInit ==
  /\ clock = 0 /\ bucket = NoBucket
  /\ counter = [w \in Windows |-> NoCounter]
  /\ check = [r \in Reqs |-> NoCheck]
  /\ admitted = [w \in Windows |-> 0]
  /\ errors = 0

Expired(c, now) == c.expires # Never /\ c.expires =< now

(* A second passes; Redis drops the keys whose time is over. *)
LimiterTick ==
  /\ clock < MaxClock
  /\ clock' = clock + 1
  /\ counter' = [w \in Windows |->
                   IF Expired(counter[w], clock + 1) THEN NoCounter ELSE counter[w]]
  /\ UNCHANGED <<bucket, check, admitted, errors>>

-----------------------------------------------------------------------------
(* MemoryRateLimiter *)

(* Defect: last_refill stays where it was. *)
RefilledAgain(b) ==
  [b EXCEPT !.tokens = Min({b.tokens + (clock - b.last) * Rate, Burst})]

(* The tokens that have come since the last check, up to max_tokens. *)
Refilled(b) ==
  [b EXCEPT !.tokens = Min({b.tokens + (clock - b.last) * Rate, Burst}), !.last = clock]

OrNew(b) ==
  IF b.there THEN b
  ELSE [there |-> TRUE, tokens |-> Burst, last |-> clock, born |-> clock, taken |-> 0]

(* check: or_insert_with, then try_consume. *)
TryConsume(r) ==
  LET b == Refilled(OrNew(bucket))
  IN  /\ check[r].pc = "none"
      /\ IF b.tokens >= 1
           THEN /\ bucket' = [b EXCEPT !.tokens = @ - 1, !.taken = @ + 1]
                /\ check' = [check EXCEPT ![r].pc = "allowed"]
           ELSE /\ bucket' = b
                /\ check' = [check EXCEPT ![r].pc = "refused"]
      /\ UNCHANGED <<clock, counter, admitted, errors>>

ResetBucket ==
  /\ bucket.there
  /\ bucket' = NoBucket
  /\ UNCHANGED <<clock, counter, check, admitted, errors>>

-----------------------------------------------------------------------------
(* RedisRateLimiter *)

(* rate_key: the window is part of the key. *)
RateKey(r) ==
  /\ check[r].pc = "none"
  /\ check' = [check EXCEPT ![r] = [@ EXCEPT !.pc = "window", !.window = clock \div Window]]
  /\ UNCHANGED <<clock, bucket, counter, admitted, errors>>

Limit == Rate * Window

Within(count) == count =< Limit

Returns(r, pc) == [check EXCEPT ![r] = [NoCheck EXCEPT !.pc = pc]]

(* INCR creates a missing key without an expiry; the count it answers is     *)
(* compared with the limit when nothing more is to be awaited.               *)
Incr(r) ==
  LET w == check[r].window
      n == counter[w].count + 1
  IN  /\ check[r].pc = "window"
      /\ counter' = [counter EXCEPT ![w].count = n]
      /\ check' = IF n = 1 THEN [check EXCEPT ![r].pc = "expire"]
                 ELSE Returns(r, IF Within(n) THEN "allowed" ELSE "refused")
      /\ admitted' = IF Within(n) /\ clock \div Window = w
                       THEN [admitted EXCEPT ![w] = @ + 1] ELSE admitted
      /\ UNCHANGED <<clock, bucket, errors>>

ExpireSeconds == Window + 1

(* EXPIRE, by the one whose INCR answered 1; with no seconds to live Redis   *)
(* drops the key at once.                                                    *)
Expire(r) ==
  LET w == check[r].window
      c == [counter[w] EXCEPT !.expires = clock + ExpireSeconds]
  IN  /\ check[r].pc = "expire"
      /\ counter' = [counter EXCEPT ![w] = IF @.count = 0 \/ Expired(c, clock) THEN NoCounter ELSE c]
      /\ check' = Returns(r, IF Within(1) THEN "allowed" ELSE "refused")
      /\ UNCHANGED <<clock, bucket, admitted, errors>>

(* A failing EXPIRE is ignored (unwrap_or): the key stays for ever. *)
ExpireFails(r) ==
  /\ check[r].pc = "expire" /\ errors < MaxErrors
  /\ errors' = errors + 1
  /\ check' = Returns(r, IF Within(1) THEN "allowed" ELSE "refused")
  /\ UNCHANGED <<clock, bucket, counter, admitted>>

(* Redis does not answer INCR: check returns an error.  The command may have *)
(* taken effect.                                                             *)
IncrFails(r) ==
  LET w == check[r].window
  IN  /\ check[r].pc = "window" /\ errors < MaxErrors
      /\ errors' = errors + 1
      /\ \/ UNCHANGED counter
         \/ counter' = [counter EXCEPT ![w].count = @ + 1]
      /\ check' = Returns(r, "error")
      /\ UNCHANGED <<clock, bucket, admitted>>

(* reset: DEL of the key of the current window. *)
ResetCounter ==
  LET w == clock \div Window
  IN  /\ counter[w].count > 0
      /\ counter' = [counter EXCEPT ![w] = NoCounter]
      /\ admitted' = [admitted EXCEPT ![w] = 0]
      /\ UNCHANGED <<clock, bucket, check, errors>>

(* The check has returned, or its future is dropped. *)
CheckDropped(r) == check' = [check EXCEPT ![r] = NoCheck]

MemoryStep(r) == TryConsume(r)
RedisStep(r) ==
  RateKey(r) \/ Incr(r) \/ Expire(r) \/ ExpireFails(r) \/ IncrFails(r)

-----------------------------------------------------------------------------
(* Properties *)

(* The token bucket promises a rate: since it was created it let through no  *)
(* more than burst_size and what its refill rate has brought since, however  *)
(* checks and pauses alternate.                                              *)
BucketBounded == bucket.taken =< Burst + Rate * (clock - bucket.born)

(* "Uses a fixed-window counter per key with INCR + EXPIRE": while a window  *)
(* runs its counter is not dropped, so that the checks allowed in it are at  *)
(* most requests_per_second * window_secs, also when EXPIRE is late or lost. *)
WindowBounded == \A w \in Windows : admitted[w] =< Limit

(* Not kept by the code - every counter goes away when its window is over:   *)
(* one whose EXPIRE failed, or whose first INCR was not answered, does not.  *)
CountersExpire ==
  \A w \in Windows :
    counter[w].count > 0 /\ clock > (w + 2) * Window + 1 =>
      counter[w].expires # Never \/ \E r \in Reqs : check[r].pc = "expire"
=============================================================================
