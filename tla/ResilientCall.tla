---------------------------- MODULE ResilientCall ----------------------------
(***************************************************************************)
(* Tasks that share one breaker through with_retry_and_breaker of          *)
(* rinfra-plugins/src/resilience/mod.rs: a retry loop (with_retry) whose   *)
(* every attempt is a with_circuit_breaker.  The wrapper takes the mutex   *)
(* once to ask, awaits the operation, and takes it again (up to three      *)
(* times) to report, so the reports of one task interleave with the        *)
(* admissions and reports of all others, and a result may be recorded in a *)
(* state of the breaker other than the one that admitted the call.         *)
(***************************************************************************)
EXTENDS CircuitBreaker, FiniteSets

CONSTANTS
  Callers,       \* the tasks that call through the breaker
  MaxAttempts,   \* RetryPolicy.max_attempts
  Width          \* bits of u64

ASSUME CallAssumption == MaxAttempts \in Nat
ASSUME WidthAssumption == Width \in Nat \ {0}

VARIABLES
  cb,        \* the InternalState behind the mutex
  pc,        \* where each caller is
  attempt,   \* with_retry's loop variable, 0 outside a call
  failRun,   \* history: failures recorded in a row since the breaker closed
  okRun,     \* history: successes recorded in a row since the last failure
             \*   or since the breaker left Open
  tripAge    \* history: whole seconds since the breaker last went to Open,
             \*   saturated; NoFailure while it has not gone there since it
             \*   last closed

vars == <<cb, pc, attempt, failRun, okRun, tripAge>>

(* "calling" and "probing": f() is awaited, admitted by a Closed and by a   *)
(* HalfOpen breaker; "failed": f() returned Err, prev_state read;           *)
(* "recorded": the failure is recorded, new_state not yet read; "sleeping": *)
(* between two attempts.                                                    *)
InFlight == {"calling", "probing"}
Locations == {"idle", "asking", "failed", "recorded", "sleeping"} \cup InFlight

Capped(n, bound) == IF n < bound THEN n ELSE bound

-----------------------------------------------------------------------------
(* RetryPolicy::delay_for_attempt of rinfra-core/src/resilience/retry.rs,     *)
(* exponential strategy, in the machine arithmetic of the code: u64 is Width  *)
(* bits wide here, so that TLC meets every overflow.                          *)
U64Max == 2 ^ Width - 1
U64 == 0 .. U64Max

(* 1u64.checked_shl(n).unwrap_or(u64::MAX) *)
Multiplier(n) == IF n < Width THEN 2 ^ n ELSE U64Max

SaturatingMul(a, b) == Capped(a * b, U64Max)

(* Defect: wrapping multiplication. *)
DelayForAttemptWrapping(base, max, n) ==
  Capped((base * Multiplier(n)) % (U64Max + 1), max)

DelayForAttempt(base, max, n) == Capped(SaturatingMul(base, Multiplier(n)), max)

-----------------------------------------------------------------------------
(* The calls. *)

Init ==
  /\ cb = NewBreaker
  /\ pc = [c \in Callers |-> "idle"]
  /\ attempt = [c \in Callers |-> 0]
  /\ failRun = 0 /\ okRun = 0 /\ tripAge = NoFailure

(* History bookkeeping of a step that takes the breaker from cb to s. *)
Observe(s, ok, fail) ==
  /\ cb' = s
  /\ failRun' = IF ok \/ (s.status = "Closed" /\ cb.status # "Closed") THEN 0
                ELSE IF fail THEN Capped(failRun + 1, FailureThreshold)
                ELSE failRun
  /\ okRun' = IF fail \/ (cb.status = "Open" /\ s.status # "Open") THEN 0
              ELSE IF ok THEN Capped(okRun + 1, SuccessThreshold)
              ELSE okRun
  /\ tripAge' = IF s.status = "Closed" THEN NoFailure
                ELSE IF s.status = "Open" /\ cb.status # "Open" THEN 0
                ELSE tripAge

(* A task enters with_retry_and_breaker: the first turn of the loop.  A       *)
(* policy of no attempts has none and returns its error: the task stays idle. *)
BeginCall(c) ==
  /\ pc[c] = "idle" /\ MaxAttempts > 0
  /\ pc' = [pc EXCEPT ![c] = "asking"]
  /\ attempt' = [attempt EXCEPT ![c] = 1]
  /\ UNCHANGED <<cb, failRun, okRun, tripAge>>

(* How a failed attempt leaves with_retry's loop body. *)
AttemptFailed(c) ==
  IF attempt[c] >= MaxAttempts
    THEN /\ pc' = [pc EXCEPT ![c] = "idle"]
         /\ attempt' = [attempt EXCEPT ![c] = 0]
    ELSE /\ pc' = [pc EXCEPT ![c] = "sleeping"]
         /\ UNCHANGED attempt

(* allow_request says yes: the operation starts. *)
Admit(c) ==
  /\ pc[c] = "asking"
  /\ AllowRequest(cb)
  /\ Observe(MaybeTransitionHalfOpen(cb), FALSE, FALSE)
  /\ pc' = [pc EXCEPT ![c] = IF cb'.status = "HalfOpen" THEN "probing"
                                                      ELSE "calling"]
  /\ UNCHANGED attempt

(* allow_request says no: Err(CircuitBreakerOpen), a failed attempt. *)
Reject(c) ==
  /\ pc[c] = "asking"
  /\ ~ AllowRequest(cb)
  /\ Observe(MaybeTransitionHalfOpen(cb), FALSE, FALSE)
  /\ AttemptFailed(c)

(* The operation returned Ok: record_success, and the call returns. *)
Succeed(c) ==
  /\ pc[c] \in InFlight
  /\ Observe(RecordSuccess(cb), TRUE, FALSE)
  /\ pc' = [pc EXCEPT ![c] = "idle"]
  /\ attempt' = [attempt EXCEPT ![c] = 0]

(* The operation returned Err: prev_state = cb.state(). *)
Fail(c) ==
  /\ pc[c] \in InFlight
  /\ Observe(MaybeTransitionHalfOpen(cb), FALSE, FALSE)
  /\ pc' = [pc EXCEPT ![c] = "failed"]
  /\ UNCHANGED attempt

ReportFailure(c) ==
  /\ pc[c] = "failed"
  /\ Observe(RecordFailure(cb), FALSE, TRUE)
  /\ pc' = [pc EXCEPT ![c] = "recorded"]
  /\ UNCHANGED attempt

(* new_state = cb.state(), the metric, and Err to with_retry. *)
ReadNewState(c) ==
  /\ pc[c] = "recorded"
  /\ Observe(MaybeTransitionHalfOpen(cb), FALSE, FALSE)
  /\ AttemptFailed(c)

(* Defect: the loop variable is not advanced. *)
RetryUncounted(c) ==
  /\ pc[c] = "sleeping"
  /\ pc' = [pc EXCEPT ![c] = "asking"]
  /\ UNCHANGED <<cb, attempt, failRun, okRun, tripAge>>

Retry(c) ==
  /\ pc[c] = "sleeping"
  /\ pc' = [pc EXCEPT ![c] = "asking"]
  /\ attempt' = [attempt EXCEPT ![c] = @ + 1]
  /\ UNCHANGED <<cb, failRun, okRun, tripAge>>

(* The caller drops the future at an await (a timeout around the call, an   *)
(* aborted task): an admitted operation then never reports a result.        *)
Drop(c) ==
  /\ pc[c] \in InFlight \cup {"sleeping"}
  /\ pc' = [pc EXCEPT ![c] = "idle"]
  /\ attempt' = [attempt EXCEPT ![c] = 0]
  /\ UNCHANGED <<cb, failRun, okRun, tripAge>>

ForceReset ==
  /\ cb' = Reset(cb)
  /\ failRun' = 0 /\ okRun' = 0 /\ tripAge' = NoFailure
  /\ UNCHANGED <<pc, attempt>>

Tick ==
  /\ cb' = Elapse(cb)
  /\ tripAge' = IF tripAge = NoFailure THEN NoFailure
                ELSE Capped(tripAge + 1, OpenDuration)
  /\ UNCHANGED <<pc, attempt, failRun, okRun>>

Step(c) ==
  \/ BeginCall(c) \/ Admit(c) \/ Reject(c) \/ Succeed(c) \/ Fail(c)
  \/ ReportFailure(c) \/ ReadNewState(c) \/ Retry(c) \/ Drop(c)

Next == (\E c \in Callers : Step(c)) \/ ForceReset \/ Tick

Spec == Init /\ [][Next]_vars

(* Time passes, tasks keep calling, and the runtime polls every task that is *)
(* ready; an awaited operation ends one way or another (the HTTP client and  *)
(* the store set their own timeouts), or its caller drops it.                *)
Fairness ==
  /\ WF_vars(Tick)
  /\ \A c \in Callers :
       /\ WF_vars(BeginCall(c))
       /\ WF_vars(Admit(c) \/ Reject(c))
       /\ WF_vars(Succeed(c) \/ Fail(c) \/ Drop(c))
       /\ WF_vars(ReportFailure(c))
       /\ WF_vars(ReadNewState(c))
       /\ WF_vars(Retry(c))

FairSpec == Spec /\ Fairness

-----------------------------------------------------------------------------
(* Properties *)

(* The type of every variable. *)
TypeOK ==
  /\ cb \in InternalState
  /\ pc \in [Callers -> Locations]
  /\ attempt \in [Callers -> 0 .. MaxAttempts]
  /\ failRun \in Nat /\ okRun \in Nat
  /\ tripAge \in ElapsedSecs

(* The counters never run ahead of the state: a Closed breaker is short of   *)
(* its failure threshold, a HalfOpen one short of its success threshold, and *)
(* an Open one knows when it last failed, without which                      *)
(* maybe_transition_half_open would leave it Open for ever.                  *)
CountersMatchStatus ==
  /\ cb.status = "Closed" =>
       /\ cb.success_count = 0
       /\ cb.failure_count = 0 \/ cb.failure_count < FailureThreshold
       /\ cb.failure_count > 0 => cb.elapsed # NoFailure
  /\ cb.status = "HalfOpen" =>
       cb.success_count = 0 \/ cb.success_count < SuccessThreshold
  /\ cb.status = "Open" => cb.elapsed # NoFailure /\ cb.success_count = 0

(* "Exponential backoff: base_ms * 2^attempt, capped at max_ms": with_retry   *)
(* sleeps delay_for_attempt(attempt - 1) before it tries again, and that is   *)
(* the documented delay for every base and cap, at every retry the loop can   *)
(* reach, those included whose 2^attempt does not fit the word.               *)
DelayMatchesFormula ==
  \A c \in Callers :
    pc[c] = "sleeping" =>
      \A base, max \in U64 :
        DelayForAttempt(base, max, attempt[c] - 1)
          = Capped(base * 2 ^ (attempt[c] - 1), max)

(* "Consecutive failures required to trip from Closed -> Open": whatever the *)
(* interleaving of reports, the breaker leaves Closed only on a failure that *)
(* is at least the failure_threshold-th in a row since it closed, with no    *)
(* success recorded between them.                                            *)
TripsOnConsecutiveFailures ==
  [][cb.status = "Closed" /\ cb'.status # "Closed"
       => /\ cb'.status = "Open"
          /\ failRun' >= FailureThreshold]_vars

(* "Consecutive successes in HalfOpen required to close": unless it is reset *)
(* the breaker closes only from HalfOpen and only on the                     *)
(* success_threshold-th success in a row since it left Open, no failure      *)
(* between.                                                                  *)
ClosesOnConsecutiveSuccesses ==
  [][cb.status # "Closed" /\ cb'.status = "Closed"
       => \/ ForceReset
          \/ /\ cb.status = "HalfOpen"
             /\ okRun + 1 >= SuccessThreshold]_vars

(* "How long to stay Open": after a trip no caller is admitted until         *)
(* open_duration_secs have passed.                                           *)
CoolsDownAfterTrip ==
  [][\A c \in Callers :
       pc[c] \notin InFlight /\ pc'[c] \in InFlight
         => tripAge = NoFailure \/ tripAge >= OpenDuration]_vars

(* A breaker that tripped does not stay Open for ever: late failures restart *)
(* the period (record_failure refreshes last_failure_at in every state), but *)
(* an Open breaker admits no call that could produce another one.            *)
OpenEventuallyProbed == cb.status = "Open" ~> cb.status # "Open"

(* Every call through with_retry_and_breaker returns: rejections use up      *)
(* attempts like failures do.                                                *)
CallReturns == \A c \in Callers : pc[c] = "asking" ~> pc[c] = "idle"

(* Nobody is shut out for ever: the breaker is probed again, and a call that *)
(* it rejects meanwhile comes to its end.                                    *)
CallsRecover == OpenEventuallyProbed /\ CallReturns

(* Not kept by the code - "Testing recovery - limited requests allowed": in  *)
(* HalfOpen at most success_threshold probes are under way, the most the     *)
(* breaker needs to decide.                                                  *)
HalfOpenLimitsProbes ==
  cb.status = "HalfOpen" =>
    Cardinality({c \in Callers : pc[c] = "probing"}) =< SuccessThreshold
=============================================================================
