--------------------------- MODULE CircuitBreaker ---------------------------
(***************************************************************************)
(* The circuit breaker of rinfra-core/src/resilience/circuit_breaker.rs:   *)
(* the state behind its mutex as a record, and one operator for every      *)
(* method.  Each method holds the mutex from its first to its last line,   *)
(* so each one is a single atomic step of whoever calls it.                *)
(*                                                                         *)
(* Time.  The breaker reads the clock only as                              *)
(* last_failure_at.elapsed().as_secs() >= open_duration_secs, so the model *)
(* keeps the whole seconds elapsed since last_failure_at, saturated at     *)
(* OpenDuration, and NoFailure when the field is None.                     *)
(***************************************************************************)
EXTENDS Integers

CONSTANTS
  FailureThreshold,   \* CircuitBreakerConfig.failure_threshold
  SuccessThreshold,   \* CircuitBreakerConfig.success_threshold
  OpenDuration        \* CircuitBreakerConfig.open_duration_secs

ASSUME BreakerConfigAssumption ==
  /\ FailureThreshold \in Nat
  /\ SuccessThreshold \in Nat
  /\ OpenDuration \in Nat

CircuitState == {"Closed", "Open", "HalfOpen"}

NoFailure == -1

(* None, or the seconds since last_failure_at as far as they matter. *)
ElapsedSecs == {NoFailure} \cup (0 .. OpenDuration)

InternalState ==
  [status        : CircuitState,
   failure_count : Nat,
   success_count : Nat,
   elapsed       : ElapsedSecs]

NewBreaker ==
  [status |-> "Closed", failure_count |-> 0, success_count |-> 0,
   elapsed |-> NoFailure]

(* Defect: half-opens a second early. *)
MaybeTransitionHalfOpenEarly(s) ==
  IF s.status = "Open" /\ s.elapsed # NoFailure /\ s.elapsed + 1 >= OpenDuration
    THEN [s EXCEPT !.status = "HalfOpen", !.success_count = 0]
    ELSE s

(* The lazy Open -> HalfOpen transition; state() is this and a read. *)
MaybeTransitionHalfOpen(s) ==
  IF s.status = "Open" /\ s.elapsed # NoFailure /\ s.elapsed >= OpenDuration
    THEN [s EXCEPT !.status = "HalfOpen", !.success_count = 0]
    ELSE s

(* allow_request answers this of the state that the lazy transition left. *)
AllowRequest(s) == MaybeTransitionHalfOpen(s).status # "Open"

(* Defect: a success in Closed leaves failure_count as it was. *)
RecordSuccessKeepsCount(s) ==
  CASE s.status = "HalfOpen" ->
         IF s.success_count + 1 >= SuccessThreshold
           THEN NewBreaker
           ELSE [s EXCEPT !.success_count = @ + 1]
    [] OTHER -> s

RecordSuccess(s) ==
  CASE s.status = "Closed"   -> [s EXCEPT !.failure_count = 0]
    [] s.status = "HalfOpen" ->
         IF s.success_count + 1 >= SuccessThreshold
           THEN NewBreaker
           ELSE [s EXCEPT !.success_count = @ + 1]
    [] s.status = "Open"     -> s

(* Defect: last_failure_at is not set. *)
RecordFailureUntimed(s) ==
  CASE s.status = "Closed" /\ s.failure_count + 1 < FailureThreshold ->
         [s EXCEPT !.failure_count = @ + 1]
    [] s.status = "Closed" /\ s.failure_count + 1 >= FailureThreshold ->
         [s EXCEPT !.failure_count = @ + 1, !.status = "Open"]
    [] s.status = "HalfOpen" ->
         [s EXCEPT !.status = "Open", !.success_count = 0]
    [] s.status = "Open" -> s

(* Defect: a failure in HalfOpen does not reopen the breaker. *)
RecordFailureTolerant(s) ==
  CASE s.status = "Closed" /\ s.failure_count + 1 >= FailureThreshold ->
         [s EXCEPT !.failure_count = @ + 1, !.status = "Open",
                   !.success_count = 0, !.elapsed = 0]
    [] s.status = "Closed" /\ s.failure_count + 1 < FailureThreshold ->
         [s EXCEPT !.failure_count = @ + 1, !.elapsed = 0]
    [] OTHER -> [s EXCEPT !.elapsed = 0]

RecordFailure(s) ==
  CASE s.status = "Closed"   ->
         IF s.failure_count + 1 >= FailureThreshold
           THEN [s EXCEPT !.failure_count = @ + 1, !.status = "Open",
                          !.success_count = 0, !.elapsed = 0]
           ELSE [s EXCEPT !.failure_count = @ + 1, !.elapsed = 0]
    [] s.status = "HalfOpen" ->
         [s EXCEPT !.status = "Open", !.success_count = 0, !.elapsed = 0]
    [] s.status = "Open"     -> [s EXCEPT !.elapsed = 0]

Reset(s) == NewBreaker

(* One more second of Instant::elapsed; not a method of the breaker. *)
Elapse(s) ==
  IF s.elapsed # NoFailure /\ s.elapsed < OpenDuration
    THEN [s EXCEPT !.elapsed = @ + 1]
    ELSE s
=============================================================================
