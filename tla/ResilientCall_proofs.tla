------------------------ MODULE ResilientCall_proofs ------------------------
(***************************************************************************)
(* Proofs about the circuit breaker, its callers and the HTTP clients that *)
(* share it, for every set of them and every configuration.                *)
(***************************************************************************)
EXTENDS HttpClient, FiniteSetTheorems, TLAPS

(* What the mutex protects is well formed and its counters agree with its   *)
(* status.                                                                  *)
BreakerInv(s) ==
  /\ s \in InternalState
  /\ s.status = "Closed" =>
       /\ s.success_count = 0
       /\ s.failure_count = 0 \/ s.failure_count < FailureThreshold
       /\ s.failure_count > 0 => s.elapsed # NoFailure
  /\ s.status = "HalfOpen" =>
       s.success_count = 0 \/ s.success_count < SuccessThreshold
  /\ s.status = "Open" => s.elapsed # NoFailure /\ s.success_count = 0

(* The two values of elapsed that the code writes. *)
LEMMA ElapsedFacts ==
  /\ 0 \in ElapsedSecs /\ NoFailure \in ElapsedSecs /\ 0 # NoFailure
  /\ \A n \in ElapsedSecs : n # NoFailure /\ n < OpenDuration =>
       n + 1 \in ElapsedSecs /\ n + 1 # NoFailure
  BY BreakerConfigAssumption DEF ElapsedSecs, NoFailure

(* A new or reset breaker is well formed. *)
LEMMA NewBreakerInv == BreakerInv(NewBreaker)
  BY ElapsedFacts DEF BreakerInv, NewBreaker, InternalState, CircuitState

(* The lazy transition keeps the breaker well formed. *)
LEMMA HalfOpenInv ==
  ASSUME NEW s, BreakerInv(s)
  PROVE  BreakerInv(MaybeTransitionHalfOpen(s))
  BY DEF BreakerInv, MaybeTransitionHalfOpen, InternalState, CircuitState

(* So does record_success. *)
LEMMA RecordSuccessInv ==
  ASSUME NEW s, BreakerInv(s)
  PROVE  BreakerInv(RecordSuccess(s))
  <1> USE BreakerConfigAssumption
  <1>1. CASE s.status = "Closed"
    BY <1>1 DEF BreakerInv, RecordSuccess, InternalState, CircuitState
  <1>2. CASE s.status = "HalfOpen"
    BY <1>2, NewBreakerInv DEF BreakerInv, RecordSuccess, InternalState, CircuitState
  <1>3. CASE s.status = "Open"
    BY <1>3 DEF BreakerInv, RecordSuccess
  <1>4. QED BY <1>1, <1>2, <1>3 DEF BreakerInv, InternalState, CircuitState

(* So does record_failure. *)
LEMMA RecordFailureInv ==
  ASSUME NEW s, BreakerInv(s)
  PROVE  BreakerInv(RecordFailure(s))
  <1> DEFINE r == RecordFailure(s)
  <1>1. s \in InternalState
    BY DEF BreakerInv
  <1>2. PICK n \in Nat : n = s.failure_count + 1
    BY <1>1 DEF InternalState
  <1> SUFFICES BreakerInv(r)
    OBVIOUS
  <1> HIDE DEF r
  <1>0. 0 \in ElapsedSecs
    BY ElapsedFacts
  <1>3. CASE s.status = "Closed" /\ s.failure_count + 1 >= FailureThreshold
    <2>1. r = [s EXCEPT !.failure_count = n, !.status = "Open",
                        !.success_count = 0, !.elapsed = 0]
      BY <1>2, <1>3 DEF r, RecordFailure
    <2>2. r \in InternalState
      BY <1>1, <1>0, <2>1 DEF InternalState, CircuitState
    <2>3. r.status = "Open" /\ r.success_count = 0 /\ r.elapsed = 0
      BY <1>1, <2>1 DEF InternalState
    <2>4. QED BY <2>2, <2>3, ElapsedFacts DEF BreakerInv
  <1>4. CASE s.status = "Closed" /\ ~ (s.failure_count + 1 >= FailureThreshold)
    <2>1. r = [s EXCEPT !.failure_count = n, !.elapsed = 0]
      BY <1>2, <1>4 DEF r, RecordFailure
    <2>2. r \in InternalState
      BY <1>1, <1>0, <2>1 DEF InternalState, CircuitState
    <2>3. r.status = "Closed" /\ r.success_count = s.success_count
            /\ r.elapsed = 0 /\ r.failure_count = n
      BY <1>1, <1>4, <2>1 DEF InternalState
    <2>4. r.failure_count < FailureThreshold
      BY <1>2, <1>4, <2>3, BreakerConfigAssumption
    <2>5. QED BY <1>4, <2>2, <2>3, <2>4, ElapsedFacts DEF BreakerInv
  <1>5. CASE s.status = "HalfOpen"
    <2>1. r = [s EXCEPT !.status = "Open", !.success_count = 0, !.elapsed = 0]
      BY <1>5 DEF r, RecordFailure
    <2>2. r \in InternalState
      BY <1>1, <1>0, <2>1 DEF InternalState, CircuitState
    <2>3. r.status = "Open" /\ r.success_count = 0 /\ r.elapsed = 0
      BY <1>1, <2>1 DEF InternalState
    <2>4. QED BY <2>2, <2>3, ElapsedFacts DEF BreakerInv
  <1>6. CASE s.status = "Open"
    BY <1>6, ElapsedFacts DEF r, BreakerInv, RecordFailure, InternalState, CircuitState
  <1>7. QED
    BY <1>1, <1>3, <1>4, <1>5, <1>6 DEF InternalState, CircuitState

(* And the passing of time. *)
LEMMA ElapseInv ==
  ASSUME NEW s, BreakerInv(s)
  PROVE  BreakerInv(Elapse(s)) /\ Elapse(s).status = s.status
  BY ElapsedFacts DEF BreakerInv, Elapse, InternalState, CircuitState

-----------------------------------------------------------------------------
(* The inductive invariant *)

(* How the history of reports and of time relates to the breaker: what the  *)
(* counters count has really happened, in a row, and an Open breaker has    *)
(* not been Open for less time than it thinks.                              *)
History ==
  /\ failRun \in Nat /\ okRun \in Nat /\ tripAge \in ElapsedSecs
  /\ cb.status = "Closed" => failRun >= cb.failure_count
  /\ cb.status = "HalfOpen" => okRun >= cb.success_count
  /\ cb.status = "Open" => tripAge # NoFailure /\ cb.elapsed =< tripAge
  /\ cb.status = "HalfOpen" => tripAge >= OpenDuration
  /\ cb.status = "Closed" => tripAge = NoFailure

Core == BreakerInv(cb) /\ History

Control ==
  /\ pc \in [Callers -> Locations]
  /\ attempt \in [Callers -> 0 .. MaxAttempts]
  /\ \A c \in Callers : pc[c] # "idle" => attempt[c] >= 1
  /\ \A c \in Callers : pc[c] = "sleeping" => attempt[c] < MaxAttempts

IInv == Core /\ Control

(* Reading the state, with its lazy transition, keeps Core. *)
LEMMA LazyStep ==
  ASSUME Core, Observe(MaybeTransitionHalfOpen(cb), FALSE, FALSE)
  PROVE  Core'
  <1> DEFINE s == MaybeTransitionHalfOpen(cb)
  <1>1. cb' = s /\ BreakerInv(s)
    BY HalfOpenInv DEF Core, Observe
  <1>2. CASE cb.status = "Open" /\ cb.elapsed # NoFailure /\ cb.elapsed >= OpenDuration
    <2>1. s.status = "HalfOpen" /\ s.success_count = 0
      BY <1>2 DEF MaybeTransitionHalfOpen, Core, BreakerInv, InternalState
    <2>2. tripAge' = tripAge /\ failRun' \in Nat /\ okRun' = 0
      BY <1>2, <2>1 DEF Observe, Core, History
    <2>3. tripAge >= OpenDuration
      BY <1>2, BreakerConfigAssumption
      DEF Core, History, BreakerInv, InternalState, ElapsedSecs, NoFailure
    <2>4. QED BY <1>1, <2>1, <2>2, <2>3 DEF Core, History
  <1>3. CASE ~ (cb.status = "Open" /\ cb.elapsed # NoFailure /\ cb.elapsed >= OpenDuration)
    <2>1. s = cb
      BY <1>3 DEF MaybeTransitionHalfOpen
    <2>2. failRun' = failRun /\ okRun' = okRun
      BY <2>1 DEF Observe
    <2>3. tripAge' = tripAge \/ (cb.status = "Closed" /\ tripAge' = NoFailure)
      BY <2>1 DEF Observe
    <2>4. QED BY <1>1, <2>1, <2>2, <2>3, ElapsedFacts DEF Core, History
  <1>4. QED BY <1>2, <1>3

(* So does recording a success, and it closes the breaker only on the last  *)
(* of enough successes in a row.                                            *)
LEMMA SuccessStep ==
  ASSUME Core, Observe(RecordSuccess(cb), TRUE, FALSE)
  PROVE  /\ Core'
         /\ cb.status = "Closed" => cb'.status = "Closed"
         /\ cb.status # "Closed" /\ cb'.status = "Closed" =>
              cb.status = "HalfOpen" /\ okRun + 1 >= SuccessThreshold
  <1> DEFINE s == RecordSuccess(cb)
  <1> USE BreakerConfigAssumption
  <1>1. cb' = s /\ BreakerInv(s) /\ BreakerInv(cb)
    BY RecordSuccessInv DEF Core, Observe
  <1>2. failRun' = 0
    BY DEF Observe
  <1>3. CASE cb.status = "Closed"
    <2>1. s.status = "Closed" /\ s.failure_count = 0
      BY <1>3 DEF RecordSuccess, Core, BreakerInv, InternalState
    <2>2. tripAge' = NoFailure /\ okRun' \in Nat
      BY <1>3, <2>1 DEF Observe, Core, History, Capped
    <2>3. QED BY <1>1, <1>2, <1>3, <2>1, <2>2, ElapsedFacts DEF Core, History
  <1>4. CASE cb.status = "HalfOpen" /\ cb.success_count + 1 >= SuccessThreshold
    <2>1. s = NewBreaker
      BY <1>4 DEF RecordSuccess
    <2>2. tripAge' = NoFailure /\ okRun' \in Nat
      BY <1>4, <2>1 DEF Observe, Core, History, Capped, NewBreaker
    <2>3. okRun + 1 >= SuccessThreshold
      BY <1>4 DEF Core, History, BreakerInv, InternalState
    <2>4. QED BY <1>1, <1>2, <1>4, <2>1, <2>2, <2>3, ElapsedFacts
              DEF Core, History, NewBreaker
  <1>5. CASE cb.status = "HalfOpen" /\ ~ (cb.success_count + 1 >= SuccessThreshold)
    <2>1. s.status = "HalfOpen" /\ s.success_count = cb.success_count + 1
      BY <1>5 DEF RecordSuccess, Core, BreakerInv, InternalState
    <2>2. tripAge' = tripAge /\ okRun' = Capped(okRun + 1, SuccessThreshold)
      BY <1>5, <2>1 DEF Observe
    <2>3. okRun' \in Nat /\ okRun' >= s.success_count
      BY <1>5, <2>1, <2>2 DEF Core, History, BreakerInv, InternalState, Capped
    <2>4. QED BY <1>1, <1>2, <1>5, <2>1, <2>2, <2>3 DEF Core, History
  <1>6. CASE cb.status = "Open"
    <2>1. s = cb
      BY <1>6 DEF RecordSuccess
    <2>2. tripAge' = tripAge /\ okRun' \in Nat
      BY <1>6, <2>1 DEF Observe, Core, History, Capped
    <2>3. QED BY <1>1, <1>2, <1>6, <2>1, <2>2 DEF Core, History
  <1>7. QED
    BY <1>1, <1>3, <1>4, <1>5, <1>6 DEF BreakerInv, InternalState, CircuitState

(* So does recording a failure, and it trips the breaker only on the last   *)
(* of enough failures in a row.                                             *)
LEMMA FailureStep ==
  ASSUME Core, Observe(RecordFailure(cb), FALSE, TRUE)
  PROVE  /\ Core'
         /\ cb.status # "Closed" => cb'.status = "Open"
         /\ cb.status = "Closed" /\ cb'.status # "Closed" =>
              cb'.status = "Open" /\ failRun' >= FailureThreshold
  <1> DEFINE s == RecordFailure(cb)
  <1> USE BreakerConfigAssumption
  <1>1. cb' = s /\ BreakerInv(s) /\ BreakerInv(cb)
    BY RecordFailureInv DEF Core, Observe
  <1>2. okRun' = 0
    BY DEF Observe
  <1>3. CASE cb.status = "Closed" /\ cb.failure_count + 1 >= FailureThreshold
    <2>1. s.status = "Open" /\ s.elapsed = 0
      BY <1>3 DEF RecordFailure, Core, BreakerInv, InternalState
    <2>2. tripAge' = 0 /\ failRun' = Capped(failRun + 1, FailureThreshold)
      BY <1>3, <2>1 DEF Observe
    <2>3. failRun' \in Nat /\ failRun' >= FailureThreshold
      BY <1>3, <2>2 DEF Core, History, BreakerInv, InternalState, Capped
    <2>4. QED BY <1>1, <1>2, <1>3, <2>1, <2>2, <2>3, ElapsedFacts DEF Core, History
  <1>4. CASE cb.status = "Closed" /\ ~ (cb.failure_count + 1 >= FailureThreshold)
    <2>1. s.status = "Closed" /\ s.failure_count = cb.failure_count + 1
      BY <1>4 DEF RecordFailure, Core, BreakerInv, InternalState
    <2>2. tripAge' = NoFailure /\ failRun' = Capped(failRun + 1, FailureThreshold)
      BY <1>4, <2>1 DEF Observe
    <2>3. failRun' \in Nat /\ failRun' >= s.failure_count
      BY <1>4, <2>1, <2>2 DEF Core, History, BreakerInv, InternalState, Capped
    <2>4. QED BY <1>1, <1>2, <1>4, <2>1, <2>2, <2>3, ElapsedFacts DEF Core, History
  <1>5. CASE cb.status \in {"HalfOpen", "Open"}
    <2>1. s.status = "Open" /\ s.elapsed = 0
      BY <1>5 DEF RecordFailure, Core, BreakerInv, InternalState
    <2>2. failRun' \in Nat
      BY <1>5, <2>1 DEF Observe, Core, History, Capped
    <2>3. tripAge' = 0 \/ (cb.status = "Open" /\ tripAge' = tripAge)
      BY <1>5, <2>1 DEF Observe
    <2>4. tripAge' \in ElapsedSecs /\ tripAge' # NoFailure /\ 0 =< tripAge'
      BY <2>3, ElapsedFacts DEF Core, History, ElapsedSecs, NoFailure
    <2>5. QED BY <1>1, <1>2, <1>5, <2>1, <2>2, <2>4 DEF Core, History
  <1>6. QED
    BY <1>1, <1>3, <1>4, <1>5 DEF BreakerInv, InternalState, CircuitState

(* So does the passing of time, which leaves the status alone. *)
LEMMA TickStep ==
  ASSUME Core, Tick
  PROVE  Core' /\ cb'.status = cb.status
  <1> USE BreakerConfigAssumption
  <1>1. cb' = Elapse(cb) /\ BreakerInv(cb)' /\ cb'.status = cb.status
    BY ElapseInv DEF Core, Tick, BreakerInv
  <1>2. failRun' = failRun /\ okRun' = okRun
    BY DEF Tick
  <1>3. cb'.failure_count = cb.failure_count /\ cb'.success_count = cb.success_count
    BY <1>1 DEF Elapse, Core, BreakerInv, InternalState
  <1>4. tripAge' \in ElapsedSecs /\ (tripAge # NoFailure => tripAge' # NoFailure)
          /\ (tripAge >= OpenDuration => tripAge' >= OpenDuration)
          /\ (tripAge = NoFailure => tripAge' = NoFailure)
    BY DEF Tick, Core, History, ElapsedSecs, NoFailure, Capped
  <1>5. cb.status = "Open" => cb'.elapsed =< tripAge'
    BY <1>1 DEF Tick, Elapse, Core, History, BreakerInv, InternalState,
                ElapsedSecs, NoFailure, Capped
  <1>6. QED BY <1>1, <1>2, <1>3, <1>4, <1>5 DEF Core, History

(* So does a reset. *)
LEMMA ResetStep ==
  ASSUME Core, ForceReset
  PROVE  Core' /\ cb'.status = "Closed"
  BY NewBreakerInv, ElapsedFacts DEF ForceReset, Reset, Core, History, NewBreaker

(* A caller's own step: it moves its own location and attempt counter, and  *)
(* touches the breaker through one of the four lemmas or not at all.        *)
LEMMA CallerStep ==
  ASSUME IInv, NEW c \in Callers, Step(c)
  PROVE  IInv'
  <1> USE CallAssumption DEF IInv
  <1>1. CASE BeginCall(c)
    BY <1>1 DEF BeginCall, Core, BreakerInv, History, Control, Locations, InFlight
  <1>2. CASE Admit(c)
    <2>1. Core'
      BY <1>2, LazyStep DEF Admit
    <2>2. Control'
      BY <1>2 DEF Admit, Control, Locations, InFlight
    <2>3. QED BY <2>1, <2>2
  <1>3. CASE Reject(c)
    <2>1. Core'
      BY <1>3, LazyStep DEF Reject
    <2>2. Control'
      BY <1>3 DEF Reject, AttemptFailed, Control, Locations, InFlight
    <2>3. QED BY <2>1, <2>2
  <1>4. CASE Succeed(c)
    <2>1. Core'
      BY <1>4, SuccessStep DEF Succeed
    <2>2. Control'
      BY <1>4 DEF Succeed, Control, Locations, InFlight
    <2>3. QED BY <2>1, <2>2
  <1>5. CASE Fail(c)
    <2>1. Core'
      BY <1>5, LazyStep DEF Fail
    <2>2. Control'
      BY <1>5 DEF Fail, Control, Locations, InFlight
    <2>3. QED BY <2>1, <2>2
  <1>6. CASE ReportFailure(c)
    <2>1. Core'
      BY <1>6, FailureStep DEF ReportFailure
    <2>2. Control'
      BY <1>6 DEF ReportFailure, Control, Locations, InFlight
    <2>3. QED BY <2>1, <2>2
  <1>7. CASE ReadNewState(c)
    <2>1. Core'
      BY <1>7, LazyStep DEF ReadNewState
    <2>2. Control'
      BY <1>7 DEF ReadNewState, AttemptFailed, Control, Locations, InFlight
    <2>3. QED BY <2>1, <2>2
  <1>8. CASE Retry(c)
    BY <1>8 DEF Retry, Core, BreakerInv, History, Control, Locations, InFlight
  <1>9. CASE Drop(c)
    BY <1>9 DEF Drop, Core, BreakerInv, History, Control, Locations, InFlight
  <1>10. QED
    BY <1>1, <1>2, <1>3, <1>4, <1>5, <1>6, <1>7, <1>8, <1>9 DEF Step

(* The invariant holds at the start. *)
LEMMA InitIInv == Init => IInv
  BY NewBreakerInv, ElapsedFacts, CallAssumption
  DEF Init, IInv, Core, History, Control, NewBreaker, Locations, InFlight

(* Every step of the callers keeps it. *)
LEMMA NextIInv == IInv /\ [Next]_vars => IInv'
  <1> SUFFICES ASSUME IInv, [Next]_vars
               PROVE  IInv'
    OBVIOUS
  <1>1. CASE \E c \in Callers : Step(c)
    BY <1>1, CallerStep
  <1>2. CASE ForceReset
    <2>1. Core'
      BY <1>2, ResetStep DEF IInv
    <2>2. Control'
      BY <1>2 DEF ForceReset, IInv, Control
    <2>3. QED BY <2>1, <2>2 DEF IInv
  <1>3. CASE Tick
    <2>1. Core'
      BY <1>3, TickStep DEF IInv
    <2>2. Control'
      BY <1>3 DEF Tick, IInv, Control
    <2>3. QED BY <2>1, <2>2 DEF IInv
  <1>4. CASE UNCHANGED vars
    BY <1>4 DEF vars, IInv, Core, BreakerInv, History, Control
  <1>5. QED BY <1>1, <1>2, <1>3, <1>4 DEF Next

(* The invariant is stronger than the properties the runs check. *)
LEMMA IInvImplies == IInv => TypeOK /\ CountersMatchStatus
  BY DEF IInv, Core, BreakerInv, History, Control, TypeOK, CountersMatchStatus

(* What a request of an HTTP client does to the breaker. *)
Touches ==
  /\ UNCHANGED <<pc, attempt>>
  /\ \/ Observe(MaybeTransitionHalfOpen(cb), FALSE, FALSE)
     \/ Observe(RecordSuccess(cb), TRUE, FALSE)
     \/ Observe(RecordFailure(cb), FALSE, TRUE)
     \/ Observe(cb, FALSE, FALSE)

(* A step is one of the callers, or a request's. *)
LEMMA ClientFrame == [ClientNext]_clientVars => [Next]_vars \/ Touches
  <1> SUFFICES ASSUME [ClientNext]_clientVars
               PROVE  [Next]_vars \/ Touches
    OBVIOUS
  <1>1. ASSUME NEW h \in Clients, ClientStep(h)
        PROVE  [Next]_vars \/ Touches
    BY <1>1 DEF ClientStep, RequestRejected, RequestAdmitted, Response, AttemptError,
                Resend, Abandon, Touch, Touches
  <1>2. CASE \E c \in Callers : Step(c)
    BY <1>2 DEF Next
  <1>3. CASE ForceReset \/ Tick
    BY <1>3 DEF Next
  <1>4. CASE UNCHANGED clientVars
    BY <1>4 DEF clientVars
  <1>5. QED BY <1>1, <1>2, <1>3, <1>4 DEF ClientNext

(* A read of the state that changes nothing keeps Core. *)
LEMMA ReadStep ==
  ASSUME Core, Observe(cb, FALSE, FALSE)
  PROVE  Core'
  <1>1. cb' = cb /\ failRun' = failRun /\ okRun' = okRun
    BY DEF Observe
  <1>2. tripAge' = tripAge
    BY DEF Observe, Core, History
  <1>3. QED BY <1>1, <1>2 DEF Core, History

(* A request of an HTTP client keeps the invariant. *)
LEMMA TouchIInv == IInv /\ Touches => IInv'
  <1> SUFFICES ASSUME IInv, Touches
               PROVE  IInv'
    OBVIOUS
  <1>1. Core'
    BY LazyStep, SuccessStep, FailureStep, ReadStep DEF IInv, Touches
  <1>2. Control'
    BY DEF Touches, IInv, Control
  <1>3. QED BY <1>1, <1>2 DEF IInv

-----------------------------------------------------------------------------
(* Theorems *)

(* IInv is an invariant of the callers, the requests and their breaker. *)
THEOREM Invariance == ClientSpec => []IInv
  <1>1. ClientInit => IInv
    BY InitIInv DEF ClientInit
  <1>2. IInv /\ [ClientNext]_clientVars => IInv'
    BY NextIInv, TouchIInv, ClientFrame
  <1>3. QED BY <1>1, <1>2, PTL DEF ClientSpec

(* For every configuration and every interleaving of reports, the counters  *)
(* agree with the status; in particular an Open breaker always has the      *)
(* last_failure_at it needs to half-open.                                   *)
THEOREM CountersCorrect == ClientSpec => []CountersMatchStatus
  BY Invariance, IInvImplies, PTL

(* The breaker trips only on failure_threshold failures recorded in a row.  *)
THEOREM TripCorrect == ClientSpec => TripsOnConsecutiveFailures
  <1> DEFINE Trip == cb.status = "Closed" /\ cb'.status # "Closed"
                       => cb'.status = "Open" /\ failRun' >= FailureThreshold
  <1>1. ASSUME IInv, [Next]_vars
        PROVE  Trip
    <2>0. Core
      BY <1>1 DEF IInv
    <2>1. CASE \E c \in Callers : Step(c)
      <3> PICK c \in Callers : Step(c)
        BY <2>1
      <3>1. CASE BeginCall(c) \/ Retry(c) \/ Drop(c)
        BY <3>1 DEF BeginCall, Retry, Drop
      <3>2. CASE Admit(c) \/ Reject(c) \/ Fail(c) \/ ReadNewState(c)
        BY <3>2 DEF Admit, Reject, Fail, ReadNewState, Observe, MaybeTransitionHalfOpen
      <3>3. CASE Succeed(c)
        BY <2>0, <3>3, SuccessStep DEF Succeed
      <3>4. CASE ReportFailure(c)
        BY <2>0, <3>4, FailureStep DEF ReportFailure
      <3>5. QED BY <3>1, <3>2, <3>3, <3>4 DEF Step
    <2>2. CASE ForceReset
      BY <2>0, <2>2, ResetStep
    <2>3. CASE Tick
      BY <2>0, <2>3, TickStep
    <2>4. CASE UNCHANGED vars
      BY <2>4 DEF vars
    <2>5. QED BY <1>1, <2>1, <2>2, <2>3, <2>4 DEF Next
  <1>2. ASSUME IInv, Touches
        PROVE  Trip
    BY <1>2, SuccessStep, FailureStep
    DEF Touches, Observe, MaybeTransitionHalfOpen, IInv
  <1>3. IInv /\ [ClientNext]_clientVars => [Trip]_vars
    BY <1>1, <1>2, ClientFrame
  <1>4. QED
    BY <1>3, Invariance, PTL DEF ClientSpec, TripsOnConsecutiveFailures

(* Unless it is reset the breaker closes only from HalfOpen, on              *)
(* success_threshold successes recorded in a row since it left Open.         *)
THEOREM CloseCorrect == ClientSpec => ClosesOnConsecutiveSuccesses
  <1> DEFINE Close == cb.status # "Closed" /\ cb'.status = "Closed"
                        => \/ ForceReset
                           \/ /\ cb.status = "HalfOpen"
                              /\ okRun + 1 >= SuccessThreshold
  <1>1. ASSUME IInv, [Next]_vars
        PROVE  Close
    <2>0. Core
      BY <1>1 DEF IInv
    <2>1. CASE \E c \in Callers : Step(c)
      <3> PICK c \in Callers : Step(c)
        BY <2>1
      <3>1. CASE BeginCall(c) \/ Retry(c) \/ Drop(c)
        BY <3>1 DEF BeginCall, Retry, Drop
      <3>2. CASE Admit(c) \/ Reject(c) \/ Fail(c) \/ ReadNewState(c)
        BY <2>0, <3>2
        DEF Admit, Reject, Fail, ReadNewState, Observe, MaybeTransitionHalfOpen,
            Core, BreakerInv, InternalState
      <3>3. CASE Succeed(c)
        BY <2>0, <3>3, SuccessStep DEF Succeed
      <3>4. CASE ReportFailure(c)
        BY <2>0, <3>4, FailureStep DEF ReportFailure
      <3>5. QED BY <3>1, <3>2, <3>3, <3>4 DEF Step
    <2>2. CASE Tick
      BY <2>0, <2>2, TickStep
    <2>3. CASE UNCHANGED vars
      BY <2>3 DEF vars
    <2>4. QED BY <1>1, <2>1, <2>2, <2>3 DEF Next
  <1>2. ASSUME IInv, Touches
        PROVE  Close
    <2>1. Core
      BY <1>2 DEF IInv
    <2>2. CASE Observe(MaybeTransitionHalfOpen(cb), FALSE, FALSE)
      BY <2>1, <2>2 DEF Observe, MaybeTransitionHalfOpen, Core, BreakerInv, InternalState
    <2>3. CASE Observe(RecordSuccess(cb), TRUE, FALSE)
      BY <2>1, <2>3, SuccessStep
    <2>4. CASE Observe(RecordFailure(cb), FALSE, TRUE)
      BY <2>1, <2>4, FailureStep
    <2>5. CASE Observe(cb, FALSE, FALSE)
      BY <2>5 DEF Observe
    <2>6. QED BY <1>2, <2>2, <2>3, <2>4, <2>5 DEF Touches
  <1>3. IInv /\ [ClientNext]_clientVars => [Close]_vars
    BY <1>1, <1>2, ClientFrame
  <1>4. QED
    BY <1>3, Invariance, PTL DEF ClientSpec, ClosesOnConsecutiveSuccesses

(* After a trip no caller is admitted for open_duration_secs. *)
LEMMA CallersCoolDown == ClientSpec => CoolsDownAfterTrip
  <1> DEFINE Cool == \A c \in Callers :
                       pc[c] \notin InFlight /\ pc'[c] \in InFlight
                         => tripAge = NoFailure \/ tripAge >= OpenDuration
  <1>1. ASSUME IInv, [Next]_vars
        PROVE  Cool
    <2> SUFFICES ASSUME NEW c \in Callers,
                        pc[c] \notin InFlight, pc'[c] \in InFlight
                 PROVE  tripAge = NoFailure \/ tripAge >= OpenDuration
      OBVIOUS
    <2>1. Admit(c)
      BY <1>1 DEF Next, Step, vars, IInv, Control, InFlight, Locations,
                  BeginCall, Admit, Reject, Succeed, Fail, ReportFailure,
                  ReadNewState, Retry, Drop, ForceReset, Tick, AttemptFailed
    <2>2. CASE cb.status = "Open"
      BY <1>1, <2>1, <2>2, BreakerConfigAssumption
      DEF Admit, AllowRequest, MaybeTransitionHalfOpen, IInv, Core, History,
          BreakerInv, InternalState, ElapsedSecs, NoFailure
    <2>3. CASE cb.status = "HalfOpen"
      BY <1>1, <2>3 DEF IInv, Core, History
    <2>4. CASE cb.status = "Closed"
      BY <1>1, <2>4 DEF IInv, Core, History
    <2>5. QED
      BY <1>1, <2>2, <2>3, <2>4 DEF IInv, Core, BreakerInv, InternalState, CircuitState
  <1>2. ASSUME IInv, Touches
        PROVE  Cool
    BY <1>2 DEF Touches
  <1>3. IInv /\ [ClientNext]_clientVars => [Cool]_vars
    BY <1>1, <1>2, ClientFrame
  <1>4. QED
    BY <1>3, Invariance, PTL DEF ClientSpec, CoolsDownAfterTrip

-----------------------------------------------------------------------------
(* The attempts of the HTTP clients *)

(* The attempts that the requests under way may still begin. *)
Left ==
  {x \in Clients \X (2 .. Attempts) :
     at[x[1]] \in {"sending", "sleeping"} /\ tries[x[1]] < x[2]}

(* What was sent since the trip and what may still be sent are together the *)
(* retries of the requests.                                                 *)
LoopInv ==
  /\ at \in [Clients -> {"idle", "sending", "sleeping", "panicked"}]
  /\ tries \in [Clients -> 0 .. Attempts]
  /\ \A h \in Clients : at[h] \in {"sending", "sleeping"} => tries[h] >= 1
  /\ \A h \in Clients : at[h] = "sleeping" => tries[h] < Attempts
  /\ over \in Nat
  /\ over + Cardinality(Left) =< Cardinality(Clients) * MaxRetries

(* max_retries + 1, or 0 where u32 overflows. *)
LEMMA AttemptsBound == MaxRetries \in Nat /\ Attempts \in Nat /\ Attempts =< MaxRetries + 1
  <1>1. MaxRetries \in Nat /\ U32 \in Nat \ {0} /\ MaxRetries + 1 =< U32
    BY ClientAssumption
  <1>2. CASE MaxRetries + 1 = U32
    BY <1>1, <1>2 DEF Attempts
  <1>3. CASE MaxRetries + 1 < U32
    BY <1>1, <1>3 DEF Attempts
  <1>4. QED BY <1>1, <1>2, <1>3

LEMMA ProductGrows ==
  ASSUME NEW k \in Nat, NEW a \in Nat, NEW b \in Nat, a =< b
  PROVE  k * a \in Nat /\ k * b \in Nat /\ k * a =< k * b
  OBVIOUS

(* No more is left than all the retries of all requests. *)
LEMMA LeftBounded ==
  ASSUME NEW S, S \subseteq Clients \X (2 .. Attempts)
  PROVE  /\ IsFiniteSet(S) /\ Cardinality(S) \in Nat
         /\ Cardinality(S) =< Cardinality(Clients) * MaxRetries
  <1> DEFINE R == 2 .. Attempts
             A == Clients \X R
  <1>1. IsFiniteSet(R) /\ Cardinality(R) \in Nat /\ Cardinality(R) =< MaxRetries
    <2>1. 2 \in Int /\ Attempts \in Int
      BY AttemptsBound
    <2>2. /\ IsFiniteSet(2 .. Attempts)
          /\ Cardinality(2 .. Attempts) = IF 2 > Attempts THEN 0 ELSE Attempts - 2 + 1
      BY <2>1, FS_Interval
    <2>3. QED BY <2>2, AttemptsBound
  <1>2. IsFiniteSet(Clients) /\ Cardinality(Clients) \in Nat
    BY ClientAssumption, FS_CardinalityType
  <1> HIDE DEF R
  <1>3. IsFiniteSet(A) /\ Cardinality(A) = Cardinality(Clients) * Cardinality(R)
    BY <1>1, <1>2, FS_Product
  <1>4. /\ Cardinality(Clients) * Cardinality(R) \in Nat
        /\ Cardinality(Clients) * MaxRetries \in Nat
        /\ Cardinality(Clients) * Cardinality(R) =< Cardinality(Clients) * MaxRetries
    BY <1>1, <1>2, AttemptsBound, ProductGrows
  <1>5. S \in SUBSET A
    BY DEF R
  <1> HIDE DEF A
  <1>6. IsFiniteSet(S) /\ Cardinality(S) =< Cardinality(A)
    BY <1>3, <1>5, FS_Subset
  <1>7. Cardinality(S) \in Nat
    BY <1>6, FS_CardinalityType
  <1>8. QED BY <1>3, <1>4, <1>6, <1>7

(* What over becomes: nothing when the breaker is or was not Open. *)
LEMMA OvershootMoves ==
  ASSUME over \in Nat, NEW n \in Nat, Overshoot(n)
  PROVE  over' = 0 \/ over' = over + n
  BY DEF Overshoot

(* A step that begins no attempt, and after which no more are left. *)
LEMMA FewerLeft ==
  ASSUME LoopInv, Left' \subseteq Left, over' = 0 \/ over' = over
  PROVE  over' \in Nat /\ over' + Cardinality(Left') =< Cardinality(Clients) * MaxRetries
  <1>1. Left \subseteq Clients \X (2 .. Attempts)
    BY DEF Left
  <1>2. IsFiniteSet(Left) /\ Cardinality(Left) \in Nat
    BY <1>1, LeftBounded
  <1> DEFINE T == Left'
  <1> HIDE DEF T
  <1>3. T \in SUBSET Left
    BY DEF T
  <1>4. IsFiniteSet(T) /\ Cardinality(T) =< Cardinality(Left)
    BY <1>2, <1>3, FS_Subset
  <1>5. Cardinality(T) \in Nat
    BY <1>4, FS_CardinalityType
  <1>6. Cardinality(Clients) * MaxRetries \in Nat
    BY ClientAssumption, AttemptsBound, FS_CardinalityType
  <1>7. over' + Cardinality(T) =< Cardinality(Clients) * MaxRetries
    BY <1>2, <1>4, <1>5, <1>6 DEF LoopInv
  <1>8. QED BY <1>7 DEF LoopInv, T

(* Who is at the same place has as many attempts left. *)
LEMMA SameLeft ==
  ASSUME UNCHANGED <<at, tries>>
  PROVE  Left' = Left
  BY DEF Left, Attempts

(* A request that returns, fails or is dropped has no more attempts left. *)
LEMMA ReturnKeeps ==
  ASSUME LoopInv, NEW h \in Clients, Return(h), over' = 0 \/ over' = over
  PROVE  LoopInv'
  <1>1. at' = [at EXCEPT ![h] = "idle"] /\ tries' = [tries EXCEPT ![h] = 0]
    BY DEF Return
  <1>2. Left' \subseteq Left
    BY <1>1 DEF LoopInv, Left, Attempts
  <1>3. Attempts \in Nat
    BY AttemptsBound
  <1>4. QED BY <1>1, <1>2, <1>3, FewerLeft DEF LoopInv, Attempts

LEMMA LoopPreserved == LoopInv /\ [ClientNext]_clientVars => LoopInv'
  <1> SUFFICES ASSUME LoopInv, [ClientNext]_clientVars
               PROVE  LoopInv'
    OBVIOUS
  <1>0. over \in Nat /\ Attempts \in Nat /\ Attempts' = Attempts
    BY AttemptsBound DEF LoopInv, Attempts
  <1>1. ASSUME UNCHANGED <<at, tries>>, over' = 0 \/ over' = over
        PROVE  LoopInv'
    BY <1>0, <1>1, SameLeft, FewerLeft DEF LoopInv
  <1>2. ASSUME NEW h \in Clients, ClientStep(h)
        PROVE  LoopInv'
    <2>1. CASE RequestRejected(h)
      BY <1>0, <1>1, <2>1, OvershootMoves DEF RequestRejected, Touch
    <2>2. CASE RequestAdmitted(h)
      <3>1. cb'.status # "Open"
        BY <2>2 DEF RequestAdmitted, AllowRequest, Touch, Observe
      <3>2. over' = 0
        BY <2>2, <3>1 DEF RequestAdmitted, Touch, Overshoot
      <3>3. Left' \subseteq Clients \X (2 .. Attempts)
        BY <1>0 DEF Left
      <3>4. Cardinality(Left') \in Nat /\ Cardinality(Left') =< Cardinality(Clients) * MaxRetries
        BY <3>3, LeftBounded
      <3>5. over' \in Nat /\ over' + Cardinality(Left') =< Cardinality(Clients) * MaxRetries
        BY <3>2, <3>4
      <3>6. CASE Attempts = 0
        BY <1>0, <2>2, <3>5, <3>6 DEF RequestAdmitted, LoopInv
      <3>7. CASE Attempts # 0
        BY <1>0, <2>2, <3>5, <3>7 DEF RequestAdmitted, LoopInv
      <3>8. QED BY <3>6, <3>7
    <2>3. CASE Response(h)
      <3>1. Overshoot(0) /\ Return(h)
        BY <2>3 DEF Response, Touch
      <3>2. over' = 0 \/ over' = over
        BY <1>0, <3>1, OvershootMoves
      <3>3. QED BY <3>1, <3>2, ReturnKeeps
    <2>4. CASE AttemptError(h)
      <3>1. over' = 0 \/ over' = over
        BY <1>0, <2>4, OvershootMoves DEF AttemptError, Touch
      <3>2. CASE tries[h] >= Attempts
        BY <2>4, <3>1, <3>2, ReturnKeeps DEF AttemptError
      <3>3. CASE ~ (tries[h] >= Attempts)
        <4>1. /\ at[h] = "sending" /\ at' = [at EXCEPT ![h] = "sleeping"]
              /\ UNCHANGED tries /\ tries[h] < Attempts
          BY <1>0, <2>4, <3>3 DEF AttemptError, LoopInv
        <4>2. Left' \subseteq Left
          BY <4>1 DEF LoopInv, Left, Attempts
        <4>3. QED BY <1>0, <3>1, <4>1, <4>2, FewerLeft DEF LoopInv
      <3>4. QED BY <3>2, <3>3
    <2>5. CASE Resend(h)
      <3>1. /\ at[h] = "sleeping" /\ at' = [at EXCEPT ![h] = "sending"]
            /\ tries' = [tries EXCEPT ![h] = @ + 1]
        BY <2>5 DEF Resend
      <3>2. tries[h] \in Nat /\ 1 =< tries[h] /\ tries[h] + 1 =< Attempts
        BY <1>0, <3>1 DEF LoopInv
      <3> DEFINE x == <<h, tries[h] + 1>>
      <3>3. x \in Left
        BY <1>0, <3>1, <3>2 DEF Left
      <3>4. Left' \subseteq Left \ {x}
        BY <1>0, <3>1, <3>2 DEF LoopInv, Left
      <3> HIDE DEF x
      <3>5. IsFiniteSet(Left) /\ Cardinality(Left) \in Nat
        <4>1. Left \subseteq Clients \X (2 .. Attempts)
          BY DEF Left
        <4>2. QED BY <4>1, LeftBounded
      <3>6. IsFiniteSet(Left \ {x}) /\ Cardinality(Left \ {x}) = Cardinality(Left) - 1
        BY <3>3, <3>5, FS_RemoveElement
      <3> DEFINE T == Left'
                 L == Left \ {x}
      <3>7. T \in SUBSET L
        BY <3>4
      <3> HIDE DEF T, L
      <3>8. IsFiniteSet(T) /\ Cardinality(T) =< Cardinality(L)
        <4>1. IsFiniteSet(L)
          BY <3>6 DEF L
        <4>2. QED BY <3>7, <4>1, FS_Subset
      <3>9. Cardinality(T) \in Nat
        BY <3>8, FS_CardinalityType
      <3>10. Cardinality(T) + 1 =< Cardinality(Left)
        BY <3>5, <3>6, <3>8, <3>9 DEF L
      <3>11. over' = 0 \/ over' = over + 1
        BY <1>0, <2>5, OvershootMoves DEF Resend, Touch
      <3>12. Cardinality(Clients) * MaxRetries \in Nat
        BY ClientAssumption, AttemptsBound, FS_CardinalityType
      <3>13. over' \in Nat /\ over' + Cardinality(T) =< Cardinality(Clients) * MaxRetries
        BY <1>0, <3>5, <3>9, <3>10, <3>11, <3>12 DEF LoopInv
      <3>14. over' \in Nat /\ over' + Cardinality(Left') =< Cardinality(Clients) * MaxRetries
        BY <3>13 DEF T
      <3>15. QED BY <1>0, <3>1, <3>2, <3>14 DEF LoopInv
    <2>6. CASE Abandon(h)
      BY <2>6, ReturnKeeps DEF Abandon
    <2>7. QED BY <1>2, <2>1, <2>2, <2>3, <2>4, <2>5, <2>6 DEF ClientStep
  <1>3. CASE Beside
    BY <1>0, <1>1, <1>3, OvershootMoves DEF Beside
  <1>4. CASE UNCHANGED clientVars
    BY <1>1, <1>4 DEF clientVars
  <1>5. QED BY <1>2, <1>3, <1>4 DEF ClientNext

(* LoopInv is an invariant of the requests. *)
THEOREM LoopInvariance == ClientSpec => []LoopInv
  <1>1. ClientInit => LoopInv
    <2> SUFFICES ASSUME ClientInit
                 PROVE  LoopInv
      OBVIOUS
    <2>1. /\ at = [h \in Clients |-> "idle"] /\ tries = [h \in Clients |-> 0] /\ over = 0
      BY DEF ClientInit
    <2>2. Left \subseteq Clients \X (2 .. Attempts)
      BY DEF Left
    <2>3. Cardinality(Left) \in Nat /\ Cardinality(Left) =< Cardinality(Clients) * MaxRetries
      BY <2>2, LeftBounded
    <2>4. QED BY <2>1, <2>3, AttemptsBound DEF LoopInv
  <1>2. QED BY <1>1, LoopPreserved, PTL DEF ClientSpec

(* Every variable keeps its type, those of the callers and those of the     *)
(* requests; neither with_retry nor request counts an attempt past its last.*)
THEOREM TypeCorrectness == ClientSpec => []ClientTypeOK
  <1>1. LoopInv /\ TypeOK => ClientTypeOK
    BY AttemptsBound DEF LoopInv, ClientTypeOK
  <1>2. QED BY <1>1, Invariance, IInvImplies, LoopInvariance, PTL

(* A step that takes a request out of "idle" admits it. *)
LEMMA RequestAdmittedAt ==
  ASSUME LoopInv, [ClientNext]_clientVars, NEW h \in Clients, at[h] = "idle", at'[h] # "idle"
  PROVE  RequestAdmitted(h)
  <1>1. ASSUME NEW g \in Clients, ClientStep(g)
        PROVE  RequestAdmitted(h)
    <2>1. CASE g = h
      BY <1>1, <2>1 DEF ClientStep, RequestRejected, Response, AttemptError, Resend, Abandon
    <2>2. CASE g # h
      BY <1>1, <2>2 DEF ClientStep, RequestRejected, RequestAdmitted, Response,
                        AttemptError, Resend, Abandon, Return, LoopInv
    <2>3. QED BY <2>1, <2>2
  <1>2. ~ Beside /\ ~ UNCHANGED clientVars
    BY DEF Beside, clientVars
  <1>3. QED BY <1>1, <1>2 DEF ClientNext

(* After a trip neither a caller of the wrappers nor a request of an HTTP    *)
(* client is admitted for open_duration_secs.                                *)
THEOREM CoolDownCorrect == ClientSpec => CoolsDown
  <1> DEFINE Cool == \A h \in Clients :
                       at[h] = "idle" /\ at'[h] # "idle"
                         => tripAge = NoFailure \/ tripAge >= OpenDuration
  <1>1. ASSUME IInv, LoopInv, [ClientNext]_clientVars
        PROVE  Cool
    <2> SUFFICES ASSUME NEW h \in Clients, at[h] = "idle", at'[h] # "idle"
                 PROVE  tripAge = NoFailure \/ tripAge >= OpenDuration
      OBVIOUS
    <2>1. AllowRequest(cb)
      BY <1>1, RequestAdmittedAt DEF RequestAdmitted
    <2>2. CASE cb.status = "Open"
      BY <1>1, <2>1, <2>2, BreakerConfigAssumption
      DEF AllowRequest, MaybeTransitionHalfOpen, IInv, Core, History,
          BreakerInv, InternalState, ElapsedSecs, NoFailure
    <2>3. CASE cb.status = "HalfOpen"
      BY <1>1, <2>3 DEF IInv, Core, History
    <2>4. CASE cb.status = "Closed"
      BY <1>1, <2>4 DEF IInv, Core, History
    <2>5. QED
      BY <1>1, <2>2, <2>3, <2>4 DEF IInv, Core, BreakerInv, InternalState, CircuitState
  <1>2. IInv /\ LoopInv /\ [ClientNext]_clientVars => [Cool]_clientVars
    BY <1>1
  <1>3. QED
    BY <1>2, Invariance, LoopInvariance, CallersCoolDown, PTL DEF ClientSpec, CoolsDown

(* However many clients share the breaker and however often it trips, at     *)
(* most max_retries attempts of each request under way are sent while it     *)
(* stays Open: request asks the breaker once, before its retry loop.         *)
THEOREM OvershootCorrect == ClientSpec => []OvershootBounded
  <1>1. LoopInv => OvershootBounded
    <2> SUFFICES ASSUME LoopInv
                 PROVE  OvershootBounded
      OBVIOUS
    <2>1. Left \subseteq Clients \X (2 .. Attempts)
      BY DEF Left
    <2>2. Cardinality(Left) \in Nat
      BY <2>1, LeftBounded
    <2>3. Cardinality(Clients) * MaxRetries \in Nat
      BY ClientAssumption, AttemptsBound, FS_CardinalityType
    <2>4. QED BY <2>2, <2>3 DEF LoopInv, OvershootBounded
  <1>2. QED BY <1>1, LoopInvariance, PTL

-----------------------------------------------------------------------------
(* The delays of the retry policy.  The provers know nothing of powers; that  *)
(* a set of n elements has 2^n subsets tells them what is needed here.        *)

(* Powers of two are positive and grow with their exponent.                   *)
LEMMA PowersGrow ==
  ASSUME NEW n \in Nat, NEW m \in Nat, n =< m
  PROVE  /\ 2 ^ n \in Nat /\ 2 ^ m \in Nat
         /\ 1 =< 2 ^ n /\ 2 ^ n =< 2 ^ m
  <1>1. /\ IsFiniteSet(1 .. n) /\ Cardinality(1 .. n) = n
        /\ IsFiniteSet(1 .. m) /\ Cardinality(1 .. m) = m
    BY FS_Interval
  <1>2. IsFiniteSet(SUBSET (1 .. n)) /\ Cardinality(SUBSET (1 .. n)) = 2 ^ n
    BY <1>1, FS_SUBSET, Zenon
  <1>3. IsFiniteSet(SUBSET (1 .. m)) /\ Cardinality(SUBSET (1 .. m)) = 2 ^ m
    BY <1>1, FS_SUBSET, Zenon
  <1>4. SUBSET (1 .. n) \in SUBSET (SUBSET (1 .. m))
    OBVIOUS
  <1>5. Cardinality(SUBSET (1 .. n)) =< Cardinality(SUBSET (1 .. m))
    BY <1>3, <1>4, FS_Subset
  <1>6. Cardinality(SUBSET (1 .. n)) \in Nat /\ Cardinality(SUBSET (1 .. m)) \in Nat
    BY <1>2, <1>3, FS_CardinalityType
  <1>7. Cardinality(SUBSET (1 .. n)) # 0
    BY <1>2, FS_EmptySet
  <1>8. \A k \in Nat : k # 0 => 1 =< k
    OBVIOUS
  <1>9. 1 =< Cardinality(SUBSET (1 .. n))
    BY <1>6, <1>7, <1>8
  <1>10. QED BY <1>2, <1>3, <1>5, <1>6, <1>9

(* A product is no less than a factor whose other factor is positive.         *)
LEMMA ProductAtLeast ==
  ASSUME NEW a \in Nat, NEW b \in Nat, NEW k \in Nat, 1 =< a, k =< b
  PROVE  a * b \in Nat /\ k =< a * b
  <1>1. a - 1 \in Nat /\ (a - 1) * b >= 0
    OBVIOUS
  <1>2. a * b = (a - 1) * b + b
    OBVIOUS
  <1>3. QED BY <1>1, <1>2

(* A multiplier that does not fit is the greatest u64: with any base but zero *)
(* the cap decides, as it does for the true product.                          *)
LEMMA DelayExact ==
  ASSUME NEW n \in Nat, NEW base \in U64, NEW max \in U64
  PROVE  DelayForAttempt(base, max, n) = Capped(base * 2 ^ n, max)
  <1> DEFINE top == 2 ^ Width
             power == 2 ^ n
  <1>1. Width \in Nat
    BY WidthAssumption
  <1>2. top \in Nat /\ 1 =< top /\ power \in Nat /\ 1 =< power
    BY <1>1, PowersGrow
  <1>3. U64Max = top - 1 /\ base \in Nat /\ max \in Nat /\ base < top /\ max < top
    BY <1>2 DEF U64, U64Max
  <1>4. ~ (n < Width) => top =< power
    BY <1>1, PowersGrow
  <1> HIDE DEF top, power
  <1>5. base * power \in Nat
    BY <1>2, <1>3
  <1>6. CASE n < Width
    <2>1. DelayForAttempt(base, max, n) = Capped(Capped(base * power, top - 1), max)
      BY <1>3, <1>6 DEF DelayForAttempt, SaturatingMul, Multiplier, power
    <2>2. QED BY <1>2, <1>3, <1>5, <2>1 DEF Capped, power
  <1>7. CASE ~ (n < Width)
    <2>1. DelayForAttempt(base, max, n) = Capped(Capped(base * (top - 1), top - 1), max)
      BY <1>3, <1>7 DEF DelayForAttempt, SaturatingMul, Multiplier
    <2>2. CASE base = 0
      <3>1. base * (top - 1) = 0 /\ base * power = 0
        BY <1>2, <2>2
      <3>2. QED BY <1>2, <1>3, <2>1, <3>1 DEF Capped, power
    <2>3. CASE base # 0
      <3>1. 1 =< base /\ top - 1 \in Nat
        BY <1>2, <1>3, <2>3
      <3>2. base * (top - 1) \in Nat /\ top - 1 =< base * (top - 1)
        BY <1>3, <3>1, ProductAtLeast
      <3>3. top =< base * power
        BY <1>2, <1>3, <1>4, <1>7, <3>1, ProductAtLeast
      <3>4. DelayForAttempt(base, max, n) = max
        BY <1>2, <1>3, <2>1, <3>2 DEF Capped
      <3>5. Capped(base * power, max) = max
        BY <1>2, <1>3, <1>5, <3>3 DEF Capped
      <3>6. QED BY <3>4, <3>5 DEF power
    <2>4. QED BY <2>2, <2>3
  <1>8. QED BY <1>6, <1>7

(* At every retry and for every base, cap and width of the word, the delay is *)
(* the documented one: the shift and the product that overflow included.      *)
THEOREM DelayCorrect == ClientSpec => []DelayMatchesFormula
  <1>1. IInv => DelayMatchesFormula
    <2> SUFFICES ASSUME IInv, NEW c \in Callers, pc[c] = "sleeping",
                        NEW base \in U64, NEW max \in U64
                 PROVE  DelayForAttempt(base, max, attempt[c] - 1)
                          = Capped(base * 2 ^ (attempt[c] - 1), max)
      BY DEF DelayMatchesFormula
    <2>1. attempt[c] - 1 \in Nat
      BY CallAssumption DEF IInv, Control, Locations, InFlight
    <2>2. QED BY <2>1, DelayExact
  <1>2. QED BY Invariance, <1>1, PTL
=============================================================================
