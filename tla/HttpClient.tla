----------------------------- MODULE HttpClient -----------------------------
(***************************************************************************)
(* ReqwestHttpClient::request of rinfra-plugins/src/http_client/           *)
(* reqwest_client.rs, by several tasks that share one client, and its      *)
(* circuit breaker with the tasks of ResilientCall (with_circuit_breaker   *)
(* takes an Arc).  Unlike with_retry_and_breaker it asks the breaker once, *)
(* before its retry loop, and reports every attempt.                       *)
(***************************************************************************)
EXTENDS ResilientCall

CONSTANTS
  Clients,        \* the tasks that send requests
  MaxRetries,     \* HttpClientConfig.max_retries
  U32             \* the number of values of its type, 2^32

ASSUME ClientAssumption ==
  /\ IsFiniteSet(Clients)
  /\ U32 \in Nat \ {0} /\ MaxRetries \in 0 .. (U32 - 1)

VARIABLES
  at,        \* "idle"; "sending": an attempt is under way; "sleeping": before
             \*   a retry; "panicked"
  tries,     \* attempts begun by the request
  over       \* history: attempts begun since the breaker last went to Open

clientVars == <<vars, at, tries, over>>

(* max_retries + 1 in u32, as a release build computes it. *)
Attempts == (MaxRetries + 1) % U32

ClientInit ==
  /\ Init
  /\ at = [h \in Clients |-> "idle"]
  /\ tries = [h \in Clients |-> 0]
  /\ over = 0

(* n more attempts begin while the breaker goes from cb to cb'. *)
Overshoot(n) ==
  over' = IF cb'.status # "Open" \/ cb.status # "Open" THEN 0 ELSE over + n

(* A step of a request that takes the breaker to s. *)
Touch(s, ok, fail, n) ==
  Observe(s, ok, fail) /\ Overshoot(n) /\ UNCHANGED <<pc, attempt>>

Return(h) ==
  /\ at' = [at EXCEPT ![h] = "idle"]
  /\ tries' = [tries EXCEPT ![h] = 0]

RequestRejected(h) ==
  /\ at[h] = "idle"
  /\ ~ AllowRequest(cb)
  /\ Touch(MaybeTransitionHalfOpen(cb), FALSE, FALSE, 0)
  /\ UNCHANGED <<at, tries>>

(* Without a turn of the loop, expect finds None. *)
RequestAdmitted(h) ==
  /\ at[h] = "idle"
  /\ AllowRequest(cb)
  /\ Touch(MaybeTransitionHalfOpen(cb), FALSE, FALSE, 1)
  /\ IF Attempts = 0
       THEN at' = [at EXCEPT ![h] = "panicked"] /\ UNCHANGED tries
       ELSE /\ at' = [at EXCEPT ![h] = "sending"]
            /\ tries' = [tries EXCEPT ![h] = 1]

(* do_request returned a response: 2xx, 5xx, or neither. *)
Response(h) ==
  /\ at[h] = "sending"
  /\ \/ Touch(RecordSuccess(cb), TRUE, FALSE, 0)
     \/ Touch(RecordFailure(cb), FALSE, TRUE, 0)
     \/ Touch(cb, FALSE, FALSE, 0)
  /\ Return(h)

(* do_request returned Err: timed out, not sent, or the body was cut off. *)
AttemptError(h) ==
  /\ at[h] = "sending"
  /\ Touch(RecordFailure(cb), FALSE, TRUE, 0)
  /\ IF tries[h] >= Attempts
       THEN Return(h)
       ELSE at' = [at EXCEPT ![h] = "sleeping"] /\ UNCHANGED tries

(* Defect: the attempt is not counted. *)
ResendUncounted(h) ==
  /\ at[h] = "sleeping"
  /\ Touch(cb, FALSE, FALSE, 1)
  /\ at' = [at EXCEPT ![h] = "sending"]
  /\ UNCHANGED tries

(* retry_delay is over; the breaker is not asked. *)
Resend(h) ==
  /\ at[h] = "sleeping"
  /\ Touch(cb, FALSE, FALSE, 1)
  /\ at' = [at EXCEPT ![h] = "sending"]
  /\ tries' = [tries EXCEPT ![h] = @ + 1]

(* The caller drops the future. *)
Abandon(h) ==
  /\ at[h] \in {"sending", "sleeping"}
  /\ Return(h)
  /\ UNCHANGED <<vars, over>>

ClientStep(h) ==
  \/ RequestRejected(h) \/ RequestAdmitted(h) \/ Response(h)
  \/ AttemptError(h) \/ Resend(h) \/ Abandon(h)

(* A step of ResilientCall beside the requests. *)
Beside == Overshoot(0) /\ UNCHANGED <<at, tries>>

ClientNext ==
  \/ \E h \in Clients : ClientStep(h)
  \/ \E c \in Callers : Step(c) /\ Beside
  \/ (ForceReset \/ Tick) /\ Beside

(* Time passes, tasks keep calling, and an attempt ends by the client's      *)
(* timeout at the latest.                                                    *)
ClientFairness ==
  /\ Fairness
  /\ \A h \in Clients :
       /\ WF_clientVars(RequestRejected(h) \/ RequestAdmitted(h))
       /\ WF_clientVars(Response(h) \/ AttemptError(h))
       /\ WF_clientVars(Resend(h))

ClientSpec == ClientInit /\ [][ClientNext]_clientVars /\ ClientFairness

-----------------------------------------------------------------------------
(* Properties *)

(* The type of every variable. *)
ClientTypeOK ==
  /\ TypeOK
  /\ at \in [Clients -> {"idle", "sending", "sleeping", "panicked"}]
  /\ tries \in [Clients -> 0 .. MaxRetries + 1]
  /\ over \in Nat

(* A tripped breaker lets through no more than the retries of the requests   *)
(* that were under way: at most max_retries for each of them.                *)
OvershootBounded == over =< Cardinality(Clients) * MaxRetries

(* "How long to stay Open": after a trip neither a caller nor a request is    *)
(* admitted until open_duration_secs have passed, whichever late reports of   *)
(* either, rejections and reads of the state happen in between.               *)
CoolsDown ==
  /\ CoolsDownAfterTrip
  /\ [][\A h \in Clients :
         at[h] = "idle" /\ at'[h] # "idle"
           => tripAge = NoFailure \/ tripAge >= OpenDuration]_clientVars

(* Not kept by the code - "Failures exceeded threshold - requests are        *)
(* rejected": nothing is sent while the breaker is Open.                     *)
OpenSendsNothing ==
  [][\A h \in Clients :
       at[h] # "sending" /\ at'[h] = "sending" => cb'.status # "Open"]_clientVars

(* Not kept by the code - "retry loop executed at least once". *)
LoopExecuted == \A h \in Clients : at[h] # "panicked"
=============================================================================
