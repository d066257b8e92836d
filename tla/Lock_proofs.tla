----------------------------- MODULE Lock_proofs -----------------------------
(***************************************************************************)
(* The two backends of DistributedLock, for every number of clients, keys  *)
(* and tokens and every time to live.  First InMemoryLock alone: no two    *)
(* clients keep handles with the same token, so a release or an extend can *)
(* only reach the entry its own client was granted.  Then both backends: a *)
(* lease is honoured although answers of the Redis server are late or      *)
(* lost, and both implement what the trait promises, the specification     *)
(* LeaseLock.                                                              *)
(*                                                                         *)
(* The invariant of RedisLock adds the answers on their way to that of     *)
(* InMemoryLock: what an answer will tell its client about time left is    *)
(* still true of the server's entry, and no two clients' handles or        *)
(* answers share a token.                                                  *)
(***************************************************************************)
EXTENDS RedisLock, TLAPS

-----------------------------------------------------------------------------
(* InMemoryLock *)

TokensUnique ==
  \A c, d \in Clients :
    c # d /\ handle[c].token = handle[d].token => handle[c].token = NoToken

IInv == TypeOK /\ LeaseHonoured /\ TokensUnique

(* A duration counted down stays a duration. *)
LEMMA LessFacts ==
  ASSUME NEW bound \in Nat, NEW n \in 0 .. bound
  PROVE  /\ Less(n) \in 0 .. bound
         /\ Less(n) > 0 => n > 0
         /\ \A m \in Nat : m >= n => Less(m) >= Less(n)
  BY DEF Less

(* The choice of AnyKey is a key. *)
LEMMA AnyKeyFact == AnyKey \in Keys
  BY LockAssumption DEF AnyKey

(* The invariant holds at the start. *)
LEMMA InitIInv == Init => IInv
  BY LockAssumption, AnyKeyFact
  DEF Init, IInv, TypeOK, LeaseHonoured, TokensUnique, NoEntry, NoHandle, NoCall,
      Ttls, Locations

(* What a successful try_acquire does to the entries and the handles: it     *)
(* takes no live entry away and its token is new.                            *)
LEMMA GrantStep ==
  ASSUME IInv, NEW c \in Clients, NEW k \in Keys, NEW secs \in Ttls,
         Grant(c, k, secs)
  PROVE  /\ locks' \in [Keys -> [token : Tokens \cup {NoToken}, left : Ttls]]
         /\ handle' \in [Clients -> [key : Keys, token : Tokens \cup {NoToken},
                                     lease : Ttls]]
         /\ LeaseHonoured'
         /\ TokensUnique'
  <1> USE LockAssumption
  <1> PICK t \in Tokens :
        /\ Free(k) /\ Unused(t)
        /\ locks' = [locks EXCEPT ![k] = [token |-> t, left |-> secs]]
        /\ handle' = [handle EXCEPT ![c] = [key |-> k, token |-> t, lease |-> secs]]
    BY DEF Grant, Unused
  <1>1. locks' \in [Keys -> [token : Tokens \cup {NoToken}, left : Ttls]]
    BY DEF IInv, TypeOK
  <1>2. handle' \in [Clients -> [key : Keys, token : Tokens \cup {NoToken}, lease : Ttls]]
    BY DEF IInv, TypeOK
  <1>3. ASSUME NEW d \in Clients, handle'[d].lease > 0
        PROVE  Matches(d)' /\ locks'[handle'[d].key].left >= handle'[d].lease
    <2>1. CASE d = c
      BY <1>3, <2>1 DEF IInv, TypeOK, Matches, Ttls
    <2>2. CASE d # c
      <3>1. handle'[d] = handle[d] /\ handle[d].lease > 0
        BY <1>3, <2>2 DEF IInv, TypeOK
      <3>2. Matches(d) /\ locks[handle[d].key].left >= handle[d].lease
        BY <3>1 DEF IInv, LeaseHonoured
      <3>3. handle[d].key # k
        BY <3>1, <3>2 DEF Free, Matches, IInv, TypeOK, Ttls
      <3>4. locks'[handle[d].key] = locks[handle[d].key]
        BY <3>3 DEF IInv, TypeOK
      <3>5. QED BY <3>1, <3>2, <3>4 DEF Matches
    <2>3. QED BY <2>1, <2>2
  <1>4. TokensUnique'
    <2> SUFFICES ASSUME NEW d \in Clients, NEW e \in Clients, d # e,
                        handle'[d].token = handle'[e].token
                 PROVE  handle'[d].token = NoToken
      BY DEF TokensUnique
    <2>1. CASE d = c \/ e = c
      BY <2>1 DEF Unused, IInv, TypeOK
    <2>2. CASE d # c /\ e # c
      BY <2>2 DEF IInv, TypeOK, TokensUnique
    <2>3. QED BY <2>1, <2>2
  <1>5. QED BY <1>1, <1>2, <1>3, <1>4 DEF LeaseHonoured

(* A release or an extend reaches no lease but its own client's. *)
LEMMA OthersUntouched ==
  ASSUME IInv, NEW c \in Clients, Matches(c), NEW d \in Clients, d # c,
         handle[d].lease > 0
  PROVE  handle[d].key # handle[c].key
  BY DEF IInv, LeaseHonoured, TokensUnique, Matches

(* release *)
LEMMA ReleaseStep ==
  ASSUME IInv, NEW c \in Clients, Release(c)
  PROVE  IInv'
  <1> USE LockAssumption
  <1>1. Matches(c) /\ handle[c].key \in Keys
    BY DEF Release, IInv, TypeOK
  <1>2. /\ locks' = [locks EXCEPT ![handle[c].key] = NoEntry]
        /\ handle' = [handle EXCEPT ![c].lease = 0]
    BY DEF Release
  <1>3. TypeOK'
    <2>1. locks' \in [Keys -> [token : Tokens \cup {NoToken}, left : Ttls]]
      BY <1>2 DEF IInv, TypeOK, NoEntry, Ttls
    <2>2. handle' \in [Clients -> [key : Keys, token : Tokens \cup {NoToken}, lease : Ttls]]
      BY <1>2 DEF IInv, TypeOK, Ttls
    <2>3. call' \in [Clients -> [at : Locations, key : Keys, ttl : Ttls,
                                 left : 0 .. MaxWait]]
      BY DEF Release, NotifyWaiters, IInv, TypeOK, Locations
    <2>4. QED BY <2>1, <2>2, <2>3 DEF TypeOK
  <1>4. ASSUME NEW d \in Clients, handle'[d].lease > 0
        PROVE  Matches(d)' /\ locks'[handle'[d].key].left >= handle'[d].lease
    <2>1. d # c
      BY <1>2, <1>4 DEF IInv, TypeOK
    <2>2. handle'[d] = handle[d]
      BY <1>2, <2>1 DEF IInv, TypeOK
    <2>3. handle[d].key # handle[c].key
      BY <1>1, <1>4, <2>1, <2>2, OthersUntouched
    <2>4. locks'[handle[d].key] = locks[handle[d].key]
      BY <1>2, <2>3 DEF IInv, TypeOK
    <2>5. QED BY <1>4, <2>2, <2>4 DEF IInv, LeaseHonoured, Matches
  <1>5. TokensUnique'
    BY <1>2 DEF IInv, TypeOK, TokensUnique
  <1>6. QED BY <1>3, <1>4, <1>5 DEF IInv, LeaseHonoured

(* extend *)
LEMMA ExtendStep ==
  ASSUME IInv, NEW c \in Clients, Extend(c)
  PROVE  IInv'
  <1> USE LockAssumption
  <1>1. Matches(c) /\ handle[c].key \in Keys
    BY DEF Extend, IInv, TypeOK
  <1>2. PICK secs \in Ttls :
          /\ locks' = [locks EXCEPT ![handle[c].key].left = secs]
          /\ handle' = [handle EXCEPT ![c].lease = secs]
    BY DEF Extend
  <1>3. TypeOK'
    <2>1. locks' \in [Keys -> [token : Tokens \cup {NoToken}, left : Ttls]]
      BY <1>1, <1>2 DEF IInv, TypeOK
    <2>2. handle' \in [Clients -> [key : Keys, token : Tokens \cup {NoToken}, lease : Ttls]]
      BY <1>2 DEF IInv, TypeOK
    <2>3. QED BY <2>1, <2>2 DEF Extend, IInv, TypeOK
  <1>4. ASSUME NEW d \in Clients, handle'[d].lease > 0
        PROVE  Matches(d)' /\ locks'[handle'[d].key].left >= handle'[d].lease
    <2>1. CASE d = c
      <3>1. handle'[c].key = handle[c].key /\ handle'[c].token = handle[c].token
              /\ handle'[c].lease = secs
        BY <1>2 DEF IInv, TypeOK
      <3>2. locks'[handle[c].key].token = locks[handle[c].key].token
              /\ locks'[handle[c].key].left = secs
        BY <1>1, <1>2 DEF IInv, TypeOK
      <3>3. secs >= secs
        BY DEF Ttls
      <3>4. QED BY <1>1, <2>1, <3>1, <3>2, <3>3 DEF Matches
    <2>2. CASE d # c
      <3>1. handle'[d] = handle[d]
        BY <1>2, <2>2 DEF IInv, TypeOK
      <3>2. handle[d].key # handle[c].key
        BY <1>1, <1>4, <2>2, <3>1, OthersUntouched
      <3>3. locks'[handle[d].key] = locks[handle[d].key]
        BY <1>2, <3>2 DEF IInv, TypeOK
      <3>4. QED BY <1>4, <3>1, <3>3 DEF IInv, LeaseHonoured, Matches
    <2>3. QED BY <2>1, <2>2
  <1>5. TokensUnique'
    BY <1>2 DEF IInv, TypeOK, TokensUnique
  <1>6. QED BY <1>3, <1>4, <1>5 DEF IInv, LeaseHonoured

(* A second passes. *)
LEMMA TickStep ==
  ASSUME IInv, Tick
  PROVE  IInv'
  <1> USE LockAssumption
  <1>1. TypeOK'
    <2> DEFINE Waits == 0 .. MaxWait
    <2>0. (\A n \in Ttls : Less(n) \in Ttls) /\ (\A n \in Waits : Less(n) \in Waits)
      BY DEF Less, Ttls
    <2>a. call \in [Clients -> [at : Locations, key : Keys, ttl : Ttls, left : Waits]]
      BY DEF IInv, TypeOK
    <2> HIDE DEF Waits
    <2>1. locks' \in [Keys -> [token : Tokens \cup {NoToken}, left : Ttls]]
      BY <2>0 DEF Tick, IInv, TypeOK
    <2>2. handle' \in [Clients -> [key : Keys, token : Tokens \cup {NoToken}, lease : Ttls]]
      BY <2>0 DEF Tick, IInv, TypeOK
    <2>3. call' \in [Clients -> [at : Locations, key : Keys, ttl : Ttls, left : Waits]]
      BY <2>0, <2>a DEF Tick
    <2>4. QED BY <2>1, <2>2, <2>3 DEF TypeOK, Waits
  <1>2. \A c \in Clients :
          /\ handle'[c].key = handle[c].key /\ handle'[c].token = handle[c].token
          /\ handle'[c].lease = Less(handle[c].lease)
    BY DEF Tick, IInv, TypeOK
  <1>3. \A k \in Keys :
          locks'[k].token = locks[k].token /\ locks'[k].left = Less(locks[k].left)
    BY DEF Tick, IInv, TypeOK
  <1>4. ASSUME NEW d \in Clients, handle'[d].lease > 0
        PROVE  Matches(d)' /\ locks'[handle'[d].key].left >= handle'[d].lease
    <2>1. handle[d].lease \in 0 .. MaxTtl /\ handle[d].key \in Keys
            /\ locks[handle[d].key].left \in Nat
      BY DEF IInv, TypeOK, Ttls
    <2>2. handle[d].lease > 0
      BY <1>2, <1>4, <2>1, LessFacts
    <2>3. Matches(d) /\ locks[handle[d].key].left >= handle[d].lease
      BY <2>2 DEF IInv, LeaseHonoured
    <2>4. Less(locks[handle[d].key].left) >= Less(handle[d].lease)
      BY <2>1, <2>3, LessFacts
    <2>5. QED BY <1>2, <1>3, <2>1, <2>3, <2>4 DEF Matches
  <1>5. TokensUnique'
    BY <1>2 DEF IInv, TokensUnique
  <1>6. QED BY <1>1, <1>4, <1>5 DEF IInv, LeaseHonoured

(* Every step keeps the invariant. *)
LEMMA NextIInv == IInv /\ [Next]_vars => IInv'
  <1> SUFFICES ASSUME IInv, [Next]_vars
               PROVE  IInv'
    OBVIOUS
  <1> USE LockAssumption
  <1>1. ASSUME NEW c \in Clients, TryAcquire(c)
        PROVE  IInv'
    <2> PICK k \in Keys, secs \in Ttls : Grant(c, k, secs)
      BY <1>1 DEF TryAcquire
    <2> QED BY <1>1, GrantStep DEF TryAcquire, IInv, TypeOK
  <1>2. ASSUME NEW c \in Clients, AcquireGranted(c)
        PROVE  IInv'
    <2>1. call[c].key \in Keys /\ call[c].ttl \in Ttls
      BY DEF IInv, TypeOK
    <2>2. call' \in [Clients -> [at : Locations, key : Keys, ttl : Ttls,
                                 left : 0 .. MaxWait]]
      BY <1>2, AnyKeyFact
      DEF AcquireGranted, IInv, TypeOK, NoCall, Locations, Ttls
    <2>3. QED BY <1>2, <2>1, <2>2, GrantStep DEF AcquireGranted, IInv, TypeOK
  <1>3. ASSUME NEW c \in Clients,
               AcquireBegin(c) \/ AcquireRefused(c) \/ AcquireTimedOut(c)
                 \/ AcquireWait(c) \/ WakeAtDeadline(c)
        PROVE  IInv'
    <2>1. locks' = locks /\ handle' = handle
      BY <1>3 DEF AcquireBegin, AcquireRefused, AcquireTimedOut, AcquireWait,
                  WakeAtDeadline
    <2> DEFINE Calls == [at : Locations, key : Keys, ttl : Ttls, left : 0 .. MaxWait]
    <2>2. call \in [Clients -> Calls]
      BY DEF IInv, TypeOK
    <2>3. NoCall \in Calls
      BY AnyKeyFact DEF NoCall, Locations, Ttls
    <2> HIDE DEF Calls
    <2>4. call' \in [Clients -> Calls]
      <3>1. CASE AcquireBegin(c)
        <4>1. PICK k \in Keys, secs \in Ttls, wait \in 0 .. MaxWait :
                call' = [call EXCEPT ![c] = [at |-> "trying", key |-> k,
                                             ttl |-> secs, left |-> wait]]
          BY <3>1 DEF AcquireBegin
        <4>2. [at |-> "trying", key |-> k, ttl |-> secs, left |-> wait] \in Calls
          BY DEF Calls, Locations
        <4>3. QED BY <2>2, <4>1, <4>2
      <3>2. CASE AcquireRefused(c) \/ AcquireWait(c) \/ WakeAtDeadline(c)
        <4>1. PICK at \in Locations : call' = [call EXCEPT ![c].at = at]
          BY <3>2 DEF AcquireRefused, AcquireWait, WakeAtDeadline, Locations
        <4>2. [call[c] EXCEPT !.at = at] \in Calls
          BY <2>2 DEF Calls
        <4>3. QED BY <2>2, <4>1, <4>2
      <3>3. CASE AcquireTimedOut(c)
        BY <2>2, <2>3, <3>3 DEF AcquireTimedOut
      <3>4. QED BY <1>3, <3>1, <3>2, <3>3
    <2>5. QED BY <2>1, <2>4 DEF Calls, IInv, TypeOK, LeaseHonoured, TokensUnique, Matches
  <1>4. ASSUME NEW c \in Clients, ReleaseLate(c)
        PROVE  IInv'
    <2>1. handle' = [handle EXCEPT ![c].lease = 0] /\ locks' = locks /\ call' = call
      BY <1>4 DEF ReleaseLate
    <2>2. 0 \in Ttls
      BY DEF Ttls
    <2>3. TypeOK'
      BY <2>1, <2>2 DEF IInv, TypeOK
    <2>4. \A d \in Clients :
            /\ handle'[d].key = handle[d].key /\ handle'[d].token = handle[d].token
            /\ handle'[d].lease = IF d = c THEN 0 ELSE handle[d].lease
      BY <2>1 DEF IInv, TypeOK
    <2>5. QED BY <2>1, <2>3, <2>4 DEF IInv, LeaseHonoured, TokensUnique, Matches
  <1>5. CASE Tick
    BY <1>5, TickStep
  <1>6. CASE UNCHANGED vars
    BY <1>6 DEF vars, IInv, TypeOK, LeaseHonoured, TokensUnique, Matches
  <1>7. QED
    BY <1>1, <1>2, <1>3, <1>4, <1>5, <1>6, ReleaseStep, ExtendStep DEF Next, Step

(* Two clients with time left on the same key would own the same entry,     *)
(* hence the same token.                                                     *)
LEMMA IInvExcludes == IInv => MutualExclusion
  BY DEF IInv, LeaseHonoured, TokensUnique, MutualExclusion, Matches

(* The invariant holds in every reachable state. *)
THEOREM Invariance == Spec => []IInv
  BY InitIInv, NextIInv, PTL DEF Spec

(* Every variable keeps its type. *)
THEOREM TypeCorrectness == Spec => []TypeOK
  BY Invariance, PTL DEF IInv

(* Until its time to live is over a client that has not released the lock    *)
(* owns the entry, whatever stale handles other clients present.             *)
THEOREM LeaseCorrect == Spec => []LeaseHonoured
  BY Invariance, PTL DEF IInv

(* At most one client at a time may believe that it holds a key.             *)
THEOREM MutualExclusionCorrect == Spec => []MutualExclusion
  BY Invariance, IInvExcludes, PTL

-----------------------------------------------------------------------------
(* RedisLock: either backend *)

AnswerType ==
  [st : {"none", "granted", "refused", "extended", "lost"}, key : Keys,
   token : Tokens \cup {NoToken}, left : Ttls]

HandleType == [key : Keys, token : Tokens \cup {NoToken}, lease : Ttls]

EntryType == [token : Tokens \cup {NoToken}, left : Ttls]

CallType == [at : Locations, key : Keys, ttl : Ttls, left : 0 .. MaxWait]

(* An answer that promises time is backed by the entry it is about. *)
AnswersHonoured ==
  \A c \in Clients :
    answer[c].left > 0 =>
      /\ answer[c].st \in {"granted", "extended"}
      /\ answer[c].token # NoToken
      /\ locks[answer[c].key].token = answer[c].token
      /\ locks[answer[c].key].left >= answer[c].left

(* Nobody else's handle or answer carries the token of an answer. *)
AnswersUnique ==
  \A c, d \in Clients :
    c # d /\ answer[c].token \in {answer[d].token, handle[d].token}
      => answer[c].token = NoToken

(* The answer to an extend is about the handle its client keeps. *)
ExtendsOwn ==
  \A c \in Clients :
    answer[c].st \in {"extended", "lost"} =>
      answer[c].key = handle[c].key /\ answer[c].token = handle[c].token

(* What the server, the handles and the answers have to do with each other. *)
RData ==
  /\ locks \in [Keys -> EntryType]
  /\ handle \in [Clients -> HandleType]
  /\ answer \in [Clients -> AnswerType]
  /\ LeaseHonoured /\ TokensUnique
  /\ AnswersHonoured /\ AnswersUnique /\ ExtendsOwn

RInv ==
  /\ RData
  /\ call \in [Clients -> CallType]
  /\ backend \in {"memory", "redis"}
  /\ backend = "memory" => answer = [c \in Clients |-> NoAnswer]

(* The invariant contains that of InMemoryLock. *)
LEMMA RInvImpliesIInv == RInv => IInv
  BY DEF RInv, RData, IInv, TypeOK, EntryType, HandleType, CallType

(* A client that waits for no answer. *)
LEMMA NoAnswerFact == NoAnswer \in AnswerType
  BY LockAssumption, AnyKeyFact DEF NoAnswer, AnswerType, Ttls

(* Without answers on their way, the invariant of InMemoryLock is enough. *)
LEMMA QuietRInv ==
  ASSUME IInv, backend \in {"memory", "redis"}, answer = [c \in Clients |-> NoAnswer]
  PROVE  RInv
  <1>1. answer \in [Clients -> AnswerType]
    BY NoAnswerFact
  <1>2. \A c \in Clients :
          answer[c].st = "none" /\ answer[c].token = NoToken /\ answer[c].left = 0
    BY DEF NoAnswer
  <1>3. AnswersHonoured /\ AnswersUnique /\ ExtendsOwn
    BY <1>2 DEF AnswersHonoured, AnswersUnique, ExtendsOwn
  <1>4. QED
    BY <1>1, <1>3 DEF RInv, RData, IInv, TypeOK, EntryType, HandleType, CallType

(* SET NX PX that takes effect: a live entry of another client is not free,   *)
(* and the token is new to every handle and every answer.                     *)
LEMMA SetStep ==
  ASSUME RData, NEW c \in Clients, NEW k \in Keys, NEW secs \in Ttls, NEW t \in Tokens,
         Free(k), Fresh(t), Set(k, t, secs), Answers(c, "granted", k, t, secs),
         handle' = handle
  PROVE  RData'
  <1> USE LockAssumption
  <1> DEFINE new == [st |-> "granted", key |-> k, token |-> t, left |-> secs]
  <1>1. locks' = [locks EXCEPT ![k] = [token |-> t, left |-> secs]]
    BY DEF Set
  <1>2. answer' = [answer EXCEPT ![c] = new]
    BY DEF Answers
  <1>3. locks' \in [Keys -> EntryType]
    BY <1>1 DEF RData, EntryType
  <1>4. new \in AnswerType
    BY DEF AnswerType
  <1>5. answer' \in [Clients -> AnswerType] /\ answer'[c] = new
          /\ \A d \in Clients \ {c} : answer'[d] = answer[d]
    BY <1>2, <1>4 DEF RData
  <1>6. locks'[k].token = t /\ locks'[k].left = secs
          /\ \A m \in Keys \ {k} : locks'[m] = locks[m]
    BY <1>1 DEF RData
  <1>7. \A d \in Clients : handle[d] \in HandleType /\ answer[d] \in AnswerType
    BY DEF RData
  <1>8. LeaseHonoured'
    <2> SUFFICES ASSUME NEW d \in Clients, handle[d].lease > 0
                 PROVE  Matches(d)' /\ locks'[handle[d].key].left >= handle[d].lease
      BY DEF LeaseHonoured
    <2>1. Matches(d) /\ locks[handle[d].key].left >= handle[d].lease
      BY DEF RData, LeaseHonoured
    <2>2. handle[d].key # k /\ handle[d].key \in Keys
      BY <1>7, <2>1 DEF Free, Matches, HandleType, Ttls
    <2>3. QED BY <1>6, <2>1, <2>2 DEF Matches
  <1>9. TokensUnique'
    BY DEF RData, TokensUnique
  <1>10. AnswersHonoured'
    <2> SUFFICES ASSUME NEW d \in Clients, answer'[d].left > 0
                 PROVE  /\ answer'[d].st \in {"granted", "extended"}
                        /\ answer'[d].token # NoToken
                        /\ locks'[answer'[d].key].token = answer'[d].token
                        /\ locks'[answer'[d].key].left >= answer'[d].left
      BY DEF AnswersHonoured
    <2>1. CASE d = c
      BY <1>5, <1>6, <2>1 DEF Ttls
    <2>2. CASE d # c
      <3>1. answer'[d] = answer[d] /\ answer[d].left > 0
        BY <1>5, <2>2
      <3>2. /\ answer[d].token # NoToken
            /\ locks[answer[d].key].token = answer[d].token
            /\ locks[answer[d].key].left >= answer[d].left
            /\ answer[d].st \in {"granted", "extended"}
        BY <3>1 DEF RData, AnswersHonoured
      <3>3. answer[d].key # k /\ answer[d].key \in Keys
        BY <1>7, <3>1, <3>2 DEF Free, AnswerType, Ttls
      <3>4. QED BY <1>6, <3>1, <3>2, <3>3
    <2>3. QED BY <2>1, <2>2
  <1>11. AnswersUnique'
    <2>1. \A d \in Clients : handle[d].token # t /\ answer[d].token # t
      BY DEF Fresh, Unused
    <2>2. \A d \in Clients : answer'[d].token = IF d = c THEN t ELSE answer[d].token
      BY <1>5
    <2>3. QED BY <2>1, <2>2 DEF RData, AnswersUnique
  <1>12. ExtendsOwn'
    BY <1>5 DEF RData, ExtendsOwn
  <1>13. QED BY <1>3, <1>5, <1>8, <1>9, <1>10, <1>11, <1>12 DEF RData

(* An answer that says nothing: SET NX PX refused, or a call that is over.    *)
LEMMA EmptyAnswerStep ==
  ASSUME RData, NEW c \in Clients, NEW a \in AnswerType,
         a.st \in {"none", "refused"}, a.token = NoToken, a.left = 0,
         answer' = [answer EXCEPT ![c] = a], locks' = locks, handle' = handle
  PROVE  RData'
  <1>1. answer' \in [Clients -> AnswerType]
          /\ \A d \in Clients : answer'[d] = IF d = c THEN a ELSE answer[d]
    BY DEF RData
  <1>2. LeaseHonoured' /\ TokensUnique'
    BY DEF RData, LeaseHonoured, TokensUnique, Matches
  <1>3. AnswersHonoured'
    BY <1>1 DEF RData, AnswersHonoured
  <1>4. AnswersUnique'
    BY <1>1 DEF RData, AnswersUnique
  <1>5. ExtendsOwn'
    BY <1>1 DEF RData, ExtendsOwn
  <1>6. QED BY <1>1, <1>2, <1>3, <1>4, <1>5 DEF RData

(* RELEASE_SCRIPT deletes no entry but the one its own client was granted. *)
LEMMA RedisReleaseStep ==
  ASSUME RData, NEW c \in Clients, RedisRelease(c)
  PROVE  RData'
  <1> USE LockAssumption
  <1>1. answer' = answer /\ answer[c].st = "none" /\ handle[c].token # NoToken
    BY DEF RedisRelease, Ready
  <1>2. \A d \in Clients : handle[d] \in HandleType /\ answer[d] \in AnswerType
    BY DEF RData
  <1>3. handle' = [handle EXCEPT ![c].lease = 0]
    BY DEF RedisRelease
  <1>4. handle' \in [Clients -> HandleType]
          /\ \A d \in Clients :
               /\ handle'[d].key = handle[d].key /\ handle'[d].token = handle[d].token
               /\ handle'[d].lease = IF d = c THEN 0 ELSE handle[d].lease
    BY <1>3 DEF RData, HandleType, Ttls
  <1>5. locks' \in [Keys -> EntryType]
          /\ \A k \in Keys : locks'[k] # locks[k] => locks[k].token = handle[c].token
    BY <1>2 DEF RedisRelease, Stored, RData, EntryType, NoEntry, Ttls, HandleType
  <1>6. LeaseHonoured'
    <2> SUFFICES ASSUME NEW d \in Clients, handle'[d].lease > 0
                 PROVE  Matches(d)' /\ locks'[handle'[d].key].left >= handle'[d].lease
      BY DEF LeaseHonoured
    <2>1. d # c /\ handle[d].lease > 0 /\ handle[d].key \in Keys
      BY <1>2, <1>4 DEF HandleType
    <2>2. Matches(d) /\ locks[handle[d].key].left >= handle[d].lease
      BY <2>1 DEF RData, LeaseHonoured
    <2>3. handle[d].token # handle[c].token
      BY <1>1, <2>1 DEF RData, TokensUnique
    <2>4. locks'[handle[d].key] = locks[handle[d].key]
      BY <1>5, <2>1, <2>2, <2>3 DEF Matches
    <2>5. QED BY <1>4, <2>1, <2>2, <2>4 DEF Matches
  <1>7. AnswersHonoured'
    <2> SUFFICES ASSUME NEW d \in Clients, answer[d].left > 0
                 PROVE  /\ answer[d].st \in {"granted", "extended"}
                        /\ answer[d].token # NoToken
                        /\ locks'[answer[d].key].token = answer[d].token
                        /\ locks'[answer[d].key].left >= answer[d].left
      BY <1>1 DEF AnswersHonoured
    <2>1. /\ answer[d].st \in {"granted", "extended"}
          /\ answer[d].token # NoToken
          /\ locks[answer[d].key].token = answer[d].token
          /\ locks[answer[d].key].left >= answer[d].left
      BY DEF RData, AnswersHonoured
    <2>2. d # c
      BY <1>1, <2>1
    <2>3. answer[d].token # handle[c].token
      BY <2>1, <2>2 DEF RData, AnswersUnique
    <2>4. QED BY <1>2, <1>5, <2>1, <2>3 DEF AnswerType
  <1>8. TokensUnique' /\ AnswersUnique' /\ ExtendsOwn'
    BY <1>1, <1>4 DEF RData, TokensUnique, AnswersUnique, ExtendsOwn
  <1>9. QED BY <1>1, <1>4, <1>5, <1>6, <1>7, <1>8 DEF RData

(* A call that fails before its command is executed lowers a lease at most. *)
LEMMA RedisFailStep ==
  ASSUME RData, NEW c \in Clients, RedisCallFails(c)
  PROVE  RData'
  <1> USE LockAssumption
  <1>1. UNCHANGED <<locks, answer>>
    BY DEF RedisCallFails
  <1>2. \A d \in Clients : handle[d] \in HandleType
    BY DEF RData
  <1>3. PICK secs \in Ttls :
          handle' = [handle EXCEPT ![c].lease = IF secs < @ THEN secs ELSE @]
    BY DEF RedisCallFails
  <1> DEFINE lower == IF secs < handle[c].lease THEN secs ELSE handle[c].lease
  <1>4. lower \in Ttls /\ lower =< handle[c].lease
    BY <1>2, <1>3 DEF HandleType, Ttls
  <1>5. handle' \in [Clients -> HandleType]
          /\ \A d \in Clients :
               /\ handle'[d].key = handle[d].key /\ handle'[d].token = handle[d].token
               /\ handle'[d].lease = IF d = c THEN lower ELSE handle[d].lease
    BY <1>3, <1>4 DEF RData, HandleType
  <1> HIDE DEF lower
  <1>6. LeaseHonoured'
    <2> SUFFICES ASSUME NEW d \in Clients, handle'[d].lease > 0
                 PROVE  Matches(d)' /\ locks'[handle'[d].key].left >= handle'[d].lease
      BY DEF LeaseHonoured
    <2>1. handle'[d].lease =< handle[d].lease /\ handle[d].lease > 0 /\ handle[d].key \in Keys
      BY <1>2, <1>4, <1>5 DEF HandleType, Ttls
    <2>2. Matches(d) /\ locks[handle[d].key].left >= handle[d].lease
      BY <2>1 DEF RData, LeaseHonoured
    <2>3. locks[handle[d].key].left \in Int /\ handle[d].lease \in Int /\ handle'[d].lease \in Int
      BY <1>2, <1>4, <1>5, <2>1 DEF RData, EntryType, HandleType, Ttls
    <2>4. QED BY <1>1, <1>5, <2>1, <2>2, <2>3 DEF Matches
  <1>7. AnswersHonoured'
    BY <1>1 DEF RData, AnswersHonoured
  <1>8. TokensUnique' /\ AnswersUnique' /\ ExtendsOwn'
    BY <1>1, <1>5 DEF RData, TokensUnique, AnswersUnique, ExtendsOwn
  <1>9. QED BY <1>1, <1>5, <1>6, <1>7, <1>8 DEF RData

(* EXTEND_SCRIPT reaches no other client's entry; until the answer arrives    *)
(* its client counts on no more than the entry has left.                      *)
LEMMA RedisExtendStep ==
  ASSUME RData, NEW c \in Clients, RedisExtend(c)
  PROVE  RData'
  <1> USE LockAssumption
  <1>1. answer[c].st = "none" /\ handle[c].token # NoToken
    BY DEF RedisExtend, Ready
  <1>2. \A d \in Clients : handle[d] \in HandleType /\ answer[d] \in AnswerType
    BY DEF RData
  <1>3. PICK secs \in Ttls :
          /\ \/ /\ Stored(handle[c])
                /\ locks' = [locks EXCEPT ![handle[c].key].left = secs]
                /\ Answers(c, "extended", handle[c].key, handle[c].token, secs)
             \/ /\ ~ Stored(handle[c])
                /\ Answers(c, "lost", handle[c].key, handle[c].token, 0)
                /\ UNCHANGED locks
          /\ handle' = [handle EXCEPT ![c].lease = IF secs < @ THEN secs ELSE @]
    BY DEF RedisExtend
  <1> DEFINE lower == IF secs < handle[c].lease THEN secs ELSE handle[c].lease
  <1>4. lower \in Ttls /\ lower =< secs /\ lower =< handle[c].lease
    BY <1>2, <1>3 DEF HandleType, Ttls
  <1>5. handle' \in [Clients -> HandleType]
          /\ \A d \in Clients :
               /\ handle'[d].key = handle[d].key /\ handle'[d].token = handle[d].token
               /\ handle'[d].lease = IF d = c THEN lower ELSE handle[d].lease
    BY <1>3, <1>4 DEF RData, HandleType
  <1>6. PICK a \in AnswerType :
          /\ answer' = [answer EXCEPT ![c] = a]
          /\ a.st \in {"extended", "lost"}
          /\ a.key = handle[c].key /\ a.token = handle[c].token
          /\ a.left > 0 => a.st = "extended" /\ a.left = secs /\ Stored(handle[c])
                             /\ locks' = [locks EXCEPT ![handle[c].key].left = secs]
    <2>1. CASE Stored(handle[c]) /\ locks' = [locks EXCEPT ![handle[c].key].left = secs]
                 /\ Answers(c, "extended", handle[c].key, handle[c].token, secs)
      <3> DEFINE a == [st |-> "extended", key |-> handle[c].key,
                       token |-> handle[c].token, left |-> secs]
      <3>1. a \in AnswerType
        BY <1>2 DEF AnswerType, HandleType
      <3>2. QED BY <2>1, <3>1 DEF Answers
    <2>2. CASE Answers(c, "lost", handle[c].key, handle[c].token, 0)
      <3> DEFINE a == [st |-> "lost", key |-> handle[c].key,
                       token |-> handle[c].token, left |-> 0]
      <3>1. a \in AnswerType
        BY <1>2 DEF AnswerType, HandleType, Ttls
      <3>2. answer' = [answer EXCEPT ![c] = a]
        BY <2>2 DEF Answers
      <3>3. a.st = "lost" /\ a.key = handle[c].key /\ a.token = handle[c].token
              /\ ~ (a.left > 0)
        OBVIOUS
      <3> HIDE DEF a
      <3>4. QED BY <3>1, <3>2, <3>3
    <2>3. QED BY <1>3, <2>1, <2>2
  <1>7. answer' \in [Clients -> AnswerType]
          /\ \A d \in Clients : answer'[d] = IF d = c THEN a ELSE answer[d]
    BY <1>6 DEF RData
  <1>8. /\ locks' \in [Keys -> EntryType]
        /\ \A k \in Keys : locks'[k].token = locks[k].token
        /\ \A k \in Keys : locks'[k] # locks[k] =>
             locks[k].token = handle[c].token /\ k = handle[c].key /\ locks'[k].left = secs
    <2>1. CASE locks' = locks
      BY <2>1 DEF RData
    <2>2. CASE Stored(handle[c]) /\ locks' = [locks EXCEPT ![handle[c].key].left = secs]
      <3> DEFINE k0 == handle[c].key
                 e == [locks[k0] EXCEPT !.left = secs]
      <3>1. k0 \in Keys /\ locks[k0].token = handle[c].token
        BY <1>2, <2>2 DEF Stored, HandleType
      <3>2. e \in EntryType /\ e.token = locks[k0].token /\ e.left = secs
        BY <3>1 DEF RData, EntryType
      <3>3. locks' = [locks EXCEPT ![k0] = e]
        BY <2>2
      <3> HIDE DEF k0, e
      <3>4. locks \in [Keys -> EntryType]
        BY DEF RData
      <3>5. locks' \in [Keys -> EntryType]
              /\ \A k \in Keys : locks'[k] = IF k = k0 THEN e ELSE locks[k]
        BY <3>1, <3>2, <3>3, <3>4
      <3>6. QED BY <3>1, <3>2, <3>5 DEF k0
    <2>3. QED BY <1>3, <2>1, <2>2
  <1>9. LeaseHonoured'
    <2> SUFFICES ASSUME NEW d \in Clients, handle'[d].lease > 0
                 PROVE  Matches(d)' /\ locks'[handle'[d].key].left >= handle'[d].lease
      BY DEF LeaseHonoured
    <2>1. handle[d].lease > 0 /\ handle[d].key \in Keys
      BY <1>2, <1>4, <1>5 DEF HandleType, Ttls
    <2>2. Matches(d) /\ locks[handle[d].key].left >= handle[d].lease
      BY <2>1 DEF RData, LeaseHonoured
    <2>3. Matches(d)'
      BY <1>5, <1>8, <2>1, <2>2 DEF Matches
    <2>4. CASE d = c
      <3>1. locks'[handle[c].key] = locks[handle[c].key] \/ locks'[handle[c].key].left = secs
        BY <1>8, <2>1, <2>4
      <3>2. locks[handle[c].key].left \in Int /\ secs \in Int /\ lower \in Int
              /\ handle[c].lease \in Int
        BY <1>2, <1>4, <2>1, <2>4 DEF RData, EntryType, HandleType, Ttls
      <3> HIDE DEF lower
      <3>3. locks'[handle[c].key].left >= lower
        BY <1>4, <2>2, <2>4, <3>1, <3>2
      <3>4. QED BY <1>5, <2>3, <2>4, <3>3
    <2>5. CASE d # c
      <3>1. handle[d].token # handle[c].token
        BY <1>1, <2>5 DEF RData, TokensUnique
      <3>2. locks'[handle[d].key] = locks[handle[d].key]
        BY <1>8, <2>1, <2>2, <3>1 DEF Matches
      <3>3. QED BY <1>5, <2>2, <2>3, <2>5, <3>2
    <2>6. QED BY <2>4, <2>5
  <1>10. AnswersHonoured'
    <2> SUFFICES ASSUME NEW d \in Clients, answer'[d].left > 0
                 PROVE  /\ answer'[d].st \in {"granted", "extended"}
                        /\ answer'[d].token # NoToken
                        /\ locks'[answer'[d].key].token = answer'[d].token
                        /\ locks'[answer'[d].key].left >= answer'[d].left
      BY DEF AnswersHonoured
    <2>1. CASE d = c
      <3>1. a.left > 0 /\ answer'[d] = a
        BY <1>7, <2>1
      <3>2. a.st = "extended" /\ a.left = secs /\ Stored(handle[c])
              /\ locks' = [locks EXCEPT ![handle[c].key].left = secs]
        BY <1>6, <3>1
      <3>3. locks'[handle[c].key].left = secs /\ locks'[handle[c].key].token = a.token
        BY <1>2, <1>6, <3>2 DEF Stored, RData, EntryType, HandleType
      <3>4. QED BY <1>1, <1>6, <3>1, <3>2, <3>3 DEF Ttls
    <2>2. CASE d # c
      <3>1. answer'[d] = answer[d] /\ answer[d].left > 0
        BY <1>7, <2>2
      <3>2. /\ answer[d].token # NoToken
            /\ locks[answer[d].key].token = answer[d].token
            /\ locks[answer[d].key].left >= answer[d].left
            /\ answer[d].st \in {"granted", "extended"}
        BY <3>1 DEF RData, AnswersHonoured
      <3>3. answer[d].token # handle[c].token /\ answer[d].key \in Keys
        BY <1>2, <2>2, <3>2 DEF RData, AnswersUnique, AnswerType
      <3>4. QED BY <1>8, <3>1, <3>2, <3>3
    <2>3. QED BY <2>1, <2>2
  <1>11. TokensUnique'
    BY <1>5 DEF RData, TokensUnique
  <1>12. AnswersUnique'
    <2>1. \A d \in Clients :
            answer'[d].token = IF d = c THEN handle[c].token ELSE answer[d].token
      BY <1>6, <1>7
    <2>2. QED BY <1>5, <2>1 DEF RData, AnswersUnique, TokensUnique
  <1>13. ExtendsOwn'
    BY <1>5, <1>6, <1>7 DEF RData, ExtendsOwn
  <1>14. QED BY <1>5, <1>7, <1>8, <1>9, <1>10, <1>11, <1>12, <1>13 DEF RData

(* A client believes what an answer tells it: the answer is still true. *)
LEMMA AnsweredStep ==
  ASSUME RData, NEW c \in Clients, Answered(c)
  PROVE  RData'
  <1> USE LockAssumption
  <1>1. answer' = [answer EXCEPT ![c] = NoAnswer] /\ locks' = locks
    BY DEF Answered
  <1>2. \A d \in Clients : handle[d] \in HandleType /\ answer[d] \in AnswerType
    BY DEF RData
  <1>3. CASE Refused(c)
    <2>1. handle' = handle
      BY <1>3 DEF Refused
    <2>2. QED
      BY <1>1, <2>1, NoAnswerFact, EmptyAnswerStep DEF NoAnswer
  <1>4. CASE Granted(c) \/ Extended(c)
    <2> DEFINE h == [key |-> answer[c].key, token |-> answer[c].token,
                     lease |-> answer[c].left]
    <2>1. h \in HandleType
      BY <1>2 DEF AnswerType, HandleType
    <2>2. handle' = [handle EXCEPT ![c] = h]
      <3>1. CASE Granted(c)
        BY <3>1 DEF Granted
      <3>2. CASE Extended(c)
        <4>1. answer[c].key = handle[c].key /\ answer[c].token = handle[c].token
          BY <3>2 DEF Extended, RData, ExtendsOwn
        <4>2. handle' = [handle EXCEPT ![c].lease = answer[c].left]
          BY <3>2 DEF Extended
        <4>3. [handle[c] EXCEPT !.lease = answer[c].left] = h
          BY <1>2, <4>1 DEF HandleType
        <4>4. QED BY <4>2, <4>3
      <3>3. QED BY <1>4, <3>1, <3>2
    <2>3. handle' \in [Clients -> HandleType] /\ handle'[c] = h
            /\ \A d \in Clients \ {c} : handle'[d] = handle[d]
      BY <2>1, <2>2 DEF RData
    <2>4. answer' \in [Clients -> AnswerType] /\ answer'[c] = NoAnswer
            /\ \A d \in Clients \ {c} : answer'[d] = answer[d]
      BY <1>1, NoAnswerFact DEF RData
    <2>5. LeaseHonoured'
      <3> SUFFICES ASSUME NEW d \in Clients, handle'[d].lease > 0
                   PROVE  Matches(d)' /\ locks'[handle'[d].key].left >= handle'[d].lease
        BY DEF LeaseHonoured
      <3>1. CASE d = c
        BY <1>1, <2>3, <3>1 DEF RData, AnswersHonoured, Matches
      <3>2. CASE d # c
        BY <1>1, <2>3, <3>2 DEF RData, LeaseHonoured, Matches
      <3>3. QED BY <3>1, <3>2
    <2>6. \A d \in Clients :
            /\ handle'[d].token = IF d = c THEN answer[c].token ELSE handle[d].token
            /\ answer'[d].token = IF d = c THEN NoToken ELSE answer[d].token
      BY <2>3, <2>4 DEF NoAnswer
    <2>7. TokensUnique'
      BY <2>6 DEF RData, TokensUnique, AnswersUnique
    <2>8. AnswersUnique'
      BY <2>6 DEF RData, AnswersUnique
    <2>9. AnswersHonoured'
      BY <1>1, <2>4 DEF RData, AnswersHonoured, NoAnswer
    <2>10. ExtendsOwn'
      BY <2>3, <2>4 DEF RData, ExtendsOwn, NoAnswer
    <2>11. QED BY <1>1, <2>3, <2>4, <2>5, <2>7, <2>8, <2>9, <2>10 DEF RData
  <1>5. QED BY <1>3, <1>4 DEF Answered

(* Time takes as much from an entry as from what is promised of it. *)
LEMMA RedisTickStep ==
  ASSUME RData, call \in [Clients -> CallType], RedisTick
  PROVE  RData' /\ call' \in [Clients -> CallType]
  <1> USE LockAssumption
  <1> DEFINE Waits == 0 .. MaxWait
  <1>1. \A n \in Ttls : Less(n) \in Ttls
    BY LessFacts DEF Ttls
  <1>2. \A n \in Waits : Less(n) \in Waits
    BY LessFacts
  <1>3. \A n \in Ttls : Aged(n) = Less(n)
    BY DEF Aged, NoExpiry, Ttls
  <1> HIDE DEF Waits
  <1>4. call' \in [Clients -> CallType]
    BY <1>2 DEF RedisTick, CallType, Waits
  <1>5. locks' \in [Keys -> EntryType]
          /\ \A k \in Keys : /\ locks[k].left \in Ttls
                             /\ locks'[k].token = locks[k].token
                             /\ locks'[k].left = Less(locks[k].left)
    BY <1>1, <1>3 DEF RedisTick, RData, EntryType
  <1>6. handle' \in [Clients -> HandleType]
          /\ \A c \in Clients :
               /\ handle[c].lease \in Ttls /\ handle[c].key \in Keys
               /\ handle'[c].key = handle[c].key /\ handle'[c].token = handle[c].token
               /\ handle'[c].lease = Less(handle[c].lease)
    BY <1>1 DEF RedisTick, RData, HandleType
  <1>7. answer' \in [Clients -> AnswerType]
          /\ \A c \in Clients :
               /\ answer[c].left \in Ttls /\ answer[c].key \in Keys
               /\ answer'[c].st = answer[c].st /\ answer'[c].key = answer[c].key
               /\ answer'[c].token = answer[c].token
               /\ answer'[c].left = Less(answer[c].left)
    BY <1>1 DEF RedisTick, RData, AnswerType
  <1>8. \A n \in Ttls : Less(n) > 0 => n > 0
    BY LessFacts DEF Ttls
  <1>9. \A m, n \in Ttls : m >= n => Less(m) >= Less(n)
    BY LessFacts DEF Ttls
  <1>10. LeaseHonoured'
    BY <1>5, <1>6, <1>8, <1>9 DEF RData, LeaseHonoured, Matches
  <1>11. AnswersHonoured'
    BY <1>5, <1>7, <1>8, <1>9 DEF RData, AnswersHonoured
  <1>12. TokensUnique' /\ AnswersUnique' /\ ExtendsOwn'
    <2>1. TokensUnique'
      BY <1>6 DEF RData, TokensUnique
    <2>2. AnswersUnique'
      BY <1>6, <1>7 DEF RData, AnswersUnique
    <2>3. ExtendsOwn'
      BY <1>6, <1>7 DEF RData, ExtendsOwn
    <2>4. QED BY <2>1, <2>2, <2>3
  <1>13. QED BY <1>4, <1>5, <1>6, <1>7, <1>10, <1>11, <1>12 DEF RData

(* SET NX PX, whatever it finds. *)
LEMMA SetNxPxStep ==
  ASSUME RData, NEW c \in Clients, NEW k \in Keys, NEW secs \in Ttls,
         SetNxPx(c, k, secs), handle' = handle
  PROVE  RData'
  <1>1. CASE ~ Free(k) /\ Answers(c, "refused", k, NoToken, 0) /\ UNCHANGED locks
    <2> DEFINE a == [st |-> "refused", key |-> k, token |-> NoToken, left |-> 0]
    <2>1. a \in AnswerType /\ a.st = "refused" /\ a.token = NoToken /\ a.left = 0
      BY LockAssumption DEF AnswerType, Ttls
    <2>2. answer' = [answer EXCEPT ![c] = a]
      BY <1>1 DEF Answers
    <2> HIDE DEF a
    <2>3. QED BY <1>1, <2>1, <2>2, EmptyAnswerStep
  <1>2. CASE \E t \in Tokens : /\ Free(k) /\ Fresh(t) /\ Set(k, t, secs)
                               /\ Answers(c, "granted", k, t, secs)
    BY <1>2, SetStep
  <1>3. QED BY <1>1, <1>2 DEF SetNxPx, Fresh, Unused

(* A step of a client of the Redis backend. *)
LEMMA RedisStepRInv ==
  ASSUME RInv, backend = "redis", backend' = backend, NEW c \in Clients, RedisStep(c)
  PROVE  RInv'
  <1> USE LockAssumption
  <1> SUFFICES RData' /\ call' \in [Clients -> CallType]
    BY DEF RInv
  <1>1. RData /\ call \in [Clients -> CallType]
    BY DEF RInv
  <1>2. call[c].key \in Keys /\ call[c].ttl \in Ttls
    BY <1>1 DEF CallType
  <1>3. NoCall \in CallType
    BY AnyKeyFact DEF NoCall, CallType, Locations, Ttls
  <1>4. Ended(c) => call' \in [Clients -> CallType]
    BY <1>1, <1>3 DEF Ended
  <1>5. \A at \in Locations :
          call' = [call EXCEPT ![c].at = at] => call' \in [Clients -> CallType]
    BY <1>1 DEF CallType
  <1>6. locks' = locks /\ handle' = handle /\ answer' = answer => RData'
    BY <1>1 DEF RData, LeaseHonoured, TokensUnique, AnswersHonoured, AnswersUnique,
                ExtendsOwn, Matches
  <1>7. CASE RedisTryAcquire(c)
    BY <1>1, <1>7, SetNxPxStep DEF RedisTryAcquire
  <1>8. CASE RedisAcquireBegin(c)
    <2>1. PICK k \in Keys, secs \in Ttls, wait \in 0 .. MaxWait :
            call' = [call EXCEPT ![c] = [at |-> "trying", key |-> k,
                                         ttl |-> secs, left |-> wait]]
      BY <1>8 DEF RedisAcquireBegin, AcquireBegin
    <2>2. [at |-> "trying", key |-> k, ttl |-> secs, left |-> wait] \in CallType
      BY DEF CallType, Locations
    <2>3. call' \in [Clients -> CallType]
      BY <1>1, <2>1, <2>2
    <2>4. QED BY <1>6, <1>8, <2>3 DEF RedisAcquireBegin, AcquireBegin
  <1>9. CASE RedisAcquireTries(c)
    BY <1>1, <1>2, <1>9, SetNxPxStep DEF RedisAcquireTries
  <1>10. CASE RedisAcquireFails(c)
    BY <1>4, <1>6, <1>10 DEF RedisAcquireFails
  <1>11. CASE RedisAcquirePolls(c)
    BY <1>5, <1>6, <1>11 DEF RedisAcquirePolls, Locations
  <1>12. CASE RedisAcquireTimedOut(c)
    BY <1>4, <1>6, <1>12 DEF RedisAcquireTimedOut, AcquireTimedOut, Ended
  <1>13. CASE RedisRelease(c)
    BY <1>1, <1>13, RedisReleaseStep DEF RedisRelease
  <1>14. CASE RedisExtend(c)
    BY <1>1, <1>14, RedisExtendStep DEF RedisExtend
  <1>15. CASE Answered(c)
    <2>1. call' \in [Clients -> CallType]
      <3>1. CASE Refused(c)
        <4>1. (IF call[c].at = "trying" THEN "refused" ELSE call[c].at) \in Locations
          BY <1>1 DEF CallType, Locations
        <4>2. QED BY <1>5, <3>1, <4>1 DEF Refused
      <3>2. QED BY <1>1, <1>4, <1>15, <3>1 DEF Answered, Granted, Extended
    <2>2. QED BY <1>1, <1>15, <2>1, AnsweredStep
  <1>16. CASE AnswerLost(c)
    BY <1>1, <1>4, <1>16, NoAnswerFact, EmptyAnswerStep DEF AnswerLost, NoAnswer
  <1>17. CASE RedisCallFails(c)
    BY <1>1, <1>17, RedisFailStep DEF RedisCallFails
  <1>18. QED
    BY <1>7, <1>8, <1>9, <1>10, <1>11, <1>12, <1>13, <1>14, <1>15, <1>16, <1>17 DEF RedisStep

(* Every step of either backend keeps the invariant. *)
LEMMA NextRInv == RInv /\ [LockNext]_lockVars => RInv'
  <1> SUFFICES ASSUME RInv, [LockNext]_lockVars
               PROVE  RInv'
    OBVIOUS
  <1>1. CASE backend = "memory" /\ Next /\ answer' = answer /\ backend' = backend
    <2>1. IInv'
      BY <1>1, RInvImpliesIInv, NextIInv
    <2>2. answer' = [c \in Clients |-> NoAnswer] /\ backend' \in {"memory", "redis"}
      BY <1>1 DEF RInv
    <2>3. (IInv /\ backend \in {"memory", "redis"}
             /\ answer = [c \in Clients |-> NoAnswer] => RInv)'
      BY QuietRInv, PTL
    <2>4. QED BY <2>1, <2>2, <2>3
  <1>2. CASE backend = "redis" /\ RedisTick /\ backend' = backend
    BY <1>2, RedisTickStep DEF RInv
  <1>3. CASE backend = "redis" /\ (\E c \in Clients : RedisStep(c)) /\ backend' = backend
    BY <1>3, RedisStepRInv
  <1>4. CASE UNCHANGED lockVars
    BY <1>4 DEF lockVars, RInv, RData, LeaseHonoured, TokensUnique, AnswersHonoured,
                AnswersUnique, ExtendsOwn, Matches, NoAnswer
  <1>5. QED BY <1>1, <1>2, <1>3, <1>4 DEF LockNext, RedisNext

(* The invariant holds at the start. *)
LEMMA InitRInv == RedisInit => RInv
  BY InitIInv, QuietRInv DEF RedisInit

(* The invariant holds in every reachable state of either backend. *)
THEOREM LockInvariance == LockSpec => []RInv
  BY InitRInv, NextRInv, PTL DEF LockSpec

(* With the Redis backend too a client that counts on its lease owns the     *)
(* entry: neither a late or lost answer nor a stale handle takes it away.    *)
THEOREM LockLeaseCorrect == LockSpec => []LeaseHonoured
  BY LockInvariance, PTL DEF RInv, RData

(* At most one client at a time may believe that it holds a key, whatever    *)
(* the backend.                                                              *)
THEOREM LockMutualExclusion == LockSpec => []MutualExclusion
  BY LockInvariance, RInvImpliesIInv, IInvExcludes, PTL

-----------------------------------------------------------------------------
(* Both backends implement LeaseLock.                                        *)

Holds(c, k) == handle[c].key = k /\ handle[c].lease > 0
WillHold(c, k) == handle'[c].key = k /\ handle'[c].lease > 0

(* Under mutual exclusion Owner is the one client that counts on its lease.  *)
LEMMA OwnerFacts ==
  MutualExclusion =>
    /\ \A k \in Keys, c \in Clients : Holds(c, k) => Owner[k] = c
    /\ \A k \in Keys : (\A c \in Clients : ~ Holds(c, k)) => Owner[k] = Nobody
    /\ \A k \in Keys, c \in Clients : Owner[k] = c => Holds(c, k)
    /\ \A k \in Keys : Owner[k] = Nobody \/ Owner[k] \in Clients
    /\ Owner = [k \in Keys |-> Owner[k]]
  <1> SUFFICES ASSUME MutualExclusion
               PROVE  /\ \A k \in Keys, c \in Clients : Holds(c, k) => Owner[k] = c
                      /\ \A k \in Keys :
                           (\A c \in Clients : ~ Holds(c, k)) => Owner[k] = Nobody
                      /\ \A k \in Keys, c \in Clients : Owner[k] = c => Holds(c, k)
                      /\ \A k \in Keys : Owner[k] = Nobody \/ Owner[k] \in Clients
                      /\ Owner = [k \in Keys |-> Owner[k]]
    OBVIOUS
  <1>1. \A k \in Keys : Owner[k] =
          IF \E c \in Clients : Holds(c, k)
            THEN CHOOSE c \in Clients : Holds(c, k) ELSE Nobody
    BY DEF Owner, Holds
  <1>2. \A c, d \in Clients, k \in Keys : Holds(c, k) /\ Holds(d, k) => c = d
    BY DEF MutualExclusion, Holds
  <1>3. Owner = [k \in Keys |-> Owner[k]]
    BY DEF Owner
  <1> HIDE DEF Owner
  <1>4. ASSUME NEW k \in Keys, NEW c \in Clients, Holds(c, k)
        PROVE  Owner[k] = c
    <2>1. Owner[k] = CHOOSE d \in Clients : Holds(d, k)
      BY <1>1, <1>4
    <2>2. Owner[k] \in Clients /\ Holds(Owner[k], k)
      BY <1>4, <2>1
    <2>3. QED BY <1>2, <1>4, <2>2
  <1>5. ASSUME NEW k \in Keys, \A c \in Clients : ~ Holds(c, k)
        PROVE  Owner[k] = Nobody
    BY <1>1, <1>5
  <1>6. QED BY <1>3, <1>4, <1>5, LockAssumption

(* The same in the next state. *)
LEMMA OwnerFactsNext ==
  (MutualExclusion =>
    /\ \A k \in Keys, c \in Clients : Holds(c, k) => Owner[k] = c
    /\ \A k \in Keys : (\A c \in Clients : ~ Holds(c, k)) => Owner[k] = Nobody
    /\ \A k \in Keys, c \in Clients : Owner[k] = c => Holds(c, k)
    /\ \A k \in Keys : Owner[k] = Nobody \/ Owner[k] \in Clients
    /\ Owner = [k \in Keys |-> Owner[k]])'
  BY OwnerFacts, PTL

(* A step in which leases only end is a Lose of the keys they were on, and a *)
(* step that concerns one client is a Grant, an Exchange or a Lose.          *)
LEMMA OwnerStep ==
  ASSUME MutualExclusion, MutualExclusion',
         \A c \in Clients : handle[c].key \in Keys /\ handle'[c].key \in Keys,
         \/ \A c \in Clients, k \in Keys : WillHold(c, k) => Holds(c, k)
         \/ \E c \in Clients : \A d \in Clients \ {c} : handle'[d] = handle[d]
  PROVE  [Lease!LeaseNext]_Owner
  <1> USE LockAssumption
  <1> DEFINE P == Owner
             Q == Owner'
  <1>1. /\ \A k \in Keys, c \in Clients : Holds(c, k) => P[k] = c
        /\ \A k \in Keys : (\A c \in Clients : ~ Holds(c, k)) => P[k] = Nobody
        /\ \A k \in Keys, c \in Clients : P[k] = c => Holds(c, k)
        /\ \A k \in Keys : P[k] = Nobody \/ P[k] \in Clients
        /\ P = [k \in Keys |-> P[k]]
    BY OwnerFacts
  <1>2. /\ \A k \in Keys, c \in Clients : WillHold(c, k) => Q[k] = c
        /\ \A k \in Keys : (\A c \in Clients : ~ WillHold(c, k)) => Q[k] = Nobody
        /\ \A k \in Keys, c \in Clients : Q[k] = c => WillHold(c, k)
        /\ \A k \in Keys : Q[k] = Nobody \/ Q[k] \in Clients
        /\ Q = [k \in Keys |-> Q[k]]
    BY OwnerFactsNext DEF Holds, WillHold
  <1>3. \A c \in Clients, k \in Keys : P[k] = Nobody /\ Q = [P EXCEPT ![k] = c]
          => Lease!LeaseNext
    BY DEF Lease!LeaseNext, Lease!Grant
  <1>4. \A c \in Clients, k, old \in Keys :
          P[k] = Nobody /\ P[old] = c /\ Q = [P EXCEPT ![k] = c, ![old] = Nobody]
            => Lease!LeaseNext
    BY DEF Lease!LeaseNext, Lease!Exchange
  <1>5. \A gone \in SUBSET Keys :
          (\A k \in gone : P[k] # Nobody)
            /\ Q = [k \in Keys |-> IF k \in gone THEN Nobody ELSE P[k]]
              => Lease!LeaseNext
    BY DEF Lease!LeaseNext, Lease!Lose
  <1> SUFFICES Lease!LeaseNext \/ Q = P
    OBVIOUS
  <1> HIDE DEF P, Q
  <1>6. CASE \A c \in Clients, k \in Keys : WillHold(c, k) => Holds(c, k)
    <2> DEFINE gone == {k \in Keys : P[k] # Nobody /\ Q[k] = Nobody}
    <2>1. \A k \in Keys : Q[k] = IF k \in gone THEN Nobody ELSE P[k]
      BY <1>1, <1>2, <1>6
    <2>2. Q = [k \in Keys |-> IF k \in gone THEN Nobody ELSE P[k]]
      BY <1>2, <2>1
    <2>3. QED BY <1>5, <2>2
  <1>7. ASSUME NEW c \in Clients, \A d \in Clients \ {c} : handle'[d] = handle[d]
        PROVE  Lease!LeaseNext \/ Q = P
    <2> DEFINE k == handle'[c].key
               old == handle[c].key
    <2>1. k \in Keys /\ old \in Keys
      OBVIOUS
    <2>2. \A d \in Clients \ {c}, m \in Keys : WillHold(d, m) <=> Holds(d, m)
      BY <1>7 DEF Holds, WillHold
    <2>3. \A m \in Keys : (Holds(c, m) => m = old) /\ (WillHold(c, m) => m = k)
      BY DEF Holds, WillHold
    <2> HIDE DEF k, old
    <2>4. \A m \in Keys : ~ Holds(c, m) /\ ~ WillHold(c, m) => Q[m] = P[m]
      BY <1>1, <1>2, <2>2
    <2>5. CASE ~ Holds(c, old) /\ ~ WillHold(c, k)
      BY <1>1, <1>2, <2>3, <2>4, <2>5
    <2>6. CASE Holds(c, old) /\ ~ WillHold(c, k)
      <3>1. P[old] = c /\ Q[old] = Nobody
        BY <1>1, <1>2, <2>1, <2>2, <2>3, <2>6
      <3>2. \A m \in Keys : Q[m] = IF m \in {old} THEN Nobody ELSE P[m]
        BY <2>3, <2>4, <2>6, <3>1
      <3>3. Q = [m \in Keys |-> IF m \in {old} THEN Nobody ELSE P[m]]
        BY <1>2, <3>2
      <3>4. {old} \in SUBSET Keys /\ \A m \in {old} : P[m] # Nobody
        BY <2>1, <3>1
      <3>5. QED BY <1>5, <3>3, <3>4
    <2>7. ASSUME ~ Holds(c, k), WillHold(c, k)
          PROVE  P[k] = Nobody /\ Q[k] = c
      BY <1>1, <1>2, <2>1, <2>2, <2>7
    <2>8. CASE ~ Holds(c, old) /\ WillHold(c, k)
      <3>1. ~ Holds(c, k)
        BY <2>1, <2>3, <2>8
      <3>2. P[k] = Nobody /\ Q[k] = c
        BY <2>7, <2>8, <3>1
      <3>3. \A m \in Keys : Q[m] = IF m = k THEN c ELSE P[m]
        BY <2>3, <2>4, <2>8, <3>2
      <3>4. Q = [P EXCEPT ![k] = c]
        BY <1>1, <1>2, <3>3
      <3>5. QED BY <1>3, <2>1, <3>2, <3>4
    <2>9. CASE Holds(c, old) /\ WillHold(c, k)
      <3>1. CASE old = k
        BY <1>1, <1>2, <2>1, <2>3, <2>4, <2>9, <3>1
      <3>2. CASE old # k
        <4>1. ~ Holds(c, k) /\ ~ WillHold(c, old)
          BY <2>1, <2>3, <3>2
        <4>2. P[k] = Nobody /\ Q[k] = c
          BY <2>7, <2>9, <4>1
        <4>3. P[old] = c /\ Q[old] = Nobody
          BY <1>1, <1>2, <2>1, <2>2, <2>9, <4>1
        <4>4. \A m \in Keys : Q[m] = IF m = k THEN c ELSE IF m = old THEN Nobody ELSE P[m]
          BY <2>3, <2>4, <4>2, <4>3
        <4>5. Q = [P EXCEPT ![k] = c, ![old] = Nobody]
          BY <1>1, <1>2, <2>1, <3>2, <4>4
        <4>6. QED BY <1>4, <2>1, <4>2, <4>3, <4>5
      <3>3. QED BY <3>1, <3>2
    <2>10. QED BY <2>5, <2>6, <2>8, <2>9
  <1>8. QED BY <1>6, <1>7

(* Every step of a client changes at most its own handle; time only ends     *)
(* leases.                                                                   *)
LEMMA HandleSteps ==
  ASSUME RInv, [LockNext]_lockVars
  PROVE  \/ \A c \in Clients, k \in Keys : WillHold(c, k) => Holds(c, k)
         \/ \E c \in Clients : \A d \in Clients \ {c} : handle'[d] = handle[d]
  <1> USE LockAssumption
  <1>1. handle \in [Clients -> HandleType]
    BY DEF RInv, RData
  <1>2. \A n \in Ttls : Less(n) > 0 => n > 0
    BY LessFacts DEF Ttls
  <1>3. CASE handle' = [c \in Clients |-> [handle[c] EXCEPT !.lease = Less(@)]]
    <2>1. \A c \in Clients :
            /\ handle'[c].key = handle[c].key /\ handle[c].lease \in Ttls
            /\ handle'[c].lease = Less(handle[c].lease)
      BY <1>1, <1>3 DEF HandleType
    <2>2. QED BY <1>2, <2>1 DEF Holds, WillHold
  <1>4. CASE handle' = handle
    BY <1>4 DEF Holds, WillHold
  <1>5. ASSUME NEW c \in Clients, Step(c) \/ RedisStep(c)
        PROVE  \A d \in Clients \ {c} : handle'[d] = handle[d]
    <2>1. CASE Step(c)
      BY <1>1, <2>1
      DEF Step, TryAcquire, Grant, AcquireBegin, AcquireGranted, AcquireRefused,
          AcquireTimedOut, AcquireWait, WakeAtDeadline, Release, ReleaseLate, Extend
    <2>2. CASE RedisStep(c)
      BY <1>1, <2>2
      DEF RedisStep, RedisTryAcquire, RedisAcquireBegin, AcquireBegin, RedisAcquireTries,
          RedisAcquireFails, RedisAcquirePolls, RedisAcquireTimedOut, AcquireTimedOut,
          RedisRelease, RedisExtend, RedisCallFails, Answered, Granted, Refused, Extended, AnswerLost
    <2>3. QED BY <1>5, <2>1, <2>2
  <1>6. QED
    BY <1>3, <1>4, <1>5 DEF LockNext, Next, RedisNext, Tick, RedisTick, lockVars

(* Both backends implement what DistributedLock promises: a key has one      *)
(* owner, changes hands only through being free, and its owner loses it only *)
(* by its own call or when its time is over.                                 *)
THEOREM LockImplementsLease == LockSpec => ImplementsLeaseLock
  <1>1. RedisInit => Lease!LeaseInit
    <2> SUFFICES ASSUME RedisInit
                 PROVE  Owner = [k \in Keys |-> Nobody]
      BY DEF Lease!LeaseInit
    <2>1. \A c \in Clients : handle[c].lease = 0
      BY DEF RedisInit, Init, NoHandle
    <2>2. QED BY <2>1 DEF Owner
  <1>2. RInv /\ RInv' /\ [LockNext]_lockVars => [Lease!LeaseNext]_Owner
    <2> SUFFICES ASSUME RInv, RInv', [LockNext]_lockVars
                 PROVE  [Lease!LeaseNext]_Owner
      OBVIOUS
    <2>1. MutualExclusion
      BY RInvImpliesIInv, IInvExcludes
    <2>2. (RInv => MutualExclusion)'
      BY RInvImpliesIInv, IInvExcludes, PTL
    <2>3. \A c \in Clients : handle[c].key \in Keys /\ handle'[c].key \in Keys
      BY DEF RInv, RData, HandleType
    <2>4. QED BY <2>1, <2>2, <2>3, HandleSteps, OwnerStep
  <1>3. QED
    BY <1>1, <1>2, LockInvariance, PTL DEF LockSpec, ImplementsLeaseLock, Lease!LeaseSpec
=============================================================================
