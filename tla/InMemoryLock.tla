---------------------------- MODULE InMemoryLock ----------------------------
(***************************************************************************)
(* InMemoryLock of rinfra-plugins/src/lock/memory.rs: a map of entries     *)
(* behind one mutex and one Notify shared by all keys.  try_acquire,       *)
(* release and extend run to their end under the mutex and are one step    *)
(* each; acquire is a loop over try_acquire with steps of others between   *)
(* the refusal, the look at the clock and the creation of the Notified     *)
(* future.                                                                 *)
(*                                                                         *)
(* Time is counted down: the seconds left to an entry, to a client's own   *)
(* lease and to the deadline of an acquire.  Expiry is lazy, as in the     *)
(* code: an entry with no time left stays until a try_acquire meets it.    *)
(***************************************************************************)
EXTENDS Integers

CONSTANTS
  Clients,      \* tasks that use the lock, each with one handle
  Keys,
  MaxTtl,       \* ttl_secs is in 0 .. MaxTtl
  MaxWait,      \* wait_timeout_secs is in 0 .. MaxWait
  Tokens,       \* what Uuid::new_v4 draws from; a token no entry and no
                \*   handle mentions any more can be drawn again
  NoToken,
  Nobody

ASSUME LockAssumption ==
  /\ Keys # {}
  /\ MaxTtl \in Nat /\ MaxWait \in Nat
  /\ NoToken \notin Tokens
  /\ Nobody \notin Clients

VARIABLES
  locks,    \* the map: token of the entry (NoToken: no entry), seconds left
  handle,   \* the LockHandle each client keeps; lease is the time the client
            \*   may still believe to hold it, 0 once it knows it does not
  call      \* the acquire each client is in: where it is, its key, its
            \*   ttl_secs and the seconds left to its deadline

vars == <<locks, handle, call>>

Ttls == 0 .. MaxTtl
NoEntry == [token |-> NoToken, left |-> 0]
AnyKey == CHOOSE k \in Keys : TRUE
NoCall == [at |-> "idle", key |-> AnyKey, ttl |-> 0, left |-> 0]
NoHandle == [key |-> AnyKey, token |-> NoToken, lease |-> 0]

(* "refused": try_acquire returned None; "waiting": inside the select!.     *)
Locations == {"idle", "trying", "refused", "waiting"}

Init ==
  /\ locks = [k \in Keys |-> NoEntry]
  /\ handle = [c \in Clients |-> NoHandle]
  /\ call = [c \in Clients |-> NoCall]

Unused(t) ==
  /\ t \in Tokens
  /\ \A k \in Keys : locks[k].token # t
  /\ \A c \in Clients : handle[c].token # t

(* Defect: an entry that has not expired is taken over. *)
FreeOnLastSecond(k) == locks[k].token = NoToken \/ locks[k].left =< 1

(* No entry, or one that try_acquire removes because now >= expires_at. *)
Free(k) == locks[k].token = NoToken \/ locks[k].left = 0

Grant(c, k, secs) ==
  LET t == CHOOSE u \in Tokens : Unused(u)
  IN  /\ Free(k)
      /\ Unused(t)
      /\ locks' = [locks EXCEPT ![k] = [token |-> t, left |-> secs]]
      /\ handle' = [handle EXCEPT ![c] = [key |-> k, token |-> t, lease |-> secs]]

TryAcquire(c) ==
  /\ call[c].at = "idle"
  /\ \E k \in Keys, secs \in Ttls : Grant(c, k, secs)
  /\ UNCHANGED call

AcquireBegin(c) ==
  /\ call[c].at = "idle"
  /\ \E k \in Keys, secs \in Ttls, wait \in 0 .. MaxWait :
       call' = [call EXCEPT ![c] = [at |-> "trying", key |-> k,
                                    ttl |-> secs, left |-> wait]]
  /\ UNCHANGED <<locks, handle>>

AcquireGranted(c) ==
  /\ call[c].at = "trying"
  /\ Grant(c, call[c].key, call[c].ttl)
  /\ call' = [call EXCEPT ![c] = NoCall]

AcquireRefused(c) ==
  /\ call[c].at = "trying"
  /\ ~ Free(call[c].key)
  /\ call' = [call EXCEPT ![c].at = "refused"]
  /\ UNCHANGED <<locks, handle>>

(* remaining.is_zero(): Err(LockAcquireFailed). *)
AcquireTimedOut(c) ==
  /\ call[c].at = "refused"
  /\ call[c].left = 0
  /\ call' = [call EXCEPT ![c] = NoCall]
  /\ UNCHANGED <<locks, handle>>

(* The Notified future is created here, after the refusal: a release since  *)
(* then has notified nobody.                                                *)
AcquireWait(c) ==
  /\ call[c].at = "refused"
  /\ call[c].left > 0
  /\ call' = [call EXCEPT ![c].at = "waiting"]
  /\ UNCHANGED <<locks, handle>>

(* Defect: the sleep(remaining) branch of the select! is missing. *)
WakeAtDeadlineNever(c) == FALSE /\ UNCHANGED vars

WakeAtDeadline(c) ==
  /\ call[c].at = "waiting"
  /\ call[c].left = 0
  /\ call' = [call EXCEPT ![c].at = "trying"]
  /\ UNCHANGED <<locks, handle>>

(* notify_waiters reaches every client in the select!, whatever its key. *)
NotifyWaiters ==
  call' = [c \in Clients |->
             IF call[c].at = "waiting" THEN [call[c] EXCEPT !.at = "trying"]
                                       ELSE call[c]]

(* Defect: the token of the entry is not compared. *)
MatchesAnyEntry(c) ==
  /\ handle[c].token # NoToken
  /\ locks[handle[c].key].token # NoToken

(* The entry of the handle's key carries the handle's token. *)
Matches(c) ==
  /\ handle[c].token # NoToken
  /\ locks[handle[c].key].token = handle[c].token

Release(c) ==
  /\ call[c].at = "idle"
  /\ Matches(c)
  /\ locks' = [locks EXCEPT ![handle[c].key] = NoEntry]
  /\ handle' = [handle EXCEPT ![c].lease = 0]
  /\ NotifyWaiters

(* Ok(false): the caller learns that it does not hold the lock. *)
ReleaseLate(c) ==
  /\ call[c].at = "idle"
  /\ handle[c].token # NoToken
  /\ ~ Matches(c)
  /\ handle' = [handle EXCEPT ![c].lease = 0]
  /\ UNCHANGED <<locks, call>>

(* extend does not look at the time left: it revives an expired entry that  *)
(* no try_acquire has removed.                                              *)
Extend(c) ==
  /\ call[c].at = "idle"
  /\ Matches(c)
  /\ \E secs \in Ttls :
       /\ locks' = [locks EXCEPT ![handle[c].key].left = secs]
       /\ handle' = [handle EXCEPT ![c].lease = secs]
  /\ UNCHANGED call

Less(n) == IF n = 0 THEN 0 ELSE n - 1

Tick ==
  /\ locks' = [k \in Keys |-> [locks[k] EXCEPT !.left = Less(@)]]
  /\ handle' = [c \in Clients |-> [handle[c] EXCEPT !.lease = Less(@)]]
  /\ call' = [c \in Clients |-> [call[c] EXCEPT !.left = Less(@)]]

Step(c) ==
  \/ TryAcquire(c) \/ AcquireBegin(c) \/ AcquireGranted(c)
  \/ AcquireRefused(c) \/ AcquireTimedOut(c) \/ AcquireWait(c)
  \/ WakeAtDeadline(c) \/ Release(c) \/ ReleaseLate(c) \/ Extend(c)

Next == (\E c \in Clients : Step(c)) \/ Tick

Spec == Init /\ [][Next]_vars

(* Time passes and the runtime polls a task that is ready; nobody is obliged *)
(* to release a lock.                                                        *)
Fairness ==
  /\ WF_vars(Tick)
  /\ \A c \in Clients :
       /\ WF_vars(AcquireGranted(c) \/ AcquireRefused(c))
       /\ WF_vars(AcquireTimedOut(c) \/ AcquireWait(c))
       /\ WF_vars(WakeAtDeadline(c))

FairSpec == Spec /\ Fairness

-----------------------------------------------------------------------------
(* Properties *)

(* The type of every variable. *)
TypeOK ==
  /\ locks \in [Keys -> [token : Tokens \cup {NoToken}, left : Ttls]]
  /\ handle \in [Clients -> [key : Keys, token : Tokens \cup {NoToken}, lease : Ttls]]
  /\ call \in [Clients -> [at : Locations, key : Keys, ttl : Ttls,
                            left : 0 .. MaxWait]]

(* Between its grant and the end of its time to live a client that has not   *)
(* released the lock still owns the entry: no try_acquire, release or extend *)
(* of another client, with a fresh or a stale handle, took it away.          *)
LeaseHonoured ==
  \A c \in Clients :
    handle[c].lease > 0 =>
      /\ Matches(c)
      /\ locks[handle[c].key].left >= handle[c].lease

(* Two clients never believe to hold the same key at the same time, revived  *)
(* and expired locks included.                                               *)
MutualExclusion ==
  \A c, d \in Clients :
    c # d /\ handle[c].lease > 0 /\ handle[d].lease > 0
      => handle[c].key # handle[d].key

(* Who may act as the holder of a key, for the abstract specification. *)
Owner == [k \in Keys |->
            IF \E c \in Clients : handle[c].key = k /\ handle[c].lease > 0
              THEN CHOOSE c \in Clients : handle[c].key = k /\ handle[c].lease > 0
              ELSE Nobody]

Lease == INSTANCE LeaseLock WITH owner <- Owner

(* The lock implements what the trait promises. *)
ImplementsLeaseLock == Lease!LeaseSpec

(* "Acquire a lock, blocking up to wait_timeout_secs": every acquire         *)
(* returns, although a release between the refusal and the creation of the   *)
(* Notified future wakes nobody and an expiry notifies nobody.               *)
AcquireReturns == \A c \in Clients : call[c].at = "trying" ~> call[c].at = "idle"
=============================================================================
