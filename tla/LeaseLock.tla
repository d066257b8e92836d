------------------------------ MODULE LeaseLock ------------------------------
(***************************************************************************)
(* What the DistributedLock trait of rinfra-core/src/lock/mod.rs promises  *)
(* its clients, whatever the backend: a key is held by at most one client, *)
(* it changes hands only by becoming free first, and a client loses it     *)
(* only by releasing it or by outliving the time to live it asked for.     *)
(***************************************************************************)
CONSTANTS Clients, Keys, Nobody

VARIABLE owner     \* who may act as the holder of each key

LeaseInit == owner = [k \in Keys |-> Nobody]

(* try_acquire returned Some, acquire returned Ok, or extend answered true  *)
(* on a lock that had run out and that nobody took over.                    *)
Grant(c, k) ==
  /\ owner[k] = Nobody
  /\ owner' = [owner EXCEPT ![k] = c]

(* Holders release, let go of their handle, or run out of time; several     *)
(* keys can run out at the same instant.                                    *)
Lose(gone) ==
  /\ \A k \in gone : owner[k] # Nobody
  /\ owner' = [k \in Keys |-> IF k \in gone THEN Nobody ELSE owner[k]]

(* A client that holds one key and is granted another one with the handle   *)
(* it keeps stops acting as the holder of the first.                        *)
Exchange(c, k, old) ==
  /\ owner[k] = Nobody /\ owner[old] = c
  /\ owner' = [owner EXCEPT ![k] = c, ![old] = Nobody]

LeaseNext ==
  \/ \E c \in Clients, k \in Keys : Grant(c, k)
  \/ \E c \in Clients, k, old \in Keys : Exchange(c, k, old)
  \/ \E gone \in SUBSET Keys : Lose(gone)

LeaseSpec == LeaseInit /\ [][LeaseNext]_owner
=============================================================================
