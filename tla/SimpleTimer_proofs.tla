------------------------- MODULE SimpleTimer_proofs -------------------------
(***************************************************************************)
(* The timer on any number of nodes, with any number of tasks and loops:   *)
(* max_concurrent neither leaks nor overflows, list_tasks tells the truth, *)
(* and handlers of a Cluster task overlap only as often as the lock        *)
(* failed.                                                                 *)
(*                                                                         *)
(* For the first two the invariant follows a loop from schedule to its     *)
(* entry: it is never listed twice, and only listed loops are aborted.     *)
(* For the third it charges every handler that runs without its lock to a  *)
(* fault of its own.                                                       *)
(***************************************************************************)
EXTENDS SimpleTimer, FiniteSetTheorems, TLAPS

LoopType ==
  [at : Alive \cup Ended \cup {"none"}, node : Nodes \cup {NoNode},
   id : Ids \cup {NoId}, due : 0 .. MaxTriggers, holds : BOOLEAN,
   aborted : BOOLEAN, status : Status]

Types ==
  /\ loop \in [Loops -> LoopType]
  /\ tasks \in [Nodes -> [Ids -> Loops \cup {NoLoop}]]
  /\ inserting \in [Nodes -> Loops \cup {NoLoop}]
  /\ permits \in [Nodes -> Nat]
  /\ owner \in [Ids -> Loops \cup {NoLoop}]
  /\ now \in 0 .. MaxTriggers /\ faults \in 0 .. MaxFaults
  /\ ran \subseteq Ids \X (0 .. MaxTriggers) \X Loops

(* The locations of a loop that has no lock of this turn. *)
BeforeLock == {"planning", "sleeping", "queued", "locking"}

(* What a loop at its place has to be. *)
FitsPlace(r) ==
  /\ r.at \in Alive =>
       /\ r.node \in Nodes /\ r.id \in Ids
       /\ r.aborted \/ r.status \in {"Scheduled", "Running"}
  /\ r.at \in BeforeLock => r.aborted \/ r.status = "Scheduled"
  /\ r.at = "running" => r.aborted \/ r.status = "Running"
  /\ r.at \in BeforeLock \cup {"recording"} => ~ r.holds
  /\ r.at = "locking" => r.id \in ClusterScope

Placed == \A l \in Loops : FitsPlace(loop[l])

(* A status that agrees with the location. *)
Told(r) ==
  /\ r.at = "done" =>
       \/ r.status \in {"Completed", "Failed"}
       \/ r.status = "Scheduled" /\ r.id \in OneShot \cap ClusterScope
  /\ r.at = "panicked" => r.status = "Running"
  /\ r.at \in Alive => r.status \in {"Scheduled", "Running"}

(* The loop of a task of node n: spawned there, not aborted. *)
Entry(l, n, id) ==
  /\ loop[l].node = n /\ loop[l].id = id
  /\ ~ loop[l].aborted /\ loop[l].at # "none"
  /\ Told(loop[l])

Listed ==
  /\ \A n \in Nodes, id \in Ids :
       tasks[n][id] # NoLoop => Entry(tasks[n][id], n, id)
  /\ \A n \in Nodes :
       inserting[n] # NoLoop =>
         /\ loop[inserting[n]].id \in Ids
         /\ Entry(inserting[n], n, loop[inserting[n]].id)
         /\ \A m \in Nodes, id \in Ids : tasks[m][id] # inserting[n]

(* The loops of a task between the lock and the end of the handler that do   *)
(* not hold the lock they took.                                              *)
Unlocked(id) ==
  {l \in Loops : /\ loop[l].id = id /\ loop[l].at \in {"starting", "running"}
                 /\ ~ (loop[l].holds /\ owner[id] = l)}

(* Each of them costs a fault. *)
Charged == \A id \in ClusterScope : Cardinality(Unlocked(id)) =< faults

TInv == Types /\ Placed /\ Listed /\ PermitsAccounted /\ Charged

(* The loops of a node that have a permit. *)
Permitted(n) == {l \in Loops : loop[l].node = n /\ loop[l].at \in WithPermit}

(* r is the state of loop l after a step of its own. *)
Moves(l, r) ==
  /\ loop[l].at \in Alive
  /\ r \in LoopType /\ r.at \in Alive \cup Ended
  /\ r.node = loop[l].node /\ r.id = loop[l].id /\ r.aborted = loop[l].aborted
  /\ loop' = [loop EXCEPT ![l] = r]
  /\ tasks' = tasks /\ inserting' = inserting

(* The numbers of a step of loop l's permit. *)
PermitMoves(l, at) ==
  \/ loop[l].at \in WithPermit /\ at \in WithPermit /\ permits' = permits
  \/ loop[l].at \notin WithPermit /\ at \notin WithPermit /\ permits' = permits
  \/ /\ loop[l].at \in WithPermit /\ at \notin WithPermit
     /\ permits' = [permits EXCEPT ![loop[l].node] = @ + 1]
  \/ /\ loop[l].at \notin WithPermit /\ at \in WithPermit
     /\ permits[loop[l].node] > 0
     /\ permits' = [permits EXCEPT ![loop[l].node] = @ - 1]

(* Sets of loops are finite. *)
LEMMA FiniteLoops ==
  ASSUME NEW S \in SUBSET Loops
  PROVE  IsFiniteSet(S) /\ Cardinality(S) \in Nat
  BY TimerAssumption, FS_Subset, FS_CardinalityType

(* A loop that takes or drops a permit changes the count of its node by one. *)
LEMMA PermitsMove ==
  ASSUME Types, Placed, PermitsAccounted, NEW l \in Loops, loop[l].at \in Alive,
         NEW r \in LoopType, r.node = loop[l].node,
         loop' = [loop EXCEPT ![l] = r], PermitMoves(l, r.at)
  PROVE  permits' \in [Nodes -> Nat] /\ PermitsAccounted'
  <1> USE TimerAssumption
  <1>1. loop[l].node \in Nodes
    BY DEF Placed, FitsPlace
  <1>2. \A k \in Loops : loop'[k] = IF k = l THEN r ELSE loop[k]
    BY DEF Types
  <1>3. permits \in [Nodes -> Nat]
    BY DEF Types
  <1>4. permits' \in [Nodes -> Nat]
    BY <1>1, <1>3 DEF PermitMoves
  <1>5. ASSUME NEW n \in Nodes
        PROVE  permits'[n] + Cardinality(Permitted(n)') = MaxConcurrent
    <2> DEFINE S == Permitted(n)
               T == Permitted(n)'
    <2>1. S \in SUBSET Loops /\ T \in SUBSET Loops
      BY DEF Permitted
    <2>2. IsFiniteSet(S) /\ Cardinality(S) \in Nat
      BY <2>1, FiniteLoops
    <2>3. permits[n] + Cardinality(S) = MaxConcurrent /\ permits[n] \in Nat
      BY <1>3 DEF PermitsAccounted, Permitted
    <2>4. T = {k \in Loops : loop'[k].node = n /\ loop'[k].at \in WithPermit}
      BY DEF Permitted
    <2>5. CASE n # loop[l].node \/ (loop[l].at \in WithPermit <=> r.at \in WithPermit)
      <3>1. T = S
        BY <1>2, <2>4, <2>5 DEF Permitted
      <3>2. permits'[n] = permits[n]
        BY <1>1, <1>3, <2>5 DEF PermitMoves
      <3>3. QED BY <2>3, <3>1, <3>2
    <2>6. CASE n = loop[l].node /\ loop[l].at \in WithPermit /\ r.at \notin WithPermit
      <3>1. T = S \ {l} /\ l \in S
        BY <1>2, <2>4, <2>6 DEF Permitted
      <3>2. permits'[n] = permits[n] + 1
        BY <1>1, <1>3, <2>6 DEF PermitMoves
      <3> HIDE DEF S, T
      <3>3. Cardinality(T) = Cardinality(S) - 1
        BY <2>2, <3>1, FS_RemoveElement
      <3>4. QED BY <2>2, <2>3, <3>2, <3>3 DEF T
    <2>7. CASE n = loop[l].node /\ loop[l].at \notin WithPermit /\ r.at \in WithPermit
      <3>1. T = S \cup {l} /\ l \notin S
        BY <1>2, <2>4, <2>7 DEF Permitted
      <3>2. permits'[n] = permits[n] - 1
        BY <1>1, <1>3, <2>7 DEF PermitMoves
      <3> HIDE DEF S, T
      <3>3. Cardinality(T) = Cardinality(S) + 1
        BY <2>2, <3>1, FS_AddElement
      <3>4. QED BY <2>2, <2>3, <3>2, <3>3 DEF T
    <2>8. QED BY <2>5, <2>6, <2>7
  <1>6. QED BY <1>4, <1>5 DEF PermitsAccounted, Permitted

(* A step that leaves nodes and locations of the loops and the permits alone. *)
LEMMA PermitsStay ==
  ASSUME PermitsAccounted, permits' = permits,
         \A l \in Loops : /\ loop'[l].node = loop[l].node \/ loop[l].at \notin WithPermit
                          /\ loop'[l].at \in WithPermit <=> loop[l].at \in WithPermit
  PROVE  PermitsAccounted'
  <1>1. \A n \in Nodes :
          {l \in Loops : loop'[l].node = n /\ loop'[l].at \in WithPermit}
            = {l \in Loops : loop[l].node = n /\ loop[l].at \in WithPermit}
    OBVIOUS
  <1>2. QED BY <1>1 DEF PermitsAccounted

(* Handlers without a lock: one more at most, and only at the price of a      *)
(* fault.                                                                     *)
LEMMA ChargedStep ==
  ASSUME Types, Charged, NEW l \in Loops, faults' \in {faults, faults + 1},
         \A id \in ClusterScope :
           \/ Unlocked(id)' \subseteq Unlocked(id)
           \/ faults' = faults + 1 /\ Unlocked(id)' \subseteq Unlocked(id) \cup {l}
  PROVE  Charged'
  <1> SUFFICES ASSUME NEW id \in ClusterScope
               PROVE  Cardinality(Unlocked(id)') =< faults'
    BY DEF Charged
  <1> DEFINE S == Unlocked(id)
             T == Unlocked(id)'
  <1>1. S \in SUBSET Loops /\ T \in SUBSET Loops
    BY DEF Unlocked
  <1>2. faults \in Nat /\ Cardinality(S) =< faults
    BY TimerAssumption DEF Types, Charged
  <1>3. IsFiniteSet(S) /\ Cardinality(S) \in Nat /\ Cardinality(T) \in Nat
    BY <1>1, FiniteLoops
  <1> HIDE DEF S, T
  <1>4. CASE T \subseteq S
    <2>1. Cardinality(T) =< Cardinality(S)
      BY <1>3, <1>4, FS_Subset
    <2>2. QED BY <1>2, <1>3, <2>1 DEF T
  <1>5. CASE faults' = faults + 1 /\ T \subseteq S \cup {l}
    <2>1. /\ IsFiniteSet(S \cup {l})
          /\ Cardinality(S \cup {l})
               = IF l \in S THEN Cardinality(S) ELSE Cardinality(S) + 1
      BY <1>3, FS_AddElement
    <2>2. Cardinality(T) =< Cardinality(S \cup {l})
      BY <1>5, <2>1, FS_Subset
    <2>3. QED BY <1>2, <1>3, <1>5, <2>1, <2>2 DEF T
  <1>6. QED BY <1>4, <1>5 DEF S, T

(* The entries stay true through a step of a loop's own. *)
LEMMA ListedMove ==
  ASSUME Types, Listed, NEW l \in Loops, loop[l].at # "none",
         NEW r \in LoopType, r.node = loop[l].node, r.id = loop[l].id,
         r.aborted = loop[l].aborted, r.at # "none", loop[l].aborted \/ Told(r),
         loop' = [loop EXCEPT ![l] = r], tasks' = tasks, inserting' = inserting
  PROVE  Listed'
  <1>1. \A k \in Loops : loop'[k] = IF k = l THEN r ELSE loop[k]
    BY DEF Types
  <1>2. \A k \in Loops, n \in Nodes, id \in Ids : Entry(k, n, id) => Entry(k, n, id)'
    BY <1>1 DEF Entry
  <1>3. \A k \in Loops : loop'[k].id = loop[k].id
    BY <1>1
  <1>4. \A n \in Nodes : inserting[n] \in Loops \cup {NoLoop}
    BY DEF Types
  <1>5. \A n \in Nodes, id \in Ids : tasks[n][id] \in Loops \cup {NoLoop}
    BY DEF Types
  <1>6. QED BY <1>2, <1>3, <1>4, <1>5 DEF Listed

(* What is the same for every step of spawn_timer_loop. *)
LEMMA MovedStep ==
  ASSUME TInv, NEW l \in Loops, NEW r, Moves(l, r), PermitMoves(l, r.at),
         FitsPlace(r), r.aborted \/ Told(r)
  PROVE  /\ loop' \in [Loops -> LoopType]
         /\ permits' \in [Nodes -> Nat]
         /\ Placed' /\ Listed' /\ PermitsAccounted'
  <1>1. Types /\ Placed /\ Listed /\ PermitsAccounted
    BY DEF TInv
  <1>2. /\ r \in LoopType /\ loop' = [loop EXCEPT ![l] = r] /\ loop[l].at \in Alive
        /\ r.node = loop[l].node /\ r.id = loop[l].id /\ r.aborted = loop[l].aborted
        /\ tasks' = tasks /\ inserting' = inserting
    BY DEF Moves
  <1>3. r.at # "none" /\ loop[l].at # "none"
    BY DEF Moves, Alive, Ended, WithPermit
  <1>4. loop' \in [Loops -> LoopType]
          /\ \A k \in Loops : loop'[k] = IF k = l THEN r ELSE loop[k]
    BY <1>1, <1>2 DEF Types
  <1>5. Placed'
    BY <1>1, <1>4 DEF Placed
  <1>6. Listed'
    BY <1>1, <1>2, <1>3, ListedMove
  <1>7. permits' \in [Nodes -> Nat] /\ PermitsAccounted'
    BY <1>1, <1>2, PermitsMove
  <1>8. QED BY <1>4, <1>5, <1>6, <1>7

(* A loop that moves without a change of the lock is unlocked afterwards only  *)
(* if it was before, or if it had not come to the handler.                     *)
LEMMA ChargedMove ==
  ASSUME Types, NEW l \in Loops, NEW r \in LoopType, r.id = loop[l].id,
         loop' = [loop EXCEPT ![l] = r], owner' = owner,
         \/ r.at \notin {"starting", "running"}
         \/ loop[l].at \in {"starting", "running"} /\ r.holds = loop[l].holds
         \/ r.id \notin ClusterScope
  PROVE  \A id \in ClusterScope : Unlocked(id)' \subseteq Unlocked(id)
  <1>1. \A k \in Loops : loop'[k] = IF k = l THEN r ELSE loop[k]
    BY DEF Types
  <1>2. QED BY <1>1 DEF Unlocked

(* A step of a loop that leaves the lock alone. *)
LEMMA PlainMove ==
  ASSUME TInv, NEW l \in Loops, NEW r, Moves(l, r), PermitMoves(l, r.at),
         r.at \in BeforeLock => r.aborted \/ r.status = "Scheduled",
         r.at \in {"running", "panicked"} => r.aborted \/ r.status = "Running",
         r.at \in BeforeLock \cup {"recording"} => ~ r.holds,
         r.at \in Alive => r.aborted \/ r.status \in {"Scheduled", "Running"},
         r.at = "locking" => r.id \in ClusterScope,
         r.at = "done" =>
           \/ r.aborted \/ r.status \in {"Completed", "Failed"}
           \/ r.status = "Scheduled" /\ r.id \in OneShot \cap ClusterScope,
         \/ r.at \notin {"starting", "running"}
         \/ loop[l].at \in {"starting", "running"} /\ r.holds = loop[l].holds
         \/ r.id \notin ClusterScope,
         owner' = owner, faults' = faults, now' = now,
         ran' \subseteq Ids \X (0 .. MaxTriggers) \X Loops
  PROVE  TInv'
  <1>1. Types /\ Charged /\ FitsPlace(loop[l])
    BY DEF TInv, Placed
  <1>2. r.node \in Nodes /\ r.id \in Ids
    BY <1>1 DEF FitsPlace, Moves
  <1>3. FitsPlace(r) /\ (r.aborted \/ Told(r))
    BY <1>2 DEF FitsPlace, Told, Alive, WithPermit
  <1>4. /\ loop' \in [Loops -> LoopType] /\ permits' \in [Nodes -> Nat]
        /\ Placed' /\ Listed' /\ PermitsAccounted'
    BY <1>3, MovedStep
  <1>5. r \in LoopType /\ loop' = [loop EXCEPT ![l] = r] /\ r.id = loop[l].id
          /\ tasks' = tasks /\ inserting' = inserting
    BY DEF Moves
  <1>6. \A id \in ClusterScope : Unlocked(id)' \subseteq Unlocked(id)
    BY <1>1, <1>5, ChargedMove
  <1>7. Charged'
    BY <1>1, <1>6, ChargedStep
  <1>8. Types'
    BY <1>1, <1>4, <1>5 DEF Types
  <1>9. QED BY <1>4, <1>7, <1>8 DEF TInv

(* The steps of a turn before the lock and after the handler: the lock is not *)
(* touched.                                                                   *)
LEMMA PlainMoves ==
  ASSUME TInv, NEW l \in Loops,
         \/ Plan(l) \/ PlanFails(l) \/ Fire(l) \/ TakePermit(l) \/ LockRefused(l)
         \/ Start(l) \/ HandlerReturns(l) \/ HandlerPanics(l) \/ Record(l) \/ Die(l)
  PROVE  TInv'
  <1> USE TimerAssumption
  <1> DEFINE q == loop[l]
  <1>1. q \in LoopType /\ loop \in [Loops -> LoopType]
    BY DEF TInv, Types
  <1>2. /\ q.at \in Alive => q.id \in Ids /\ (q.aborted \/ q.status \in {"Scheduled", "Running"})
        /\ q.at \in BeforeLock => q.aborted \/ q.status = "Scheduled"
        /\ q.at = "running" => q.aborted \/ q.status = "Running"
        /\ q.at \in BeforeLock \cup {"recording"} => ~ q.holds
        /\ q.at = "locking" => q.id \in ClusterScope
    BY DEF TInv, Placed, FitsPlace
  <1>3. /\ now \in 0 .. MaxTriggers /\ q.due \in 0 .. MaxTriggers
        /\ ran \subseteq Ids \X (0 .. MaxTriggers) \X Loops
    BY <1>1 DEF TInv, Types, LoopType
  <1>4. CASE Plan(l)
    <2> DEFINE due == IF Recurring(q.id) THEN now + 1 ELSE 1
               r == [q EXCEPT !.at = "sleeping", !.status = "Scheduled", !.due = due]
    <2>1. r \in LoopType
      <3>1. due \in 0 .. MaxTriggers
        BY <1>3, <1>4 DEF Plan
      <3> HIDE DEF due
      <3>2. QED BY <1>1, <3>1 DEF LoopType, Alive, Ended, WithPermit, Status
    <2>2. /\ r.node = q.node /\ r.id = q.id /\ r.aborted = q.aborted
          /\ r.at = "sleeping" /\ r.status = "Scheduled" /\ r.holds = q.holds
      BY <1>1 DEF LoopType
    <2>3. loop' = [loop EXCEPT ![l] = r] /\ q.at = "planning"
      BY <1>1, <1>4 DEF Plan
    <2> HIDE DEF r
    <2>4. Moves(l, r) /\ PermitMoves(l, r.at)
      BY <1>4, <2>1, <2>2, <2>3 DEF Moves, PermitMoves, Ended, Plan, Alive, WithPermit
    <2>5. QED
      BY <1>2, <1>3, <1>4, <2>2, <2>3, <2>4, PlainMove DEF Plan, Alive, WithPermit, BeforeLock
  <1>5. CASE PlanFails(l)
    <2> DEFINE r == [q EXCEPT !.at = "done", !.status = "Failed"]
    <2>1. r \in LoopType
      BY <1>1 DEF LoopType, Alive, Ended, WithPermit, Status
    <2>2. /\ r.node = q.node /\ r.id = q.id /\ r.aborted = q.aborted
          /\ r.at = "done" /\ r.status = "Failed"
      BY <1>1 DEF LoopType
    <2>3. loop' = [loop EXCEPT ![l] = r] /\ q.at = "planning"
      BY <1>1, <1>5 DEF PlanFails
    <2> HIDE DEF r
    <2>4. Moves(l, r) /\ PermitMoves(l, r.at)
      BY <1>5, <2>1, <2>2, <2>3 DEF Moves, PermitMoves, Ended, PlanFails, Alive, WithPermit
    <2>5. QED
      BY <1>2, <1>3, <1>5, <2>2, <2>3, <2>4, PlainMove DEF PlanFails, Alive, WithPermit, BeforeLock
  <1>6. CASE Fire(l)
    <2> DEFINE r == [q EXCEPT !.at = "queued"]
    <2>1. r \in LoopType
      BY <1>1 DEF LoopType, Alive, Ended, WithPermit, Status
    <2>2. /\ r.node = q.node /\ r.id = q.id /\ r.aborted = q.aborted
          /\ r.at = "queued" /\ r.status = q.status /\ r.holds = q.holds
      BY <1>1 DEF LoopType
    <2>3. loop' = [loop EXCEPT ![l] = r] /\ q.at = "sleeping"
      BY <1>1, <1>6 DEF Goto, Fire
    <2> HIDE DEF r
    <2>4. Moves(l, r) /\ PermitMoves(l, r.at)
      BY <1>6, <2>1, <2>2, <2>3 DEF Moves, PermitMoves, Ended, Fire, Alive, WithPermit
    <2>5. QED
      BY <1>2, <1>3, <1>6, <2>2, <2>3, <2>4, PlainMove DEF Fire, Alive, WithPermit, BeforeLock
  <1>7. CASE TakePermit(l)
    <2> DEFINE r == [q EXCEPT !.at = IF q.id \in ClusterScope THEN "locking" ELSE "starting"]
    <2>1. r \in LoopType
      BY <1>1 DEF LoopType, Alive, Ended, WithPermit, Status
    <2>2. /\ r.node = q.node /\ r.id = q.id /\ r.aborted = q.aborted
          /\ r.at = IF q.id \in ClusterScope THEN "locking" ELSE "starting"
          /\ r.status = q.status /\ r.holds = q.holds
      BY <1>1 DEF LoopType
    <2>3. loop' = [loop EXCEPT ![l] = r] /\ q.at = "queued"
      BY <1>1, <1>7 DEF Goto, TakePermit
    <2> HIDE DEF r
    <2>4. Moves(l, r) /\ PermitMoves(l, r.at)
      BY <1>7, <2>1, <2>2, <2>3 DEF Moves, PermitMoves, Ended, TakePermit, Alive, WithPermit
    <2>5. QED
      BY <1>2, <1>3, <1>7, <2>2, <2>3, <2>4, PlainMove DEF TakePermit, Alive, WithPermit, BeforeLock
  <1>8. CASE LockRefused(l)
    <2> DEFINE r == [q EXCEPT !.at = IF Recurring(q.id) THEN "planning" ELSE "done"]
    <2>1. r \in LoopType
      BY <1>1 DEF LoopType, Alive, Ended, WithPermit, Status, Recurring
    <2>2. /\ r.node = q.node /\ r.id = q.id /\ r.aborted = q.aborted
          /\ r.at = IF q.id \notin OneShot THEN "planning" ELSE "done"
          /\ r.status = q.status /\ r.holds = q.holds
      BY <1>1 DEF LoopType, Recurring
    <2>3. loop' = [loop EXCEPT ![l] = r] /\ q.at = "locking"
      BY <1>1, <1>8 DEF Goto, Recurring, LockRefused
    <2> HIDE DEF r
    <2>4. Moves(l, r) /\ PermitMoves(l, r.at)
      BY <1>8, <2>1, <2>2, <2>3 DEF Moves, PermitMoves, Ended, LockRefused, DropPermit, Alive, WithPermit
    <2>5. QED
      BY <1>2, <1>3, <1>8, <2>2, <2>3, <2>4, PlainMove DEF LockRefused, Alive, WithPermit, BeforeLock
  <1>9. CASE Start(l)
    <2> DEFINE r == [q EXCEPT !.at = "running", !.status = "Running"]
    <2>1. r \in LoopType
      BY <1>1 DEF LoopType, Alive, Ended, WithPermit, Status
    <2>2. /\ r.node = q.node /\ r.id = q.id /\ r.aborted = q.aborted
          /\ r.at = "running" /\ r.status = "Running" /\ r.holds = q.holds
      BY <1>1 DEF LoopType
    <2>3. loop' = [loop EXCEPT ![l] = r] /\ q.at = "starting"
      BY <1>1, <1>9 DEF Start
    <2> HIDE DEF r
    <2>4. Moves(l, r) /\ PermitMoves(l, r.at)
      BY <1>9, <2>1, <2>2, <2>3 DEF Moves, PermitMoves, Ended, Start, Alive, WithPermit
    <2>5. ran' \subseteq Ids \X (0 .. MaxTriggers) \X Loops
      BY <1>2, <1>3, <1>9 DEF Start, Alive, WithPermit
    <2>6. QED
      BY <1>2, <1>9, <2>2, <2>3, <2>4, <2>5, PlainMove DEF Start, Alive, WithPermit, BeforeLock
  <1>10. CASE HandlerReturns(l)
    <2> DEFINE r == [q EXCEPT !.at = IF q.holds THEN "releasing" ELSE "recording"]
    <2>1. r \in LoopType
      BY <1>1 DEF LoopType, Alive, Ended, WithPermit, Status
    <2>2. /\ r.node = q.node /\ r.id = q.id /\ r.aborted = q.aborted
          /\ r.at = IF q.holds THEN "releasing" ELSE "recording"
          /\ r.status = q.status /\ r.holds = q.holds
      BY <1>1 DEF LoopType
    <2>3. loop' = [loop EXCEPT ![l] = r] /\ q.at = "running"
      BY <1>1, <1>10 DEF Goto, HandlerReturns
    <2> HIDE DEF r
    <2>4. Moves(l, r) /\ PermitMoves(l, r.at)
      BY <1>10, <2>1, <2>2, <2>3 DEF Moves, PermitMoves, Ended, HandlerReturns, Alive, WithPermit
    <2>5. QED
      BY <1>2, <1>3, <1>10, <2>2, <2>3, <2>4, PlainMove DEF HandlerReturns, Alive, WithPermit, BeforeLock
  <1>11. CASE Record(l) /\ Recurring(q.id)
    <2> DEFINE r == [q EXCEPT !.at = "planning", !.status = "Scheduled"]
    <2>1. r \in LoopType
      BY <1>1 DEF LoopType, Alive, Ended, WithPermit, Status
    <2>2. /\ r.node = q.node /\ r.id = q.id /\ r.aborted = q.aborted
          /\ r.at = "planning" /\ r.status = "Scheduled" /\ r.holds = q.holds
      BY <1>1 DEF LoopType
    <2>3. loop' = [loop EXCEPT ![l] = r] /\ q.at = "recording"
      BY <1>1, <1>11 DEF Record
    <2> HIDE DEF r
    <2>4. Moves(l, r) /\ PermitMoves(l, r.at)
      BY <1>11, <2>1, <2>2, <2>3 DEF Moves, PermitMoves, Ended, Record, DropPermit, Alive, WithPermit
    <2>5. QED
      BY <1>2, <1>3, <1>11, <2>2, <2>3, <2>4, PlainMove DEF Record, Alive, WithPermit, BeforeLock
  <1>12. CASE Record(l) /\ ~ Recurring(q.id)
    <2> PICK result \in {"Completed", "Failed"} :
          loop' = [loop EXCEPT ![l].at = "done", ![l].status = result]
      BY <1>12 DEF Record
    <2> DEFINE r == [q EXCEPT !.at = "done", !.status = result]
    <2>1. r \in LoopType
      BY <1>1 DEF LoopType, Alive, Ended, WithPermit, Status
    <2>2. /\ r.node = q.node /\ r.id = q.id /\ r.aborted = q.aborted
          /\ r.at = "done" /\ r.status = result
      BY <1>1 DEF LoopType
    <2>3. loop' = [loop EXCEPT ![l] = r] /\ q.at = "recording"
      BY <1>1, <1>12 DEF Record
    <2> HIDE DEF r
    <2>4. Moves(l, r) /\ PermitMoves(l, r.at)
      BY <1>12, <2>1, <2>2, <2>3 DEF Moves, PermitMoves, Ended, Record, DropPermit, Alive, WithPermit
    <2>5. QED
      BY <1>2, <1>3, <1>12, <2>2, <2>3, <2>4, PlainMove DEF Record, Alive, WithPermit, BeforeLock
  <1>13. CASE Die(l)
    <2> DEFINE r == [q EXCEPT !.at = "done"]
    <2>1. r \in LoopType
      BY <1>1 DEF LoopType, Alive, Ended, WithPermit, Status
    <2>2. /\ r.node = q.node /\ r.id = q.id /\ r.aborted = q.aborted
          /\ r.at = "done"
      BY <1>1 DEF LoopType
    <2>3. loop' = [loop EXCEPT ![l] = r] /\ q.at \in Alive /\ q.aborted
      BY <1>1, <1>13 DEF Goto, Die
    <2> HIDE DEF r
    <2>4. Moves(l, r) /\ PermitMoves(l, r.at)
      BY <1>13, <2>1, <2>2, <2>3 DEF Moves, PermitMoves, Ended, Die, DropPermit, Alive, WithPermit
    <2>5. QED
      BY <1>2, <1>3, <1>13, <2>2, <2>3, <2>4, PlainMove DEF Die, Alive, WithPermit, BeforeLock
  <1>14. CASE HandlerPanics(l)
    <2> DEFINE r == [q EXCEPT !.at = "panicked"]
    <2>1. r \in LoopType
      BY <1>1 DEF LoopType, Alive, Ended, WithPermit, Status
    <2>2. /\ r.node = q.node /\ r.id = q.id /\ r.aborted = q.aborted
          /\ r.at = "panicked" /\ r.status = q.status
      BY <1>1 DEF LoopType
    <2>3. loop' = [loop EXCEPT ![l] = r] /\ q.at = "running"
      BY <1>1, <1>14 DEF Goto, HandlerPanics
    <2> HIDE DEF r
    <2>4. Moves(l, r) /\ PermitMoves(l, r.at)
      BY <1>14, <2>1, <2>2, <2>3 DEF Moves, PermitMoves, Ended, HandlerPanics, DropPermit, Alive, WithPermit
    <2>5. QED
      BY <1>2, <1>3, <1>14, <2>2, <2>3, <2>4, PlainMove DEF HandlerPanics, Alive, WithPermit, BeforeLock
  <1>15. QED
    BY <1>4, <1>5, <1>6, <1>7, <1>8, <1>9, <1>10, <1>11, <1>12, <1>13, <1>14

(* A grant of the lock, as a value of owner. *)
LEMMA OwnerGranted ==
  ASSUME Types, NEW l \in Loops, NEW id \in Ids, Lock!Grant(l, id)
  PROVE  /\ owner' \in [Ids -> Loops \cup {NoLoop}] /\ owner[id] = NoLoop
         /\ \A i \in Ids : owner'[i] = IF i = id THEN l ELSE owner[i]
  BY DEF Lock!Grant, Types

(* A lock that is given back or runs out. *)
LEMMA OwnerLost ==
  ASSUME Types, NEW id \in Ids, Lock!Lose({id})
  PROVE  /\ owner' \in [Ids -> Loops \cup {NoLoop}]
         /\ \A i \in Ids : owner'[i] = IF i = id THEN NoLoop ELSE owner[i]
  BY DEF Lock!Lose, Types

(* The steps of a turn that use the lock.  A loop that starts its handler     *)
(* either has the lock or met an error, which is the fault it is charged to.  *)
LEMMA LockMoves ==
  ASSUME TInv, NEW l \in Loops, LockGranted(l) \/ LockError(l) \/ Release(l)
  PROVE  TInv'
  <1> USE TimerAssumption
  <1> DEFINE q == loop[l]
  <1>1. q \in LoopType /\ loop \in [Loops -> LoopType] /\ Types /\ Charged
    BY DEF TInv, Types
  <1>2. /\ q.at \in Alive => q.node \in Nodes /\ q.id \in Ids
        /\ q.at \in Alive => q.aborted \/ q.status \in {"Scheduled", "Running"}
    BY DEF TInv, Placed, FitsPlace
  <1>3. /\ q.at = "locking" => ~ q.holds
        /\ {"locking", "starting", "releasing", "recording"} \subseteq WithPermit \cap Alive
    BY DEF TInv, Placed, FitsPlace, BeforeLock, Alive, WithPermit
  <1>4. faults \in 0 .. MaxFaults
    BY <1>1 DEF Types
  <1>5. CASE LockGranted(l)
    <2> DEFINE r == [q EXCEPT !.at = "starting", !.holds = TRUE]
    <2>1. r \in LoopType
      BY <1>1 DEF LoopType, Alive, Ended, WithPermit
    <2>2. /\ r.node = q.node /\ r.id = q.id /\ r.aborted = q.aborted
          /\ r.at = "starting" /\ r.holds /\ r.status = q.status
      BY <1>1 DEF LoopType
    <2>3. loop' = [loop EXCEPT ![l] = r] /\ q.at = "locking"
      BY <1>1, <1>5 DEF LockGranted
    <2> HIDE DEF r
    <2>4. Moves(l, r) /\ PermitMoves(l, r.at)
      BY <1>3, <1>5, <2>1, <2>2, <2>3 DEF Moves, PermitMoves, Ended, LockGranted
    <2>5. FitsPlace(r) /\ (r.aborted \/ Told(r))
      BY <1>2, <1>3, <2>2, <2>3 DEF FitsPlace, Told, BeforeLock
    <2>6. /\ loop' \in [Loops -> LoopType] /\ permits' \in [Nodes -> Nat]
          /\ Placed' /\ Listed' /\ PermitsAccounted'
      BY <2>4, <2>5, MovedStep
    <2>7. /\ owner' \in [Ids -> Loops \cup {NoLoop}] /\ owner[q.id] = NoLoop
          /\ \A i \in Ids : owner'[i] = IF i = q.id THEN l ELSE owner[i]
      <3>1. q.id \in Ids /\ Lock!Grant(l, q.id)
        BY <1>2, <1>3, <1>5, <2>3 DEF LockGranted
      <3> HIDE DEF q
      <3>2. QED BY <1>1, <3>1, OwnerGranted
    <2>8. \A k \in Loops : loop'[k] = IF k = l THEN r ELSE loop[k]
      BY <1>1, <2>3
    <2>9. \A id \in ClusterScope : Unlocked(id)' \subseteq Unlocked(id)
      <3> SUFFICES ASSUME NEW id \in ClusterScope, NEW k \in Loops, k \in Unlocked(id)'
                   PROVE  k \in Unlocked(id)
        BY DEF Unlocked
      <3>1. /\ loop'[k].id = id /\ loop'[k].at \in {"starting", "running"}
            /\ ~ (loop'[k].holds /\ owner'[id] = k)
        BY DEF Unlocked
      <3>2. k # l
        BY <2>2, <2>7, <2>8, <3>1
      <3>3. QED BY <2>7, <2>8, <3>1, <3>2 DEF Unlocked
    <2>10. Charged'
      BY <1>1, <1>5, <2>9, ChargedStep DEF LockGranted
    <2>11. QED
      BY <1>1, <1>5, <2>6, <2>7, <2>10 DEF TInv, Types, LockGranted
  <1>6. CASE LockError(l)
    <2> DEFINE r == [q EXCEPT !.at = "starting"]
    <2>1. r \in LoopType
      BY <1>1 DEF LoopType, Alive, Ended, WithPermit
    <2>2. /\ r.node = q.node /\ r.id = q.id /\ r.aborted = q.aborted
          /\ r.at = "starting" /\ r.holds = q.holds /\ r.status = q.status
      BY <1>1 DEF LoopType
    <2>3. loop' = [loop EXCEPT ![l] = r] /\ q.at = "locking"
      BY <1>1, <1>6 DEF LockError, Goto
    <2> HIDE DEF r
    <2>4. Moves(l, r) /\ PermitMoves(l, r.at)
      BY <1>3, <1>6, <2>1, <2>2, <2>3 DEF Moves, PermitMoves, Ended, LockError
    <2>5. FitsPlace(r) /\ (r.aborted \/ Told(r))
      BY <1>2, <1>3, <2>2, <2>3 DEF FitsPlace, Told, BeforeLock
    <2>6. /\ loop' \in [Loops -> LoopType] /\ permits' \in [Nodes -> Nat]
          /\ Placed' /\ Listed' /\ PermitsAccounted'
      BY <2>4, <2>5, MovedStep
    <2>7. faults' = faults + 1 /\ faults' \in 0 .. MaxFaults
      BY <1>4, <1>6 DEF LockError, Fault
    <2>8. /\ owner' \in [Ids -> Loops \cup {NoLoop}]
          /\ \A i \in Ids : owner'[i] # owner[i] => owner[i] = NoLoop
      <3>1. q.id \in Ids /\ (Lock!Grant(l, q.id) \/ owner' = owner)
        BY <1>2, <1>3, <1>6, <2>3 DEF LockError
      <3> HIDE DEF q
      <3>2. QED BY <1>1, <3>1, OwnerGranted DEF Types
    <2>9. \A k \in Loops : loop'[k] = IF k = l THEN r ELSE loop[k]
      BY <1>1, <2>3
    <2>10. \A id \in ClusterScope : Unlocked(id)' \subseteq Unlocked(id) \cup {l}
      BY <2>8, <2>9 DEF Unlocked
    <2>11. Charged'
      BY <1>1, <2>7, <2>10, ChargedStep
    <2>12. QED
      BY <1>1, <1>6, <2>6, <2>7, <2>8, <2>11 DEF TInv, Types, LockError
  <1>7. CASE Release(l)
    <2> DEFINE r == [q EXCEPT !.at = "recording", !.holds = FALSE]
    <2>1. r \in LoopType
      BY <1>1 DEF LoopType, Alive, Ended, WithPermit
    <2>2. /\ r.node = q.node /\ r.id = q.id /\ r.aborted = q.aborted
          /\ r.at = "recording" /\ ~ r.holds /\ r.status = q.status
      BY <1>1 DEF LoopType
    <2>3. loop' = [loop EXCEPT ![l] = r] /\ q.at = "releasing"
      BY <1>1, <1>7 DEF Release
    <2> HIDE DEF r
    <2>4. Moves(l, r) /\ PermitMoves(l, r.at)
      BY <1>3, <1>7, <2>1, <2>2, <2>3 DEF Moves, PermitMoves, Ended, Release
    <2>5. FitsPlace(r) /\ (r.aborted \/ Told(r))
      BY <1>2, <1>3, <2>2, <2>3 DEF FitsPlace, Told, BeforeLock
    <2>6. /\ loop' \in [Loops -> LoopType] /\ permits' \in [Nodes -> Nat]
          /\ Placed' /\ Listed' /\ PermitsAccounted'
      BY <2>4, <2>5, MovedStep
    <2>7. faults' \in {faults, faults + 1} /\ faults' \in 0 .. MaxFaults
      BY <1>4, <1>7 DEF Release, Fault
    <2>8. /\ owner' \in [Ids -> Loops \cup {NoLoop}]
          /\ \A i \in Ids : owner'[i] # owner[i] => owner[i] = l
      <3>1. q.id \in Ids /\ ((owner[q.id] = l /\ Lock!Lose({q.id})) \/ owner' = owner)
        BY <1>2, <1>3, <1>7, <2>3 DEF Release
      <3> HIDE DEF q
      <3>2. QED BY <1>1, <3>1, OwnerLost DEF Types
    <2>9. \A k \in Loops : loop'[k] = IF k = l THEN r ELSE loop[k]
      BY <1>1, <2>3
    <2>10. \A id \in ClusterScope : Unlocked(id)' \subseteq Unlocked(id)
      BY <2>2, <2>8, <2>9 DEF Unlocked
    <2>11. Charged'
      BY <1>1, <2>7, <2>10, ChargedStep
    <2>12. QED
      BY <1>1, <1>7, <2>6, <2>7, <2>8, <2>11 DEF TInv, Types, Release
  <1>8. QED BY <1>5, <1>6, <1>7

(* The handlers that run stay the same, the lock too. *)
LEMMA ChargedStay ==
  ASSUME Types, Charged, owner' = owner, faults' \in {faults, faults + 1},
         \A l \in Loops : loop'[l].at \in {"starting", "running"} =>
           /\ loop'[l].id = loop[l].id /\ loop'[l].at = loop[l].at
           /\ loop'[l].holds = loop[l].holds
  PROVE  Charged'
  <1>1. \A id \in ClusterScope : Unlocked(id)' \subseteq Unlocked(id)
    BY DEF Unlocked
  <1>2. CASE Loops = {}
    <2>1. \A id \in ClusterScope : Unlocked(id)' = {}
      BY <1>2 DEF Unlocked
    <2>2. Cardinality({}) = 0
      BY FS_EmptySet
    <2>3. faults' >= 0
      BY TimerAssumption DEF Types
    <2>4. QED BY <2>1, <2>2, <2>3 DEF Charged
  <1>3. CASE Loops # {}
    <2>1. PICK l \in Loops : TRUE
      BY <1>3
    <2>2. QED BY <1>1, <2>1, ChargedStep
  <1>4. QED BY <1>2, <1>3

(* schedule spawns a loop that is in no list yet. *)
LEMMA ScheduleStep ==
  ASSUME TInv, NEW n \in Nodes, NEW id \in Ids, Schedule(n, id)
  PROVE  TInv'
  <1> USE TimerAssumption
  <1> DEFINE r == [Unspawned EXCEPT !.at = "planning", !.node = n, !.id = id]
  <1>1. PICK l \in Loops :
          /\ loop[l].at = "none"
          /\ loop' = [loop EXCEPT ![l] = r]
          /\ inserting' = [inserting EXCEPT ![n] = l]
    BY DEF Schedule
  <1>2. /\ r \in LoopType /\ r.at = "planning" /\ r.node = n /\ r.id = id
        /\ ~ r.holds /\ ~ r.aborted /\ r.status = "Scheduled"
    <2>1. Unspawned \in LoopType
      BY DEF Unspawned, LoopType, Status
    <2>2. ~ Unspawned.holds /\ ~ Unspawned.aborted /\ Unspawned.status = "Scheduled"
      BY DEF Unspawned
    <2>3. r \in LoopType
      BY <2>1 DEF LoopType, Alive
    <2>4. /\ r.at = "planning" /\ r.node = n /\ r.id = id
          /\ r.holds = Unspawned.holds /\ r.aborted = Unspawned.aborted
          /\ r.status = Unspawned.status
      BY <2>1 DEF LoopType
    <2>5. QED BY <2>2, <2>3, <2>4
  <1> HIDE DEF r
  <1>3. Types /\ Placed /\ Listed /\ PermitsAccounted /\ Charged
    BY DEF TInv
  <1>4. loop' \in [Loops -> LoopType]
          /\ \A k \in Loops : loop'[k] = IF k = l THEN r ELSE loop[k]
    BY <1>1, <1>2, <1>3 DEF Types
  <1>5. inserting' \in [Nodes -> Loops \cup {NoLoop}]
          /\ \A m \in Nodes : inserting'[m] = IF m = n THEN l ELSE inserting[m]
    BY <1>1, <1>3 DEF Types
  <1>6. /\ tasks' = tasks /\ permits' = permits /\ owner' = owner /\ faults' = faults
        /\ now' = now /\ ran' = ran
    BY DEF Schedule
  <1>7. "planning" \in Alive /\ "planning" \notin WithPermit /\ "none" \notin WithPermit
          /\ "planning" \notin {"recording", "locking"}
    BY DEF Alive, WithPermit
  <1>8. Types'
    BY <1>3, <1>4, <1>5, <1>6 DEF Types
  <1>9. Placed'
    BY <1>2, <1>3, <1>4, <1>7 DEF Placed, FitsPlace
  <1>10. Listed'
    <2>1. \A k \in Loops, m \in Nodes, i \in Ids :
            Entry(k, m, i) => k # l /\ Entry(k, m, i)'
      BY <1>1, <1>4 DEF Entry
    <2>2. Entry(l, n, id)'
      BY <1>2, <1>4, <1>7 DEF Entry, Told
    <2>3. \A m \in Nodes, i \in Ids : tasks[m][i] \in Loops \cup {NoLoop}
      BY <1>3 DEF Types
    <2>4. \A m \in Nodes : inserting[m] \in Loops \cup {NoLoop}
      BY <1>3 DEF Types
    <2>5. \A m \in Nodes, i \in Ids :
            tasks'[m][i] # NoLoop => Entry(tasks[m][i], m, i)' /\ tasks[m][i] # l
      BY <1>3, <1>6, <2>1, <2>3 DEF Listed
    <2>6. ASSUME NEW m \in Nodes, inserting'[m] # NoLoop
          PROVE  /\ loop'[inserting'[m]].id \in Ids
                 /\ Entry(inserting[m], m, loop[inserting[m]].id)' 
                 /\ \A o \in Nodes, i \in Ids : tasks'[o][i] # inserting'[m]
      <3>1. CASE m = n
        BY <1>2, <1>4, <1>5, <1>6, <2>2, <2>3, <2>5, <3>1
      <3>2. CASE m # n
        <4>1. inserting'[m] = inserting[m] /\ inserting[m] \in Loops
          BY <1>5, <2>4, <2>6, <3>2
        <4>2. /\ loop[inserting[m]].id \in Ids
              /\ Entry(inserting[m], m, loop[inserting[m]].id)
              /\ \A o \in Nodes, i \in Ids : tasks[o][i] # inserting[m]
          BY <1>3, <2>6, <4>1 DEF Listed
        <4>3. inserting[m] # l /\ loop'[inserting[m]] = loop[inserting[m]]
          BY <1>4, <2>1, <4>1, <4>2
        <4>4. QED BY <1>6, <4>1, <4>2, <4>3 DEF Entry
      <3>3. QED BY <3>1, <3>2
    <2>7. QED BY <1>6, <2>5, <2>6 DEF Listed
  <1>11. PermitsAccounted'
    BY <1>1, <1>2, <1>3, <1>4, <1>6, <1>7, PermitsStay
  <1>12. Charged'
    BY <1>2, <1>3, <1>4, <1>6, ChargedStay
  <1>13. QED BY <1>8, <1>9, <1>10, <1>11, <1>12 DEF TInv

(* The entry of a loop replaces the one of an earlier schedule of the same id. *)
LEMMA InsertStep ==
  ASSUME TInv, NEW n \in Nodes, Insert(n)
  PROVE  TInv'
  <1> USE TimerAssumption
  <1> DEFINE l == inserting[n]
  <1>1. Types /\ Placed /\ Listed /\ PermitsAccounted /\ Charged
    BY DEF TInv
  <1>2. /\ l # NoLoop /\ tasks' = [tasks EXCEPT ![n][loop[l].id] = l]
        /\ inserting' = [inserting EXCEPT ![n] = NoLoop]
        /\ loop' = loop /\ permits' = permits /\ owner' = owner /\ faults' = faults
        /\ now' = now /\ ran' = ran
    BY DEF Insert
  <1>3. l \in Loops /\ loop[l].id \in Ids
    BY <1>1, <1>2 DEF Types, Listed
  <1>4. tasks' \in [Nodes -> [Ids -> Loops \cup {NoLoop}]]
          /\ \A m \in Nodes, i \in Ids :
               tasks'[m][i] = IF m = n /\ i = loop[l].id THEN l ELSE tasks[m][i]
    BY <1>1, <1>2, <1>3 DEF Types
  <1>5. inserting' \in [Nodes -> Loops \cup {NoLoop}]
          /\ \A m \in Nodes : inserting'[m] = IF m = n THEN NoLoop ELSE inserting[m]
    BY <1>1, <1>2 DEF Types
  <1>6. Types'
    BY <1>1, <1>2, <1>4, <1>5 DEF Types
  <1>7. Listed'
    <2>1. Entry(l, n, loop[l].id)
      BY <1>1, <1>2 DEF Listed
    <2>2. \A k, m, i : Entry(k, m, i)' <=> Entry(k, m, i)
      BY <1>2 DEF Entry
    <2> HIDE DEF l
    <2>3. ASSUME NEW m \in Nodes, NEW i \in Ids, tasks'[m][i] # NoLoop
          PROVE  Entry(tasks'[m][i], m, i)
      BY <1>1, <1>4, <2>1, <2>3 DEF Listed
    <2>4. ASSUME NEW m \in Nodes, inserting'[m] # NoLoop
          PROVE  /\ loop[inserting'[m]].id \in Ids
                 /\ Entry(inserting'[m], m, loop[inserting'[m]].id)
                 /\ \A o \in Nodes, i \in Ids : tasks'[o][i] # inserting'[m]
      <3>1. m # n /\ inserting'[m] = inserting[m]
        BY <1>5, <2>4
      <3>2. /\ loop[inserting[m]].id \in Ids
            /\ Entry(inserting[m], m, loop[inserting[m]].id)
            /\ \A o \in Nodes, i \in Ids : tasks[o][i] # inserting[m]
        BY <1>1, <2>4, <3>1 DEF Listed
      <3>3. inserting[m] # l
        BY <2>1, <3>1, <3>2 DEF Entry
      <3>4. QED BY <1>4, <3>1, <3>2, <3>3
    <2>5. QED BY <1>2, <2>3, <2>4 DEF Listed, Entry
  <1>8. Placed' /\ PermitsAccounted'
    BY <1>1, <1>2 DEF Placed, PermitsAccounted
  <1>9. Charged'
    BY <1>1, <1>2, ChargedStay
  <1>10. QED BY <1>6, <1>7, <1>8, <1>9 DEF TInv

(* All that happens to the loops is that some of those entries are aborted. *)
AbortsOnly(n, gone) ==
  \A k \in Loops :
    /\ loop'[k].at = loop[k].at /\ loop'[k].node = loop[k].node
    /\ loop'[k].id = loop[k].id /\ loop'[k].holds = loop[k].holds
    /\ \/ loop'[k] = loop[k]
       \/ loop'[k].aborted /\ \E id \in gone : tasks[n][id] = k

(* cancel and shutdown abort the loops of entries they remove. *)
LEMMA AbortStep ==
  ASSUME TInv, NEW n \in Nodes, NEW gone \in SUBSET Ids,
         tasks' = [tasks EXCEPT ![n] =
                     [id \in Ids |-> IF id \in gone THEN NoLoop ELSE tasks[n][id]]],
         loop' \in [Loops -> LoopType],
         AbortsOnly(n, gone),
         inserting' = inserting, permits' = permits, owner' = owner,
         now' = now, ran' = ran, faults' = faults
  PROVE  TInv'
  <1> USE TimerAssumption
  <1>1. Types /\ Placed /\ Listed /\ PermitsAccounted /\ Charged
    BY DEF TInv
  <1>2. tasks' \in [Nodes -> [Ids -> Loops \cup {NoLoop}]]
          /\ \A m \in Nodes, i \in Ids :
               tasks'[m][i] = IF m = n /\ i \in gone THEN NoLoop ELSE tasks[m][i]
    BY <1>1 DEF Types
  <1>3. Types'
    BY <1>1, <1>2 DEF Types
  <1>4. Placed'
    BY <1>1 DEF Placed, FitsPlace, AbortsOnly
  <1>5. PermitsAccounted'
    BY <1>1, PermitsStay DEF AbortsOnly
  <1>6. Charged'
    BY <1>1, ChargedStay DEF AbortsOnly
  <1>7. Listed'
    <2>1. \A m \in Nodes, i \in Ids : tasks[m][i] \in Loops \cup {NoLoop}
      BY <1>1 DEF Types
    <2>2. ASSUME NEW m \in Nodes, NEW i \in Ids, tasks'[m][i] # NoLoop
          PROVE  Entry(tasks[m][i], m, i)'
      <3> DEFINE k == tasks[m][i]
      <3>1. tasks'[m][i] = k /\ k \in Loops /\ ~ (m = n /\ i \in gone)
        BY <1>2, <2>1, <2>2
      <3>2. Entry(k, m, i)
        BY <1>1, <2>2, <3>1 DEF Listed
      <3>3. ~ \E id \in gone : tasks[n][id] = k
        BY <1>1, <3>1, <3>2, TimerAssumption DEF Listed, Entry
      <3> HIDE DEF k
      <3>4. loop'[k] = loop[k]
        BY <3>1, <3>3 DEF AbortsOnly
      <3>5. QED BY <3>1, <3>2, <3>4 DEF Entry
    <2>3. ASSUME NEW m \in Nodes, inserting[m] # NoLoop
          PROVE  /\ loop'[inserting[m]].id \in Ids
                 /\ Entry(inserting[m], m, loop[inserting[m]].id)'
                 /\ \A o \in Nodes, i \in Ids : tasks'[o][i] # inserting[m]
      <3>1. /\ loop[inserting[m]].id \in Ids /\ inserting[m] \in Loops
            /\ Entry(inserting[m], m, loop[inserting[m]].id)
            /\ \A o \in Nodes, i \in Ids : tasks[o][i] # inserting[m]
        BY <1>1, <2>3 DEF Listed, Types
      <3>2. loop'[inserting[m]] = loop[inserting[m]]
        BY <3>1 DEF AbortsOnly
      <3>3. QED BY <1>2, <2>3, <3>1, <3>2 DEF Entry
    <2>4. QED BY <2>2, <2>3 DEF Listed
  <1>8. QED BY <1>3, <1>4, <1>5, <1>6, <1>7 DEF TInv

(* cancel *)
LEMMA CancelStep ==
  ASSUME TInv, NEW n \in Nodes, NEW id \in Ids, Cancel(n, id)
  PROVE  TInv'
  <1> USE TimerAssumption
  <1> DEFINE l == tasks[n][id]
             r == [loop[l] EXCEPT !.aborted = TRUE, !.status = "Cancelled"]
  <1>1. loop \in [Loops -> LoopType] /\ tasks \in [Nodes -> [Ids -> Loops \cup {NoLoop}]]
    BY DEF TInv, Types
  <1>2. l \in Loops
    BY <1>1 DEF Cancel
  <1>3. /\ r \in LoopType /\ r.aborted /\ r.at = loop[l].at /\ r.node = loop[l].node
        /\ r.id = loop[l].id /\ r.holds = loop[l].holds
    <2>1. loop[l] \in LoopType
      BY <1>1, <1>2
    <2>2. r \in LoopType
      BY <2>1 DEF LoopType, Status
    <2>3. QED BY <2>1, <2>2 DEF LoopType
  <1>4. loop' = [loop EXCEPT ![l] = r]
    BY <1>1, <1>2 DEF Cancel
  <1> HIDE DEF r
  <1>5. loop' \in [Loops -> LoopType]
          /\ \A k \in Loops : loop'[k] = IF k = l THEN r ELSE loop[k]
    BY <1>1, <1>2, <1>3, <1>4
  <1>6. tasks' = [tasks EXCEPT ![n] =
                    [i \in Ids |-> IF i \in {id} THEN NoLoop ELSE tasks[n][i]]]
    BY <1>1 DEF Cancel
  <1>7. {id} \in SUBSET Ids
    OBVIOUS
  <1>8. AbortsOnly(n, {id})
    <2>1. ASSUME NEW k \in Loops, k # l
          PROVE  loop'[k] = loop[k]
      BY <1>5, <2>1
    <2>2. loop'[l] = r /\ \E i \in {id} : tasks[n][i] = l
      BY <1>2, <1>5
    <2> HIDE DEF l
    <2>3. QED BY <1>2, <1>3, <2>1, <2>2 DEF AbortsOnly
  <1>9. QED BY <1>5, <1>6, <1>7, <1>8, AbortStep DEF Cancel

(* shutdown *)
LEMMA ShutdownStep ==
  ASSUME TInv, NEW n \in Nodes, Shutdown(n)
  PROVE  TInv'
  <1> USE TimerAssumption
  <1>1. loop \in [Loops -> LoopType] /\ tasks \in [Nodes -> [Ids -> Loops \cup {NoLoop}]]
    BY DEF TInv, Types
  <1>2. \A q \in LoopType : LET r == [q EXCEPT !.aborted = TRUE] IN
          /\ r \in LoopType /\ r.aborted /\ r.at = q.at /\ r.node = q.node
          /\ r.id = q.id /\ r.holds = q.holds
    BY DEF LoopType
  <1>3. loop' = [l \in Loops |-> IF \E id \in Ids : tasks[n][id] = l
                                   THEN [loop[l] EXCEPT !.aborted = TRUE] ELSE loop[l]]
    BY DEF Shutdown
  <1>4. loop' \in [Loops -> LoopType]
    BY <1>1, <1>2, <1>3
  <1>5. AbortsOnly(n, Ids)
    <2> SUFFICES ASSUME NEW k \in Loops
                 PROVE  /\ loop'[k].at = loop[k].at /\ loop'[k].node = loop[k].node
                        /\ loop'[k].id = loop[k].id /\ loop'[k].holds = loop[k].holds
                        /\ \/ loop'[k] = loop[k]
                           \/ loop'[k].aborted /\ \E id \in Ids : tasks[n][id] = k
      BY DEF AbortsOnly
    <2>1. CASE \E id \in Ids : tasks[n][id] = k
      <3>1. loop'[k] = [loop[k] EXCEPT !.aborted = TRUE]
        BY <1>3, <2>1
      <3>2. QED BY <1>1, <1>2, <2>1, <3>1
    <2>2. CASE ~ \E id \in Ids : tasks[n][id] = k
      BY <1>3, <2>2
    <2>3. QED BY <2>1, <2>2
  <1>6. tasks' = [tasks EXCEPT ![n] =
                    [i \in Ids |-> IF i \in Ids THEN NoLoop ELSE tasks[n][i]]]
    BY <1>1 DEF Shutdown
  <1>7. QED BY <1>4, <1>5, <1>6, AbortStep DEF Shutdown

(* The process of a node ends: the loops of other nodes keep their entries and *)
(* its own permits are all free again.                                         *)
LEMMA CrashStep ==
  ASSUME TInv, NEW n \in Nodes, Crash(n)
  PROVE  TInv'
  <1> USE TimerAssumption
  <1>1. Types /\ Placed /\ Listed /\ PermitsAccounted /\ Charged
    BY DEF TInv
  <1>2. faults' = faults + 1 /\ faults' \in 0 .. MaxFaults
    BY <1>1 DEF Crash, Fault, Types
  <1>3. \A q \in LoopType : LET r == [q EXCEPT !.at = "done"] IN
          r \in LoopType /\ r.at = "done" /\ r.node = q.node
    BY DEF LoopType, Ended
  <1>4. loop' \in [Loops -> LoopType]
          /\ \A k \in Loops : IF loop[k].node = n
                                THEN loop'[k].at = "done" /\ loop'[k].node = n
                                ELSE loop'[k] = loop[k]
    BY <1>1, <1>3 DEF Crash, Types
  <1>5. tasks' \in [Nodes -> [Ids -> Loops \cup {NoLoop}]]
          /\ \A m \in Nodes, i \in Ids : tasks'[m][i] = IF m = n THEN NoLoop ELSE tasks[m][i]
    BY <1>1 DEF Crash, Types
  <1>6. inserting' \in [Nodes -> Loops \cup {NoLoop}]
          /\ \A m \in Nodes : inserting'[m] = IF m = n THEN NoLoop ELSE inserting[m]
    BY <1>1 DEF Crash, Types
  <1>7. permits' \in [Nodes -> Nat]
          /\ \A m \in Nodes : permits'[m] = IF m = n THEN MaxConcurrent ELSE permits[m]
    BY <1>1 DEF Crash, Types
  <1>8. Types'
    BY <1>1, <1>2, <1>4, <1>5, <1>6, <1>7 DEF Crash, Types
  <1>9. "done" \notin Alive /\ "done" \notin BeforeLock \cup {"recording", "locking"}
          /\ "done" \notin WithPermit
    BY DEF Alive, WithPermit, BeforeLock
  <1>10. Placed'
    BY <1>1, <1>4, <1>9 DEF Placed, FitsPlace
  <1>11. PermitsAccounted'
    <2> SUFFICES ASSUME NEW m \in Nodes
                 PROVE  permits'[m] + Cardinality(Permitted(m)') = MaxConcurrent
      BY DEF PermitsAccounted, Permitted
    <2>1. CASE m = n
      <3>1. Permitted(m)' = {}
        BY <1>4, <1>9, <2>1 DEF Permitted
      <3>2. QED BY <1>7, <2>1, <3>1, FS_EmptySet
    <2>2. CASE m # n
      <3>1. Permitted(m)' = Permitted(m)
        BY <1>4, <2>2 DEF Permitted
      <3>2. QED BY <1>1, <1>7, <2>2, <3>1 DEF PermitsAccounted, Permitted
    <2>3. QED BY <2>1, <2>2
  <1>12. Charged'
    BY <1>1, <1>2, <1>4, ChargedStay DEF Crash
  <1>13. Listed'
    <2>1. ASSUME NEW m \in Nodes, NEW i \in Ids, tasks'[m][i] # NoLoop
          PROVE  Entry(tasks[m][i], m, i)'
      <3>1. m # n /\ tasks'[m][i] = tasks[m][i] /\ tasks[m][i] \in Loops
        BY <1>1, <1>5, <2>1 DEF Types
      <3>2. Entry(tasks[m][i], m, i)
        BY <1>1, <2>1, <3>1 DEF Listed
      <3>3. loop'[tasks[m][i]] = loop[tasks[m][i]]
        BY <1>4, <3>1, <3>2 DEF Entry
      <3>4. QED BY <3>1, <3>2, <3>3 DEF Entry
    <2>2. ASSUME NEW m \in Nodes, inserting'[m] # NoLoop
          PROVE  /\ loop'[inserting'[m]].id \in Ids
                 /\ Entry(inserting[m], m, loop[inserting[m]].id)'
                 /\ \A o \in Nodes, i \in Ids : tasks'[o][i] # inserting'[m]
      <3>1. m # n /\ inserting'[m] = inserting[m] /\ inserting[m] \in Loops
        BY <1>1, <1>6, <2>2 DEF Types
      <3>2. /\ loop[inserting[m]].id \in Ids
            /\ Entry(inserting[m], m, loop[inserting[m]].id)
            /\ \A o \in Nodes, i \in Ids : tasks[o][i] # inserting[m]
        BY <1>1, <2>2, <3>1 DEF Listed
      <3>3. loop'[inserting[m]] = loop[inserting[m]]
        BY <1>4, <3>1, <3>2 DEF Entry
      <3>4. QED BY <1>5, <2>2, <3>1, <3>2, <3>3 DEF Entry
    <2>3. QED BY <2>1, <2>2 DEF Listed
  <1>14. QED BY <1>8, <1>10, <1>11, <1>12, <1>13 DEF TInv

(* A lock runs out: of a handler that is not charged yet only with a fault. *)
LEMMA LockExpiresStep ==
  ASSUME TInv, NEW id \in Ids, LockExpires(id)
  PROVE  TInv'
  <1> USE TimerAssumption
  <1>1. Types /\ Placed /\ Listed /\ PermitsAccounted /\ Charged
    BY DEF TInv
  <1> DEFINE l == owner[id]
  <1>2. l \in Loops /\ loop' = loop /\ tasks' = tasks /\ inserting' = inserting
          /\ permits' = permits /\ now' = now /\ ran' = ran
    BY <1>1 DEF LockExpires, Types
  <1>3. /\ owner' \in [Ids -> Loops \cup {NoLoop}]
        /\ \A i \in Ids : owner'[i] = IF i = id THEN NoLoop ELSE owner[i]
    BY <1>1, OwnerLost DEF LockExpires
  <1>4. \/ faults' = faults /\ (~ loop[l].holds \/ loop[l].at \notin Alive)
        \/ faults' = faults + 1
    BY DEF LockExpires, Fault
  <1>5. faults' \in 0 .. MaxFaults
    BY <1>1 DEF LockExpires, Fault, Types
  <1>6. Types'
    BY <1>1, <1>2, <1>3, <1>5 DEF Types
  <1>7. Placed' /\ PermitsAccounted'
    BY <1>1, <1>2 DEF Placed, PermitsAccounted
  <1>8. Listed'
    BY <1>1, <1>2 DEF Listed, Entry
  <1>9. "starting" \in Alive /\ "running" \in Alive
    BY DEF Alive, WithPermit
  <1>10. \A i \in ClusterScope :
           \/ Unlocked(i)' \subseteq Unlocked(i)
           \/ faults' = faults + 1 /\ Unlocked(i)' \subseteq Unlocked(i) \cup {l}
    <2> SUFFICES ASSUME NEW i \in ClusterScope
                 PROVE  \/ Unlocked(i)' \subseteq Unlocked(i)
                        \/ faults' = faults + 1 /\ Unlocked(i)' \subseteq Unlocked(i) \cup {l}
      OBVIOUS
    <2>1. Unlocked(i)' \subseteq Unlocked(i) \cup {l}
      BY <1>2, <1>3 DEF Unlocked
    <2>2. ~ loop[l].holds \/ loop[l].at \notin Alive => Unlocked(i)' \subseteq Unlocked(i)
      BY <1>2, <1>3, <1>9 DEF Unlocked
    <2>3. QED BY <1>4, <2>1, <2>2
  <1> HIDE DEF l
  <1>11. Charged'
    BY <1>1, <1>2, <1>4, <1>10, ChargedStep
  <1>12. QED BY <1>6, <1>7, <1>8, <1>11 DEF TInv

(* The invariant holds at the start: no loop, every permit free. *)
LEMMA InitTInv == Init => TInv
  <1> SUFFICES ASSUME Init
               PROVE  TInv
    OBVIOUS
  <1> USE TimerAssumption
  <1>1. Unspawned \in LoopType /\ Unspawned.at = "none"
    BY DEF Unspawned, LoopType, Status
  <1>2. \A l \in Loops : loop[l] = Unspawned
    BY DEF Init
  <1>3. "none" \notin Alive /\ "none" \notin BeforeLock \cup {"recording", "locking"}
          /\ "none" \notin WithPermit
    BY DEF Alive, WithPermit, BeforeLock
  <1>4. Types
    BY <1>1 DEF Init, Types, Lock!LeaseInit
  <1>5. Placed
    BY <1>1, <1>2, <1>3 DEF Placed, FitsPlace
  <1>6. Listed
    BY DEF Init, Listed
  <1>7. PermitsAccounted
    <2>1. \A n \in Nodes : Permitted(n) = {}
      BY <1>1, <1>2, <1>3 DEF Permitted
    <2>2. QED BY <2>1, FS_EmptySet DEF Init, PermitsAccounted, Permitted
  <1>8. Charged
    <2>1. \A id \in ClusterScope : Unlocked(id) = {}
      BY <1>1, <1>2 DEF Unlocked
    <2>2. QED BY <2>1, FS_EmptySet DEF Init, Charged
  <1>9. QED BY <1>4, <1>5, <1>6, <1>7, <1>8 DEF TInv

(* Every step keeps the invariant. *)
LEMMA NextTInv == TInv /\ [Next]_vars => TInv'
  <1> SUFFICES ASSUME TInv, [Next]_vars
               PROVE  TInv'
    OBVIOUS
  <1>1. ASSUME loop' = loop, tasks' = tasks, inserting' = inserting, permits' = permits,
               owner' = owner, ran' = ran, faults' = faults, now' \in 0 .. MaxTriggers
        PROVE  TInv'
    <2>1. Types /\ Placed /\ Listed /\ PermitsAccounted /\ Charged
      BY DEF TInv
    <2>2. Types'
      BY <1>1, <2>1 DEF Types
    <2>3. Placed' /\ PermitsAccounted'
      BY <1>1, <2>1 DEF Placed, PermitsAccounted
    <2>4. Listed'
      BY <1>1, <2>1 DEF Listed, Entry
    <2>5. Charged'
      BY <1>1, <2>1 DEF Charged, Unlocked
    <2>6. QED BY <2>2, <2>3, <2>4, <2>5 DEF TInv
  <1>2. CASE Tick
    <2>1. now' \in 0 .. MaxTriggers
      BY <1>2, TimerAssumption DEF Tick, TInv, Types
    <2>2. QED BY <1>1, <1>2, <2>1 DEF Tick
  <1>3. CASE UNCHANGED vars
    <2>1. now' \in 0 .. MaxTriggers
      BY <1>3 DEF vars, TInv, Types
    <2>2. QED BY <1>1, <1>3, <2>1 DEF vars
  <1>4. ASSUME NEW l \in Loops, LoopStep(l)
        PROVE  TInv'
    BY <1>4, PlainMoves, LockMoves DEF LoopStep
  <1>5. QED
    BY <1>2, <1>3, <1>4, ScheduleStep, InsertStep, CancelStep, ShutdownStep, CrashStep,
       LockExpiresStep DEF Next

(* The invariant holds in every reachable state. *)
THEOREM Invariance == Spec => []TInv
  BY InitTInv, NextTInv, PTL DEF Spec

(* Every variable keeps its type; no semaphore has more than max_concurrent   *)
(* free permits.                                                              *)
THEOREM TypeCorrectness == Spec => []TypeOK
  <1>1. TInv => TypeOK
    <2> SUFFICES ASSUME TInv
                 PROVE  TypeOK
      OBVIOUS
    <2>1. ASSUME NEW n \in Nodes
          PROVE  permits[n] \in 0 .. MaxConcurrent
      <3>1. Permitted(n) \in SUBSET Loops
        BY DEF Permitted
      <3>2. Cardinality(Permitted(n)) \in Nat
        BY <3>1, FiniteLoops
      <3>3. permits[n] \in Nat /\ permits[n] + Cardinality(Permitted(n)) = MaxConcurrent
        BY DEF TInv, Types, PermitsAccounted, Permitted
      <3>4. QED BY <3>2, <3>3, TimerAssumption
    <2>2. permits \in [Nodes -> 0 .. MaxConcurrent]
      BY <2>1 DEF TInv, Types
    <2>3. QED BY <2>2 DEF TypeOK, TInv, Types, LoopType
  <1>2. QED BY <1>1, Invariance, PTL

(* The engine's books are right about every loop: list_tasks shows no loop    *)
(* that is gone, one whose handler panicked excepted, and hides no result;    *)
(* every turn gives back the permit it took, whether it is skipped,           *)
(* cancelled, replaced, fails, panics or crashes.                             *)
THEOREM LoopsAccountedCorrect == Spec => []LoopsAccounted
  <1>1. TInv => LoopsAccounted
    <2> SUFFICES ASSUME TInv
                 PROVE  ListedTruly /\ PermitsAccounted
      BY DEF LoopsAccounted
    <2>1. \A l \in Loops : loop[l].at \in Alive \cup {"none", "done", "panicked"}
      BY DEF TInv, Types, LoopType, Ended
    <2>2. "done" \notin Alive /\ "panicked" \notin Alive
      BY DEF Alive, WithPermit
    <2>3. ASSUME NEW n \in Nodes, NEW id \in Ids, tasks[n][id] # NoLoop
          PROVE  LET l == tasks[n][id]
                 IN  /\ loop[l].status = "Running" => loop[l].at \in Alive \cup {"panicked"}
                     /\ loop[l].status = "Scheduled" =>
                          loop[l].at \in Alive \/ (id \in OneShot /\ id \in ClusterScope)
                     /\ loop[l].status \in {"Completed", "Failed"} => loop[l].at = "done"
      <3>1. tasks[n][id] \in Loops /\ Entry(tasks[n][id], n, id)
        BY <2>3 DEF TInv, Types, Listed
      <3>2. QED BY <2>1, <2>2, <3>1 DEF Entry, Told
    <2>4. QED BY <2>3 DEF ListedTruly, TInv
  <1>2. QED BY <1>1, Invariance, PTL

(* Handlers of one Cluster task overlap in the whole cluster only as often as *)
(* the lock failed: one, and one more for each fault.                         *)
THEOREM SingleRunnerCorrect == Spec => []SingleRunner
  <1>1. TInv => SingleRunner
    <2> SUFFICES ASSUME TInv, NEW id \in ClusterScope
                 PROVE  Cardinality({l \in Loops : loop[l].id = id
                                                   /\ loop[l].at = "running"}) =< 1 + faults
      BY DEF SingleRunner
    <2> DEFINE R == {l \in Loops : loop[l].id = id /\ loop[l].at = "running"}
               S == Unlocked(id)
    <2>1. S \in SUBSET Loops /\ R \subseteq S \cup {owner[id]} /\ R \in SUBSET Loops
      BY DEF Unlocked
    <2>2. IsFiniteSet(S) /\ Cardinality(S) \in Nat /\ Cardinality(R) \in Nat
      BY <2>1, FiniteLoops
    <2>3. Cardinality(S) =< faults /\ faults \in Nat
      BY TimerAssumption DEF TInv, Types, Charged
    <2> HIDE DEF S, R
    <2>4. /\ IsFiniteSet(S \cup {owner[id]})
          /\ Cardinality(S \cup {owner[id]})
               = IF owner[id] \in S THEN Cardinality(S) ELSE Cardinality(S) + 1
      BY <2>2, FS_AddElement
    <2>5. Cardinality(R) =< Cardinality(S \cup {owner[id]})
      BY <2>1, <2>4, FS_Subset
    <2>6. Cardinality(R) =< 1 + faults
      BY <2>2, <2>3, <2>4, <2>5
    <2>7. QED BY <2>6 DEF R
  <1>2. QED BY <1>1, Invariance, PTL
=============================================================================
