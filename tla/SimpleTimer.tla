----------------------------- MODULE SimpleTimer -----------------------------
(***************************************************************************)
(* SimpleTimerEngine of rinfra-plugins/src/timer/simple.rs on every node   *)
(* of a cluster.  schedule spawns one loop per call; the loops of all      *)
(* nodes meet at the distributed lock, which is used here as what its      *)
(* trait promises (LeaseLock).                                             *)
(*                                                                         *)
(* Time is the number of trigger instants that have passed: the cron       *)
(* expression of a recurring task fires at 1 .. MaxTriggers on every node, *)
(* a one-shot task (Once) at 1.                                            *)
(***************************************************************************)
EXTENDS Integers, FiniteSets

CONSTANTS
  Nodes,
  Ids,             \* task ids
  OneShot,         \* the ids whose schedule is Once
  ClusterScope,    \* the ids with TimerScope::Cluster, a lock being available
  Loops,           \* bound: the loops that can be spawned
  MaxConcurrent,   \* SimpleTimerConfig.max_concurrent
  MaxTriggers,     \* bound: trigger instants
  MaxFaults,       \* bound: lock errors, leases outlived, crashed nodes
  NoLoop, NoNode, NoId

ASSUME TimerAssumption ==
  /\ OneShot \subseteq Ids /\ ClusterScope \subseteq Ids
  /\ MaxConcurrent \in Nat /\ MaxTriggers \in Nat \ {0} /\ MaxFaults \in Nat
  /\ IsFiniteSet(Loops)
  /\ NoLoop \notin Loops /\ NoNode \notin Nodes /\ NoId \notin Ids

VARIABLES
  loop,       \* the spawned loops
  tasks,      \* SimpleTimerEngine.tasks of each node: the loop of each entry
  inserting,  \* the loop a schedule call has spawned and not inserted yet
  permits,    \* free permits of each node's semaphore
  owner,      \* the distributed lock: who holds timer:{id}
  now,        \* trigger instants that have passed
  ran,        \* history: <<id, trigger, loop>> of every handler started
  faults      \* failures so far, for the bound

vars == <<loop, tasks, inserting, permits, owner, now, ran, faults>>

Lock == INSTANCE LeaseLock WITH Clients <- Loops, Keys <- Ids, Nobody <- NoLoop

(* "planning": at compute_next_fire; "queued": waits for a permit;          *)
(* "locking": at try_acquire; "starting": about to run the handler;         *)
(* "recording": about to write its result to the state; "panicked": ended by *)
(* a panic of the handler.                                                   *)
WithPermit == {"locking", "starting", "running", "releasing", "recording"}
Alive == {"planning", "sleeping", "queued"} \cup WithPermit
Ended == {"done", "panicked"}

Status == {"Scheduled", "Running", "Completed", "Failed", "Cancelled"}

Unspawned == [at |-> "none", node |-> NoNode, id |-> NoId, due |-> 0,
              holds |-> FALSE, aborted |-> FALSE, status |-> "Scheduled"]

Init ==
  /\ loop = [l \in Loops |-> Unspawned]
  /\ tasks = [n \in Nodes |-> [id \in Ids |-> NoLoop]]
  /\ inserting = [n \in Nodes |-> NoLoop]
  /\ permits = [n \in Nodes |-> MaxConcurrent]
  /\ Lock!LeaseInit
  /\ now = 0 /\ ran = {} /\ faults = 0

Recurring(id) == id \notin OneShot

Fault == faults < MaxFaults /\ faults' = faults + 1

Goto(l, at) == loop' = [loop EXCEPT ![l].at = at]

(* The permit is dropped at the end of the turn, however the turn ends. *)
DropPermit(l) ==
  permits' = IF loop[l].at \in WithPermit
               THEN [permits EXCEPT ![loop[l].node] = @ + 1]
               ELSE permits

-----------------------------------------------------------------------------
(* The engine's interface *)

(* schedule: an expression without an upcoming instant is refused, otherwise *)
(* the loop is spawned; the entry follows.                                   *)
Schedule(n, id) ==
  /\ inserting[n] = NoLoop
  /\ Recurring(id) => now < MaxTriggers
  /\ \E l \in Loops :
       /\ loop[l].at = "none"
       /\ loop' = [loop EXCEPT ![l] = [Unspawned EXCEPT !.at = "planning",
                                                        !.node = n, !.id = id]]
       /\ inserting' = [inserting EXCEPT ![n] = l]
  /\ UNCHANGED <<tasks, permits, owner, now, ran, faults>>

(* HashMap::insert drops the entry it replaces; a dropped JoinHandle leaves  *)
(* its loop running.                                                         *)
Insert(n) ==
  LET l == inserting[n]
  IN  /\ l # NoLoop
      /\ tasks' = [tasks EXCEPT ![n][loop[l].id] = l]
      /\ inserting' = [inserting EXCEPT ![n] = NoLoop]
      /\ UNCHANGED <<loop, permits, owner, now, ran, faults>>

Cancel(n, id) ==
  LET l == tasks[n][id]
  IN  /\ l # NoLoop
      /\ tasks' = [tasks EXCEPT ![n][id] = NoLoop]
      /\ loop' = [loop EXCEPT ![l].aborted = TRUE, ![l].status = "Cancelled"]
      /\ UNCHANGED <<inserting, permits, owner, now, ran, faults>>

Shutdown(n) ==
  /\ \E id \in Ids : tasks[n][id] # NoLoop
  /\ loop' = [l \in Loops |->
                IF \E id \in Ids : tasks[n][id] = l
                  THEN [loop[l] EXCEPT !.aborted = TRUE] ELSE loop[l]]
  /\ tasks' = [tasks EXCEPT ![n] = [id \in Ids |-> NoLoop]]
  /\ UNCHANGED <<inserting, permits, owner, now, ran, faults>>

-----------------------------------------------------------------------------
(* spawn_timer_loop *)

Plan(l) ==
  /\ loop[l].at = "planning"
  /\ Recurring(loop[l].id) => now < MaxTriggers
  /\ loop' = [loop EXCEPT ![l].at = "sleeping", ![l].status = "Scheduled",
                          ![l].due = IF Recurring(loop[l].id) THEN now + 1 ELSE 1]
  /\ UNCHANGED <<tasks, inserting, permits, owner, now, ran, faults>>

(* No upcoming fire time any more. *)
PlanFails(l) ==
  /\ loop[l].at = "planning"
  /\ Recurring(loop[l].id) /\ now = MaxTriggers
  /\ loop' = [loop EXCEPT ![l].at = "done", ![l].status = "Failed"]
  /\ UNCHANGED <<tasks, inserting, permits, owner, now, ran, faults>>

(* A sleep is where an aborted loop ends for certain. *)
Fire(l) ==
  /\ loop[l].at = "sleeping" /\ ~ loop[l].aborted
  /\ loop[l].due =< now
  /\ Goto(l, "queued")
  /\ UNCHANGED <<tasks, inserting, permits, owner, now, ran, faults>>

TakePermit(l) ==
  /\ loop[l].at = "queued"
  /\ permits[loop[l].node] > 0
  /\ permits' = [permits EXCEPT ![loop[l].node] = @ - 1]
  /\ Goto(l, IF loop[l].id \in ClusterScope THEN "locking" ELSE "starting")
  /\ UNCHANGED <<tasks, inserting, owner, now, ran, faults>>

LockGranted(l) ==
  /\ loop[l].at = "locking"
  /\ Lock!Grant(l, loop[l].id)
  /\ loop' = [loop EXCEPT ![l].at = "starting", ![l].holds = TRUE]
  /\ UNCHANGED <<tasks, inserting, permits, now, ran, faults>>

(* Defect: a refusal is treated like an error, the handler runs. *)
LockRefusedRuns(l) ==
  /\ loop[l].at = "locking"
  /\ owner[loop[l].id] # NoLoop
  /\ Goto(l, "starting")
  /\ UNCHANGED <<tasks, inserting, permits, owner, now, ran, faults>>

LockRefused(l) ==
  /\ loop[l].at = "locking"
  /\ owner[loop[l].id] # NoLoop
  /\ Goto(l, IF Recurring(loop[l].id) THEN "planning" ELSE "done")
  /\ DropPermit(l)
  /\ UNCHANGED <<tasks, inserting, owner, now, ran, faults>>

(* try_acquire failed, before or after it took the lock: the handler runs   *)
(* locally and nothing will be released.                                    *)
LockError(l) ==
  /\ loop[l].at = "locking"
  /\ Fault
  /\ Lock!Grant(l, loop[l].id) \/ UNCHANGED owner
  /\ Goto(l, "starting")
  /\ UNCHANGED <<tasks, inserting, permits, now, ran>>

Start(l) ==
  /\ loop[l].at = "starting"
  /\ loop' = [loop EXCEPT ![l].at = "running", ![l].status = "Running"]
  /\ ran' = ran \cup {<<loop[l].id, loop[l].due, l>>}
  /\ UNCHANGED <<tasks, inserting, permits, owner, now, faults>>

HandlerReturns(l) ==
  /\ loop[l].at = "running"
  /\ Goto(l, IF loop[l].holds THEN "releasing" ELSE "recording")
  /\ UNCHANGED <<tasks, inserting, permits, owner, now, ran, faults>>

(* A panic ends the task where it stands: the permit is dropped, the lock is *)
(* left to its time to live and the entry goes on saying Running.            *)
HandlerPanics(l) ==
  /\ loop[l].at = "running"
  /\ Goto(l, "panicked")
  /\ DropPermit(l)
  /\ UNCHANGED <<tasks, inserting, owner, now, ran, faults>>

(* release answers false when the lease has ended; an error leaves the lock *)
(* to its time to live.                                                     *)
Release(l) ==
  /\ loop[l].at = "releasing"
  /\ \/ UNCHANGED faults
        /\ IF owner[loop[l].id] = l THEN Lock!Lose({loop[l].id})
                                    ELSE UNCHANGED owner
     \/ Fault /\ UNCHANGED owner
  /\ loop' = [loop EXCEPT ![l].at = "recording", ![l].holds = FALSE]
  /\ UNCHANGED <<tasks, inserting, permits, now, ran>>

(* Defect: a finished one-shot task keeps its status. *)
RecordSilently(l) ==
  /\ loop[l].at = "recording"
  /\ loop' = [loop EXCEPT ![l].at = IF Recurring(loop[l].id) THEN "planning"
                                                            ELSE "done"]
  /\ DropPermit(l)
  /\ UNCHANGED <<tasks, inserting, owner, now, ran, faults>>

(* Defect: the permit outlives the turn, into the next one or for ever. *)
RecordKeepsPermit(l) ==
  /\ loop[l].at = "recording"
  /\ IF Recurring(loop[l].id)
       THEN loop' = [loop EXCEPT ![l].at = "planning", ![l].status = "Scheduled"]
       ELSE loop' = [loop EXCEPT ![l].at = "done", ![l].status = "Completed"]
  /\ UNCHANGED <<tasks, inserting, permits, owner, now, ran, faults>>

(* The result of the handler decides between Completed and Failed. *)
Record(l) ==
  /\ loop[l].at = "recording"
  /\ IF Recurring(loop[l].id)
       THEN loop' = [loop EXCEPT ![l].at = "planning", ![l].status = "Scheduled"]
       ELSE \E result \in {"Completed", "Failed"} :
              loop' = [loop EXCEPT ![l].at = "done", ![l].status = result]
  /\ DropPermit(l)
  /\ UNCHANGED <<tasks, inserting, owner, now, ran, faults>>

(* An aborted loop is dropped where it waits; it keeps what the lock service *)
(* holds for it.                                                             *)
Die(l) ==
  /\ loop[l].aborted /\ loop[l].at \in Alive
  /\ Goto(l, "done")
  /\ DropPermit(l)
  /\ UNCHANGED <<tasks, inserting, owner, now, ran, faults>>

-----------------------------------------------------------------------------
(* The world *)

(* The time to live of a lock ends: of one whose loop is gone or will not    *)
(* release it, or (a fault) of one whose handler takes longer.               *)
LockExpires(id) ==
  /\ owner[id] # NoLoop
  /\ \/ ~ loop[owner[id]].holds /\ UNCHANGED faults
     \/ loop[owner[id]].at \notin Alive /\ UNCHANGED faults
     \/ Fault
  /\ Lock!Lose({id})
  /\ UNCHANGED <<loop, tasks, inserting, permits, now, ran>>

(* The process of a node ends; it starts again with an empty engine. *)
Crash(n) ==
  /\ Fault
  /\ loop' = [l \in Loops |-> IF loop[l].node = n
                                THEN [loop[l] EXCEPT !.at = "done"] ELSE loop[l]]
  /\ tasks' = [tasks EXCEPT ![n] = [id \in Ids |-> NoLoop]]
  /\ inserting' = [inserting EXCEPT ![n] = NoLoop]
  /\ permits' = [permits EXCEPT ![n] = MaxConcurrent]
  /\ UNCHANGED <<owner, now, ran>>

Tick ==
  /\ now < MaxTriggers
  /\ now' = now + 1
  /\ UNCHANGED <<loop, tasks, inserting, permits, owner, ran, faults>>

LoopStep(l) ==
  \/ Plan(l) \/ PlanFails(l) \/ Fire(l) \/ TakePermit(l) \/ LockGranted(l)
  \/ LockRefused(l) \/ LockError(l) \/ Start(l) \/ HandlerReturns(l)
  \/ HandlerPanics(l) \/ Release(l) \/ Record(l) \/ Die(l)

Next ==
  \/ \E l \in Loops : LoopStep(l)
  \/ \E n \in Nodes : Insert(n) \/ Shutdown(n) \/ Crash(n)
  \/ \E n \in Nodes, id \in Ids : Schedule(n, id) \/ Cancel(n, id)
  \/ \E id \in Ids : LockExpires(id)
  \/ Tick

Spec == Init /\ [][Next]_vars

(* The runtime polls every loop that is ready, a handler returns or panics   *)
(* sooner or later, and tokio's semaphore serves its waiters in order (which strong    *)
(* fairness stands for).                                                     *)
Fairness ==
  \A l \in Loops :
    /\ WF_vars(Plan(l)) /\ WF_vars(PlanFails(l))
    /\ SF_vars(TakePermit(l))
    /\ WF_vars(LockGranted(l) \/ LockRefused(l))
    /\ WF_vars(Start(l)) /\ WF_vars(HandlerReturns(l) \/ HandlerPanics(l))
    /\ WF_vars(Release(l)) /\ WF_vars(Record(l)) /\ WF_vars(Die(l))

FairSpec == Spec /\ Fairness

-----------------------------------------------------------------------------
(* Properties *)

(* The type of every variable. *)
TypeOK ==
  /\ loop \in [Loops -> [at : Alive \cup Ended \cup {"none"},
                         node : Nodes \cup {NoNode}, id : Ids \cup {NoId},
                         due : 0 .. MaxTriggers, holds : BOOLEAN,
                         aborted : BOOLEAN, status : Status]]
  /\ tasks \in [Nodes -> [Ids -> Loops \cup {NoLoop}]]
  /\ inserting \in [Nodes -> Loops \cup {NoLoop}]
  /\ permits \in [Nodes -> 0 .. MaxConcurrent]
  /\ owner \in [Ids -> Loops \cup {NoLoop}]
  /\ now \in 0 .. MaxTriggers /\ faults \in 0 .. MaxFaults
  /\ ran \subseteq Ids \X (0 .. MaxTriggers) \X Loops

(* max_concurrent is a limit that neither leaks nor overflows: skipped,      *)
(* cancelled, replaced and failed turns give back exactly the permit they    *)
(* took.                                                                     *)
PermitsAccounted ==
  \A n \in Nodes :
    permits[n] + Cardinality({l \in Loops : loop[l].node = n
                                            /\ loop[l].at \in WithPermit})
      = MaxConcurrent

(* Handlers of one Cluster task overlap only as far as lock errors, outlived *)
(* leases and crashes let them: without a fault at most one handler of the   *)
(* task runs in the whole cluster, and every fault admits at most one more.  *)
SingleRunner ==
  \A id \in ClusterScope :
    Cardinality({l \in Loops : loop[l].id = id /\ loop[l].at = "running"})
      =< 1 + faults

(* What list_tasks shows is true: an entry shown as Scheduled or Running has *)
(* a loop, and one shown as Completed or Failed has none.  Two entries stay   *)
(* as they are: a one-shot Cluster task that lost its lock is Scheduled, one *)
(* whose handler panicked is Running for ever.                               *)
ListedTruly ==
  \A n \in Nodes, id \in Ids :
    LET l == tasks[n][id]
    IN  l # NoLoop =>
          /\ loop[l].status = "Running" => loop[l].at \in Alive \cup {"panicked"}
          /\ loop[l].status = "Scheduled" =>
               loop[l].at \in Alive \/ (id \in OneShot /\ id \in ClusterScope)
          /\ loop[l].status \in {"Completed", "Failed"} => loop[l].at = "done"

(* The engine's books are right about every loop: its entries and its permits, *)
(* through turns that are skipped, cancelled, replaced or fail.                *)
LoopsAccounted == ListedTruly /\ PermitsAccounted

(* A turn that has begun ends: nothing waits for a permit or a lock for      *)
(* ever, although cancelled loops die holding them.                          *)
TurnEnds ==
  \A l \in Loops :
    loop[l].at \in WithPermit \cup {"queued"} ~> loop[l].at \in Ended \cup {"sleeping"}

(* Not kept by the code - "Only one node in the cluster executes this task    *)
(* per trigger": the lock is free again when a slower node comes to it.      *)
OneNodePerTrigger ==
  \A x, y \in ran :
    x[1] = y[1] /\ x[2] = y[2] /\ x[1] \in ClusterScope
      => loop[x[3]].node = loop[y[3]].node

(* Not kept by the code: an entry shown as Running has a loop; no one looks   *)
(* at the JoinHandle of a task that panicked.                                *)
RunningIsAlive ==
  \A n \in Nodes, id \in Ids :
    LET l == tasks[n][id]
    IN  l # NoLoop /\ loop[l].status = "Running" => loop[l].at \in Alive

(* Not kept by the code - "Gracefully stop all running timers": a shutdown   *)
(* aborts every loop of its node, the one of a schedule call that has not    *)
(* returned excepted.                                                        *)
ShutdownStopsAll ==
  [][\A n \in Nodes :
       Shutdown(n) => \A l \in Loops :
         loop[l].node = n /\ loop[l].at \in Alive /\ inserting[n] # l
           => loop'[l].aborted]_vars
=============================================================================
