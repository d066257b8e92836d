------------------------- MODULE AdminConsole_proofs -------------------------
(***************************************************************************)
(* Proofs about AdminConsole: what an administrator was answered survives  *)
(* every crash and every interleaving of requests in the store, and in its *)
(* file as long as persists do not overlap; and a crash never takes the    *)
(* API's authentication away then.  For any number of requests, tokens and *)
(* faults.                                                                 *)
(*                                                                         *)
(* Between persist's snapshot and its rename the records of an answered    *)
(* request are in three places: the store, the token file, and the         *)
(* snapshot of a persist that runs alone and may become the file.  The     *)
(* invariant says of each what it still has and what it no longer has.     *)
(***************************************************************************)
EXTENDS AdminConsole, TLAPS

-----------------------------------------------------------------------------
(* The inductive invariant *)

(* Records of the store, a snapshot or a file: an id is one of the first n   *)
(* and names one record.                                                     *)
Proper(n, R) ==
  /\ R \subseteq Records
  /\ \A a, b \in R : a.id = b.id => a = b
  /\ Ids(R) \subseteq 1 .. n

StoreTypes ==
  /\ server \in {"down", "booting", "auth", "open"}
  /\ issued \in 0 .. MaxTokens /\ faults \in 0 .. MaxFaults
  /\ known \subseteq Secrets
  /\ granted \subseteq 1 .. issued /\ revoked \subseteq 1 .. issued
  /\ overlapped \in BOOLEAN /\ failed \in BOOLEAN
  /\ Proper(issued, tokens)

FileTypes ==
  /\ file \in Files /\ Proper(issued, file.records)
  /\ tmp \in Files /\ Proper(issued, tmp.records)

(* A task's ids were handed out; before its handler it has changed nothing. *)
TaskProper(n, q) ==
  /\ q \in TaskStates
  /\ Proper(n, q.snap)
  /\ q.gone \subseteq 1 .. n
  /\ q.fresh # None => q.fresh \in 1 .. n
  /\ q.info # None => q.info.id \in 1 .. n
  /\ q.pc \in BeforeHandler => q.fresh = None /\ q.gone = {} /\ q.snap = {}
  /\ q.pc # "write" => q.fd = None

TaskTypes == task \in [Tasks -> TaskStates] /\ \A t \in Tasks : TaskProper(issued, task[t])

(* The bootstrap has created a root and is on its way to persist it. *)
Booting(q) ==
  /\ q.pc \in Changing /\ q.fresh # None /\ q.fresh \in Ids(tokens) /\ q.alone
  /\ q.token \in Secrets
  /\ q.pc = "failed" => failed

(* Who runs in which phase of the server. *)
Phases ==
  /\ server \in {"down", "open"} => tokens = {}
  /\ server = "down" => \A t \in Tasks : task[t].pc = "idle" /\ task[t].alone
  /\ server = "booting" => /\ Booting(task[Boot]) /\ ~ overlapped
                          /\ \A r \in Reqs : task[r].pc = "idle"
  /\ server \in {"auth", "open"} => task[Boot].pc = "idle"
  /\ server = "open" => \A r \in Reqs : task[r].pc \in BeforeHandler
  /\ AuthHolds

(* A persist under way with which no other has overlapped. *)
Lone(t) == InPersist(t) /\ task[t].alone

(* What was answered, g granted and v revoked, holds in R. *)
Kept(g, v, R) == g \subseteq Ids(R) /\ v \cap Ids(R) = {}

Answers ==
  /\ ~ overlapped => Loadable /\ Kept(granted, revoked, OnFile)
  /\ server \in {"auth", "booting"} => Kept(granted, revoked, tokens)
  /\ \A t \in Tasks : Lone(t) => Kept(granted, revoked, task[t].snap)

(* A lone persist finds in the temporary file what it has put there. *)
LoneFile ==
  \A t \in Tasks : Lone(t) =>
    /\ task[t].pc = "write" => task[t].fd = "tmp" /\ tmp = Without("empty")
    /\ task[t].pc = "rename" => tmp = Whole(task[t].snap)

(* A lone persist is the only one under way; of any other it is known. *)
AloneIsAlone ==
  /\ \A t, u \in Tasks : Lone(t) /\ InPersist(u) => t = u
  /\ \A t \in Tasks : InPersist(t) /\ ~ overlapped => task[t].alone

(* What a task in state q has done holds in R, as far as the ids L of the    *)
(* store are concerned: somebody may have deleted the token it made.         *)
Done(q, L, R) ==
  /\ q.gone \cap Ids(R) = {}
  /\ q.fresh # None /\ q.fresh \in L => q.fresh \in Ids(R)

Effects ==
  /\ \A t \in Tasks : task[t].gone \cap Ids(tokens) = {}
  /\ \A t \in Tasks : Lone(t) => Done(task[t], Ids(tokens), task[t].snap)
  /\ \A t \in Tasks : task[t].pc = "persisted" =>
       /\ ~ overlapped => Done(task[t], Ids(tokens), OnFile)
       /\ \A u \in Tasks : Lone(u) => Done(task[t], Ids(tokens), task[u].snap)

AdminInv ==
  /\ StoreTypes /\ FileTypes /\ TaskTypes /\ Phases
  /\ Answers /\ LoneFile /\ AloneIsAlone /\ Effects

-----------------------------------------------------------------------------
(* Sets of records *)

LEMMA RecordsEmpty ==
  ASSUME NEW n
  PROVE  Proper(n, {}) /\ Ids({}) = {}
BY DEF Proper, Ids

LEMMA RecordsGrow ==
  ASSUME NEW n \in Nat, NEW m \in Nat, n <= m, NEW R, Proper(n, R)
  PROVE  Proper(m, R)
BY DEF Proper

LEMMA RecordsAdd ==
  ASSUME NEW n \in Nat, NEW R, Proper(n, R), NEW a \in Records, a.id = n + 1
  PROVE  Proper(n + 1, R \cup {a}) /\ Ids(R \cup {a}) = Ids(R) \cup {n + 1}
<1>1. Ids(R \cup {a}) = Ids(R) \cup {n + 1}
  BY DEF Ids
<1>2. \A b \in R : b.id # n + 1
  BY DEF Proper, Ids
<1>3. \A b, c \in R \cup {a} : b.id = c.id => b = c
  BY <1>2 DEF Proper
<1>4. Ids(R) \cup {n + 1} \subseteq 1 .. (n + 1)
  BY DEF Proper
<1>. QED  BY <1>1, <1>3, <1>4 DEF Proper

LEMMA RecordsRemove ==
  ASSUME NEW n, NEW R, Proper(n, R), NEW S, S \subseteq R
  PROVE  /\ Proper(n, R \ S) /\ Ids(R \ S) = Ids(R) \ Ids(S)
         /\ Ids(S) \subseteq 1 .. n
<1>1. \A a \in R \ S : \A b \in S : a.id # b.id
  BY DEF Proper
<1>2. Ids(R \ S) = Ids(R) \ Ids(S)
  BY <1>1 DEF Ids
<1>3. Ids(S) \subseteq Ids(R)
  BY DEF Ids
<1>. QED  BY <1>2, <1>3 DEF Proper

LEMMA RecordsExpire ==
  ASSUME NEW n, NEW R, Proper(n, R), NEW a \in R
  PROVE  LET E == (R \ {a}) \cup {[a EXCEPT !.life = "over"]}
         IN  Proper(n, E) /\ Ids(E) = Ids(R)
<1>. DEFINE e == [a EXCEPT !.life = "over"]
            E == (R \ {a}) \cup {e}
<1>1. a \in Records
  BY DEF Proper
<1>2. e \in Records /\ e.id = a.id
  BY <1>1 DEF Records
<1>. HIDE DEF e
<1>3. \A b, c \in E : b.id = c.id => b = c
  BY <1>2 DEF Proper
<1>4. Ids(E) = Ids(R)
  BY <1>2 DEF Ids
<1>. QED  BY <1>2, <1>3, <1>4 DEF Proper, e

(* Done and Answered are monotone in what they depend on. *)
LEMMA DoneShrinks ==
  ASSUME NEW q, NEW L, NEW M, NEW R, Done(q, L, R), M \subseteq L
  PROVE  Done(q, M, R)
BY DEF Done

LEMMA DoneAdds ==
  ASSUME NEW n \in Nat, NEW q, TaskProper(n, q), NEW L, NEW R, Done(q, L, R)
  PROVE  Done(q, L \cup {n + 1}, R)
<1>1. q.fresh # None => q.fresh # n + 1
  BY DEF TaskProper
<1>. QED  BY <1>1 DEF Done

-----------------------------------------------------------------------------
(* Tasks *)

LEMMA IdleProper ==
  ASSUME NEW n
  PROVE  /\ TaskProper(n, Idle) /\ Idle \in TaskStates /\ Idle.pc = "idle" /\ Idle.gone = {}
         /\ Idle.fresh = None /\ Idle.snap = {} /\ Idle.alone /\ Idle.fd = None
<1>1. Idle \in TaskStates
  BY DEF Idle, TaskStates, BeforeHandler
<1>2. /\ Idle.pc = "idle" /\ Idle.gone = {} /\ Idle.fresh = None /\ Idle.snap = {}
      /\ Idle.info = None /\ Idle.alone /\ Idle.fd = None
  BY DEF Idle
<1>3. Proper(n, Idle.snap)
  BY <1>2, RecordsEmpty
<1>. QED  BY <1>1, <1>2, <1>3 DEF TaskProper

(* A task's state stays proper when more ids are handed out. *)
LEMMA TaskGrows ==
  ASSUME NEW n \in Nat, NEW m \in Nat, n <= m, NEW q, TaskProper(n, q)
  PROVE  TaskProper(m, q)
<1>1. Proper(m, q.snap)
  BY RecordsGrow DEF TaskProper
<1>2. 1 .. n \subseteq 1 .. m
  OBVIOUS
<1>. QED  BY <1>1, <1>2 DEF TaskProper

(* Task t goes to state q and the others stay. *)
Becomes(t, q) == t \in Tasks /\ task' = [task EXCEPT ![t] = q]

LEMMA TaskTypesNext ==
  ASSUME AdminInv, NEW t, NEW q, Becomes(t, q), issued' \in Nat, issued <= issued',
         TaskProper(issued', q)
  PROVE  /\ TaskTypes' /\ task'[t] = q
         /\ \A u \in Tasks : u # t => task'[u] = task[u]
<1>1. /\ task \in [Tasks -> TaskStates] /\ issued \in Nat
      /\ \A u \in Tasks : TaskProper(issued, task[u])
  BY DEF AdminInv, StoreTypes, TaskTypes
<1>2. /\ task'[t] = q /\ \A u \in Tasks : u # t => task'[u] = task[u]
      /\ DOMAIN task' = Tasks /\ task' = [u \in Tasks |-> task'[u]]
  BY <1>1 DEF Becomes
<1>3. \A u \in Tasks : TaskProper(issued', task'[u])
  BY <1>1, <1>2, TaskGrows
<1>4. \A u \in Tasks : task'[u] \in TaskStates
  BY <1>3 DEF TaskProper
<1>. QED  BY <1>2, <1>3, <1>4 DEF TaskTypes

LEMMA TaskFacts ==
  ASSUME AdminInv, NEW t \in Tasks
  PROVE  TaskProper(issued, task[t]) /\ task[t] \in TaskStates
BY DEF AdminInv, TaskTypes

(* A request outside persist changes nothing but its own state. *)
LEMMA QuietStep ==
  ASSUME AdminInv, NEW r \in Reqs, NEW q, Becomes(r, q), TaskProper(issued, q),
         q.pc \in BeforeHandler, ~ InPersist(r), server \in {"auth", "open"},
         UNCHANGED <<server, tokens, file, tmp, issued, known, histVars, faults>>
  PROVE  AdminInv'
<1>1. issued \in Nat /\ r \in Tasks /\ r # Boot /\ Boot \in Tasks /\ Reqs \subseteq Tasks
  BY AdminAssumption DEF AdminInv, StoreTypes, Tasks
<1>2. /\ TaskTypes' /\ task'[r] = q
      /\ \A u \in Tasks : u # r => task'[u] = task[u]
  BY <1>1, TaskTypesNext
<1>3. \A u \in Tasks : /\ InPersist(u)' <=> InPersist(u) /\ u # r
                       /\ Lone(u)' <=> Lone(u) /\ u # r
  BY <1>2 DEF InPersist, Lone, BeforeHandler
<1>4. q.gone = {} /\ q.fresh = None /\ q.pc # "persisted" /\ q.pc # "rename"
  BY DEF TaskProper, BeforeHandler
<1>5. OnFile' = OnFile /\ Loadable' = Loadable
  BY DEF OnFile, Loadable
<1>6. StoreTypes' /\ FileTypes'
  BY DEF AdminInv, StoreTypes, FileTypes, histVars
<1>7. Phases'
  BY <1>1, <1>2 DEF AdminInv, Phases, AuthHolds, histVars
<1>8. Answers'
  BY <1>2, <1>3, <1>5 DEF AdminInv, Answers, histVars
<1>9. LoneFile'
  BY <1>2, <1>3 DEF AdminInv, LoneFile
<1>10. AloneIsAlone'
  BY <1>2, <1>3 DEF AdminInv, AloneIsAlone, histVars
<1>11. Effects'
  BY <1>2, <1>3, <1>4, <1>5 DEF AdminInv, Effects, histVars
<1>. QED  BY <1>2, <1>6, <1>7, <1>8, <1>9, <1>10, <1>11 DEF AdminInv

-----------------------------------------------------------------------------
(* The layer, and the handlers that change nothing *)

LEMMA RequestFacts ==
  ASSUME AdminInv, NEW r \in Reqs
  PROVE  /\ r \in Tasks /\ r # Boot /\ Boot \in Tasks /\ issued \in Nat
         /\ TaskProper(issued, task[r]) /\ task[r] \in TaskStates
         /\ task[r].pc \in Changing => server = "auth"
         /\ task \in [Tasks -> TaskStates]
<1>1. r \in Tasks /\ r # Boot /\ Boot \in Tasks /\ issued \in Nat
  BY AdminAssumption DEF AdminInv, StoreTypes, Tasks
<1>2. task[r].pc \in Changing => server = "auth"
  BY <1>1 DEF AdminInv, Phases, StoreTypes, Changing, BeforeHandler
<1>. QED  BY <1>1, <1>2, TaskFacts DEF AdminInv, TaskTypes

(* Before the handler only pc, op and info are set. *)
LEMMA EnterProper ==
  ASSUME NEW n, NEW q, TaskProper(n, q), q.pc \in BeforeHandler,
         NEW d \in TaskStates, d.pc \in BeforeHandler,
         d.fresh = q.fresh, d.gone = q.gone, d.snap = q.snap, d.fd = q.fd,
         d.info # None => d.info.id \in 1 .. n
  PROVE  TaskProper(n, d)
BY DEF TaskProper, BeforeHandler

LEMMA MatchingIds ==
  ASSUME AdminInv, NEW secret, NEW t \in Matching(secret)
  PROVE  /\ [id |-> t.id, role |-> t.role] \in Infos
         /\ t.id \in 1 .. issued
<1>1. t \in tokens /\ t \in Records
  BY DEF Matching, AdminInv, StoreTypes, Proper
<1>2. t.id \in 1 .. issued
  BY <1>1 DEF AdminInv, StoreTypes, Proper, Ids
<1>3. [id |-> t.id, role |-> t.role] \in Infos
  BY <1>1 DEF Records, Infos
<1>. QED  BY <1>2, <1>3

LEMMA LayerCases ==
  ASSUME AdminInv, NEW r \in Reqs,
         Verified(r) \/ Denied(r) \/ Unchecked(r) \/ CliSends(r)
  PROVE  AdminInv'
<1>1. /\ r \in Tasks /\ task[r] \in TaskStates /\ TaskProper(issued, task[r])
      /\ task \in [Tasks -> TaskStates]
  BY RequestFacts
<1>2. /\ server \in {"auth", "open"} /\ task[r].pc \in BeforeHandler
      /\ UNCHANGED <<server, tokens, file, tmp, issued, known, histVars, faults>>
  BY DEF Verified, Denied, Unchecked, CliSends, BeforeHandler
<1>3. ~ InPersist(r)
  BY <1>2 DEF InPersist, BeforeHandler
<1>4. task[r].op \in Ops \cup {"boot", None} /\ task[r].info \in Infos \cup {None}
      /\ (task[r].info # None => task[r].info.id \in 1 .. issued)
  BY <1>1 DEF TaskStates, TaskProper
<1>5. CASE task' = [task EXCEPT ![r] = Idle]
  <2>1. TaskProper(issued, Idle) /\ Idle.pc \in BeforeHandler
    BY IdleProper DEF BeforeHandler
  <2>2. Becomes(r, Idle)
    BY <1>1, <1>5 DEF Becomes
  <2>. QED  BY <1>2, <1>3, <2>1, <2>2, QuietStep
<1>6. CASE \E o \in Ops \cup {"boot", None}, p \in BeforeHandler, i \in Infos \cup {None} :
             /\ i # None => i.id \in 1 .. issued
             /\ task' = [task EXCEPT ![r] = [task[r] EXCEPT !.op = o, !.pc = p, !.info = i]]
  <2>1. PICK o \in Ops \cup {"boot", None}, p \in BeforeHandler, i \in Infos \cup {None} :
             /\ i # None => i.id \in 1 .. issued
             /\ task' = [task EXCEPT ![r] = [task[r] EXCEPT !.op = o, !.pc = p, !.info = i]]
    BY <1>6
  <2>. DEFINE d == [task[r] EXCEPT !.op = o, !.pc = p, !.info = i]
  <2>2. TaskProper(issued, d) /\ d.pc = p
    <3>. DEFINE a == [task[r] EXCEPT !.op = o]
                b == [a EXCEPT !.pc = p]
    <3>1. /\ a \in TaskStates /\ a.fresh = task[r].fresh /\ a.gone = task[r].gone
          /\ a.snap = task[r].snap /\ a.fd = task[r].fd
      BY <1>1 DEF TaskStates
    <3>2. d = [b EXCEPT !.info = i]
      BY <1>1 DEF TaskStates
    <3>. HIDE DEF a, d
    <3>3. /\ b \in TaskStates /\ b.fresh = task[r].fresh /\ b.gone = task[r].gone
          /\ b.snap = task[r].snap /\ b.pc = p /\ b.fd = task[r].fd
      BY <3>1 DEF TaskStates
    <3>. HIDE DEF b
    <3>4. /\ d \in TaskStates /\ d.fresh = task[r].fresh /\ d.gone = task[r].gone
          /\ d.snap = task[r].snap /\ d.info = i /\ d.pc = p /\ d.fd = task[r].fd
      BY <3>2, <3>3 DEF TaskStates
    <3>. QED  BY <1>1, <1>2, <2>1, <3>4, EnterProper
  <2>3. Becomes(r, d)
    BY <1>1, <2>1 DEF Becomes
  <2>. HIDE DEF d
  <2>. QED  BY <1>2, <1>3, <2>2, <2>3, QuietStep
<1>7. "denied" \in BeforeHandler /\ "handler" \in BeforeHandler /\ Ops \subseteq Ops \cup {"boot", None}
      /\ "view" \in Ops
  BY DEF BeforeHandler, Ops
<1>8. ASSUME task' = [task EXCEPT ![r].pc = "denied"]
      PROVE  AdminInv'
  <2>1. task' = [task EXCEPT ![r] =
                  [task[r] EXCEPT !.op = task[r].op, !.pc = "denied", !.info = task[r].info]]
    BY <1>1, <1>8 DEF TaskStates
  <2>. QED  BY <1>4, <1>6, <1>7, <2>1
<1>9. ASSUME NEW o \in Ops, task' = [task EXCEPT ![r].op = o, ![r].pc = "handler"]
      PROVE  AdminInv'
  <2>1. task' = [task EXCEPT ![r] =
                  [task[r] EXCEPT !.op = o, !.pc = "handler", !.info = task[r].info]]
    BY <1>1, <1>9 DEF TaskStates
  <2>. QED  BY <1>4, <1>6, <1>7, <2>1
<1>10. CASE Verified(r)
  <2>1. PICK op \in Ops, secret \in known : \E t \in Matching(secret) :
          task' = [task EXCEPT ![r].op = op, ![r].pc = "handler",
                               ![r].info = [id |-> t.id, role |-> t.role]]
    BY <1>10 DEF Verified
  <2>2. PICK t \in Matching(secret) :
          task' = [task EXCEPT ![r].op = op, ![r].pc = "handler",
                               ![r].info = [id |-> t.id, role |-> t.role]]
    BY <2>1
  <2>. DEFINE i == [id |-> t.id, role |-> t.role]
  <2>3. i \in Infos /\ i.id \in 1 .. issued
    BY MatchingIds
  <2>4. task' = [task EXCEPT ![r] = [task[r] EXCEPT !.op = op, !.pc = "handler", !.info = i]]
    BY <1>1, <2>2 DEF TaskStates
  <2>. HIDE DEF i
  <2>. QED  BY <1>6, <1>7, <2>3, <2>4
<1>11. CASE Denied(r)
  BY <1>5, <1>8, <1>11 DEF Denied
<1>12. CASE Unchecked(r)
  BY <1>9, <1>12 DEF Unchecked
<1>13. CASE CliSends(r)
  BY <1>7, <1>8, <1>9, <1>13 DEF CliSends
<1>. QED  BY <1>10, <1>11, <1>12, <1>13

LEMMA AnswerCases ==
  ASSUME AdminInv, NEW r \in Reqs,
         AnswersAtOnce(r) \/ DeleteRefused(r) \/ AnswersError(r)
  PROVE  AdminInv'
<1>1. /\ r \in Tasks /\ (task[r].pc \in Changing => server = "auth") /\ r # Boot
  BY RequestFacts
<1>2. /\ task[r].pc \in {"handler", "failed"} /\ task' = [task EXCEPT ![r] = Idle]
      /\ UNCHANGED <<server, tokens, file, tmp, issued, known, histVars, faults>>
  BY DEF AnswersAtOnce, DeleteRefused, AnswersError, Managing, InHandler
<1>3. ~ InPersist(r) /\ Becomes(r, Idle)
  BY <1>1, <1>2 DEF InPersist, Becomes
<1>4. server \in {"auth", "open"}
  <2>1. server \in {"down", "booting"} => task[r].pc = "idle"
    BY <1>1 DEF AdminInv, Phases
  <2>. QED  BY <1>2, <2>1 DEF AdminInv, StoreTypes
<1>5. TaskProper(issued, Idle) /\ Idle.pc \in BeforeHandler
  BY IdleProper DEF BeforeHandler
<1>. QED  BY <1>2, <1>3, <1>4, <1>5, QuietStep

-----------------------------------------------------------------------------
(* persist *)

(* A task that has something to persist runs in a server that has a store. *)
LEMMA ChangingServer ==
  ASSUME AdminInv, NEW t \in Tasks, task[t].pc \in Changing
  PROVE  /\ server \in {"auth", "booting"}
         /\ server = "booting" => t = Boot
         /\ server = "auth" => t # Boot
BY DEF AdminInv, Phases, StoreTypes, Tasks, Changing, BeforeHandler

(* The snapshot is the store as it is; persists that overlap know it. *)
LEMMA PersistsCase ==
  ASSUME AdminInv, NEW t \in Tasks, Persists(t)
  PROVE  AdminInv'
<1>. DEFINE alone == \A v \in Tasks : ~ InPersist(v)
<1>1. /\ task[t].pc = "persist" /\ task \in [Tasks -> TaskStates] /\ Boot \in Tasks
      /\ overlapped' = (overlapped \/ ~ alone)
      /\ task' = [u \in Tasks |->
           IF u = t THEN [task[t] EXCEPT !.pc = "open", !.snap = tokens, !.alone = alone]
           ELSE [task[u] EXCEPT !.alone = @ /\ ~ InPersist(u)]]
      /\ UNCHANGED <<server, tokens, file, tmp, issued, known, granted, revoked, failed, faults>>
  BY DEF Persists, Snapshots, AdminInv, TaskTypes, Tasks
<1>2. server \in {"auth", "booting"} /\ (server = "booting" => t = Boot)
      /\ (server = "auth" => t # Boot)
  BY <1>1, ChangingServer DEF Changing
<1>3. /\ tokens \subseteq Records /\ Proper(issued, tokens)
      /\ Kept(granted, revoked, tokens)
  BY <1>2 DEF AdminInv, StoreTypes, Proper, Answers
<1>. HIDE DEF alone
<1>4. /\ task'[t] \in TaskStates /\ task'[t].pc = "open" /\ task'[t].snap = tokens
      /\ task'[t].fresh = task[t].fresh /\ task'[t].gone = task[t].gone
      /\ task'[t].info = task[t].info /\ task'[t].token = task[t].token
      /\ task'[t].fd = task[t].fd /\ task'[t].alone = alone
  <2>. DEFINE q == task[t]
              d == [q EXCEPT !.pc = "open"]
              e == [d EXCEPT !.snap = tokens]
              f == [e EXCEPT !.alone = alone]
  <2>1. q \in TaskStates /\ alone \in BOOLEAN /\ tokens \in SUBSET Records
    BY <1>1, <1>3 DEF alone
  <2>2. task'[t] = f
    BY <1>1 DEF TaskStates
  <2>. HIDE DEF q
  <2>3. /\ d \in TaskStates /\ d.pc = "open" /\ d.fresh = q.fresh /\ d.gone = q.gone
        /\ d.info = q.info /\ d.token = q.token /\ d.fd = q.fd
    BY <2>1 DEF TaskStates, Changing
  <2>. HIDE DEF d
  <2>4. /\ e \in TaskStates /\ e.pc = "open" /\ e.fresh = q.fresh /\ e.gone = q.gone
        /\ e.info = q.info /\ e.token = q.token /\ e.snap = tokens /\ e.fd = q.fd
    BY <2>1, <2>3 DEF TaskStates
  <2>. HIDE DEF e
  <2>5. /\ f \in TaskStates /\ f.pc = "open" /\ f.fresh = q.fresh /\ f.gone = q.gone
        /\ f.info = q.info /\ f.token = q.token /\ f.snap = tokens /\ f.alone = alone
        /\ f.fd = q.fd
    BY <2>1, <2>4 DEF TaskStates
  <2>. QED  BY <2>2, <2>5 DEF q
<1>5. ASSUME NEW u \in Tasks, u # t
      PROVE  /\ task'[u] \in TaskStates /\ task'[u].pc = task[u].pc
             /\ task'[u].snap = task[u].snap /\ task'[u].fresh = task[u].fresh
             /\ task'[u].gone = task[u].gone /\ task'[u].info = task[u].info
             /\ task'[u].fd = task[u].fd
             /\ task'[u].alone = (task[u].alone /\ ~ InPersist(u))
  <2>. DEFINE q == task[u]
              b == q.alone /\ ~ InPersist(u)
              d == [q EXCEPT !.alone = b]
  <2>1. q \in TaskStates /\ b \in BOOLEAN
    BY <1>1 DEF TaskStates
  <2>2. task'[u] = d
    BY <1>1, <1>5 DEF TaskStates
  <2>. HIDE DEF q, b
  <2>3. /\ d \in TaskStates /\ d.pc = q.pc /\ d.snap = q.snap /\ d.fresh = q.fresh
        /\ d.gone = q.gone /\ d.info = q.info /\ d.alone = b /\ d.fd = q.fd
    BY <2>1 DEF TaskStates
  <2>. QED  BY <2>2, <2>3 DEF q, b
<1>6. TaskTypes'
  <2>1. \A u \in Tasks : TaskProper(issued, task[u])
    BY DEF AdminInv, TaskTypes
  <2>2. TaskProper(issued, task'[t])
    BY <1>1, <1>3, <1>4, <2>1 DEF TaskProper, BeforeHandler
  <2>3. \A u \in Tasks : u # t => TaskProper(issued, task'[u])
    BY <1>5, <2>1 DEF TaskProper
  <2>4. task' = [u \in Tasks |-> task'[u]]
    BY <1>1
  <2>. QED  BY <1>1, <1>4, <1>5, <2>2, <2>3, <2>4 DEF TaskTypes
<1>7. \A u \in Tasks : InPersist(u)' <=> InPersist(u) \/ u = t
  BY <1>4, <1>5 DEF InPersist
<1>8. ~ InPersist(t)
  BY <1>1 DEF InPersist
<1>9. \A u \in Tasks : Lone(u)' <=> u = t /\ alone
  BY <1>4, <1>5, <1>7, <1>8 DEF Lone, alone
<1>10. OnFile' = OnFile /\ Loadable' = Loadable /\ (~ overlapped' => ~ overlapped)
  BY <1>1 DEF OnFile, Loadable
<1>11. StoreTypes' /\ FileTypes'
  <2>1. overlapped' \in BOOLEAN
    BY <1>1
  <2>. QED  BY <1>1, <2>1 DEF AdminInv, StoreTypes, FileTypes
<1>12. Phases'
  <2>1. CASE server = "auth"
    BY <1>1, <1>2, <1>5, <2>1 DEF AdminInv, Phases, AuthHolds
  <2>2. CASE server = "booting"
    <3>1. t = Boot /\ Booting(task[Boot]) /\ \A r \in Reqs : task[r].pc = "idle" /\ r # Boot
      BY <1>2, <2>2, AdminAssumption DEF AdminInv, Phases
    <3>2. alone
      BY <1>8, <3>1 DEF InPersist, Tasks, alone
    <3>3. Booting(task[Boot])' /\ ~ overlapped'
      BY <1>1, <1>4, <2>2, <3>1, <3>2 DEF Booting, Changing, AdminInv, Phases
    <3>4. \A r \in Reqs : task'[r].pc = "idle"
      BY <1>5, <3>1 DEF Tasks
    <3>. QED  BY <1>1, <2>2, <3>3, <3>4 DEF Phases, AuthHolds
  <2>. QED  BY <1>2, <2>1, <2>2
<1>13. Answers'
  BY <1>1, <1>3, <1>4, <1>9, <1>10 DEF AdminInv, Answers
<1>14. LoneFile'
  BY <1>4, <1>9 DEF LoneFile
<1>15. AloneIsAlone'
  <2>1. \A u, v \in Tasks : Lone(u)' /\ InPersist(v)' => u = v
    BY <1>7, <1>9 DEF alone
  <2>2. \A u \in Tasks : InPersist(u)' /\ ~ overlapped' => task'[u].alone
    BY <1>1, <1>4, <1>7 DEF alone
  <2>. QED  BY <2>1, <2>2 DEF AloneIsAlone
<1>16. \A u \in Tasks : \A L, R : Done(task'[u], L, R) <=> Done(task[u], L, R)
  BY <1>4, <1>5 DEF Done
<1>17. Effects'
  <2>1. \A u \in Tasks : task'[u].gone \cap Ids(tokens) = {}
    BY <1>4, <1>5 DEF AdminInv, Effects
  <2>2. \A u \in Tasks : Done(task'[u], Ids(tokens), tokens)
    BY <2>1 DEF Done
  <2>3. \A u \in Tasks : Lone(u)' => Done(task'[u], Ids(tokens), task'[u].snap)
    BY <1>4, <1>9, <2>2
  <2>4. ASSUME NEW u \in Tasks, task'[u].pc = "persisted"
        PROVE  /\ ~ overlapped' => Done(task'[u], Ids(tokens), OnFile)
               /\ \A v \in Tasks : Lone(v)' => Done(task'[u], Ids(tokens), task'[v].snap)
    <3>1. u # t /\ task[u].pc = "persisted"
      BY <1>4, <1>5, <2>4
    <3>2. ~ overlapped => Done(task[u], Ids(tokens), OnFile)
      BY <3>1 DEF AdminInv, Effects
    <3>. QED  BY <1>4, <1>9, <1>10, <1>16, <2>2, <3>2
  <2>. QED  BY <1>1, <1>10, <2>1, <2>3, <2>4 DEF Effects
<1>. QED  BY <1>6, <1>11, <1>12, <1>13, <1>14, <1>15, <1>17 DEF AdminInv

(* Task t goes on to pc p with f as its open file. *)
Advances(t, p, f) == task' = [task EXCEPT ![t].pc = p, ![t].fd = f]

LEMMA GoesOn ==
  ASSUME AdminInv, NEW t \in Tasks, task[t].pc \in Changing, NEW p \in Changing,
         NEW f \in {"tmp", "file", "lost", None}, p # "write" => f = None,
         issued' = issued, Advances(t, p, f)
  PROVE  /\ TaskTypes' /\ \A u \in Tasks : u # t => task'[u] = task[u]
         /\ task'[t].pc = p /\ task'[t].fd = f /\ task'[t].snap = task[t].snap
         /\ task'[t].fresh = task[t].fresh /\ task'[t].gone = task[t].gone
         /\ task'[t].alone = task[t].alone /\ task'[t].token = task[t].token
         /\ \A L, R : Done(task'[t], L, R) <=> Done(task[t], L, R)
<1>. DEFINE q == task[t]
            d == [q EXCEPT !.pc = p]
            e == [d EXCEPT !.fd = f]
<1>1. task \in [Tasks -> TaskStates] /\ q \in TaskStates /\ TaskProper(issued, q)
  BY DEF AdminInv, TaskTypes
<1>2. Becomes(t, e)
  BY <1>1 DEF TaskStates, Advances, Becomes
<1>. HIDE DEF q
<1>3. /\ d \in TaskStates /\ d.pc = p /\ d.fresh = q.fresh /\ d.gone = q.gone
      /\ d.info = q.info /\ d.token = q.token /\ d.alone = q.alone /\ d.snap = q.snap
  BY <1>1 DEF TaskStates
<1>. HIDE DEF d
<1>4. /\ e \in TaskStates /\ e.pc = p /\ e.fresh = q.fresh /\ e.gone = q.gone
      /\ e.info = q.info /\ e.token = q.token /\ e.alone = q.alone /\ e.snap = q.snap
      /\ e.fd = f
  BY <1>1, <1>3 DEF TaskStates
<1>. HIDE DEF e
<1>5. TaskProper(issued, e)
  <2>1. p \notin BeforeHandler
    BY DEF Changing, BeforeHandler
  <2>. QED  BY <1>1, <1>4, <2>1 DEF TaskProper
<1>6. issued \in Nat
  BY DEF AdminInv, StoreTypes
<1>7. /\ TaskTypes' /\ task'[t] = e /\ \A u \in Tasks : u # t => task'[u] = task[u]
  BY <1>2, <1>5, <1>6, TaskTypesNext
<1>8. \A L, R : Done(e, L, R) <=> Done(q, L, R)
  BY <1>4 DEF Done
<1>. QED  BY <1>4, <1>7, <1>8 DEF q

(* The phase of the server stays while a task goes on. *)
LEMMA PhaseStays ==
  ASSUME AdminInv, NEW t \in Tasks, task[t].pc \in Changing,
         \A u \in Tasks : u # t => task'[u].pc = task[u].pc,
         task'[t].pc \in Changing, task'[t].fresh = task[t].fresh,
         task'[t].alone = task[t].alone, task'[t].token = task[t].token,
         task'[t].pc = "failed" /\ task[t].alone => failed',
         overlapped' => overlapped, UNCHANGED <<server, tokens>>
  PROVE  Phases'
<1>1. /\ server \in {"auth", "booting"} /\ (server = "booting" => t = Boot)
      /\ (server = "auth" => t # Boot) /\ Boot \in Tasks
  BY ChangingServer DEF Tasks
<1>2. CASE server = "auth"
  BY <1>1, <1>2 DEF AdminInv, Phases, AuthHolds
<1>3. CASE server = "booting"
  <2>1. Booting(task[Boot])' /\ ~ overlapped'
    BY <1>1, <1>3 DEF AdminInv, Phases, Booting
  <2>2. \A r \in Reqs : task'[r].pc = "idle"
    BY <1>1, <1>3, AdminAssumption DEF AdminInv, Phases, Tasks
  <2>. QED  BY <1>3, <2>1, <2>2 DEF Phases, AuthHolds
<1>. QED  BY <1>1, <1>2, <1>3

(* A step of persist up to its rename: the token file is touched only by one *)
(* that is not alone.                                                        *)
LEMMA PersistGoesOn ==
  ASSUME AdminInv, NEW t \in Tasks, InPersist(t),
         NEW p \in {"write", "rename", "failed"}, NEW f \in {"tmp", "file", "lost", None},
         p # "write" => f = None, Advances(t, p, f),
         FileTypes', task[t].alone => file' = file,
         task[t].alone /\ p = "write" => f = "tmp" /\ tmp' = Without("empty"),
         task[t].alone /\ p = "rename" => tmp' = Whole(task[t].snap),
         faults' \in 0 .. MaxFaults, failed' \in BOOLEAN, failed => failed',
         task[t].alone /\ p = "failed" => failed',
         UNCHANGED <<server, tokens, issued, known, granted, revoked, overlapped>>
  PROVE  AdminInv'
<1>1. task[t].pc \in Changing /\ p \in Changing
  BY DEF InPersist, Changing
<1>2. /\ TaskTypes' /\ \A u \in Tasks : u # t => task'[u] = task[u]
      /\ task'[t].pc = p /\ task'[t].fd = f /\ task'[t].snap = task[t].snap
      /\ task'[t].fresh = task[t].fresh /\ task'[t].gone = task[t].gone
      /\ task'[t].alone = task[t].alone /\ task'[t].token = task[t].token
      /\ \A L, R : Done(task'[t], L, R) <=> Done(task[t], L, R)
  BY <1>1, GoesOn
<1>3. \A u \in Tasks : /\ InPersist(u)' => InPersist(u)
                       /\ Lone(u)' => Lone(u)
                       /\ task'[u].snap = task[u].snap /\ task'[u].alone = task[u].alone
  BY <1>2 DEF InPersist, Lone
<1>4. ~ overlapped => task[t].alone /\ OnFile' = OnFile /\ Loadable' = Loadable
  BY DEF AdminInv, AloneIsAlone, OnFile, Loadable
<1>5. StoreTypes'
  BY DEF AdminInv, StoreTypes
<1>6. Phases'
  BY <1>1, <1>2, PhaseStays
<1>7. Answers'
  BY <1>3, <1>4 DEF AdminInv, Answers
<1>8. LoneFile'
  <2>1. ASSUME NEW u \in Tasks, Lone(u)'
        PROVE  u = t /\ task[t].alone
    BY <1>3, <2>1 DEF AdminInv, AloneIsAlone, Lone
  <2>. QED  BY <1>2, <2>1 DEF LoneFile
<1>9. AloneIsAlone'
  BY <1>3 DEF AdminInv, AloneIsAlone
<1>10. Effects'
  <2>1. \A u \in Tasks : \A L, R : Done(task'[u], L, R) <=> Done(task[u], L, R)
    BY <1>2
  <2>2. \A u \in Tasks : task'[u].pc = "persisted" => task[u].pc = "persisted"
    BY <1>2
  <2>3. \A u \in Tasks : task'[u].gone = task[u].gone
    BY <1>2
  <2>. QED  BY <1>3, <1>4, <2>1, <2>2, <2>3 DEF AdminInv, Effects
<1>. QED  BY <1>2, <1>5, <1>6, <1>7, <1>8, <1>9, <1>10 DEF AdminInv

LEMMA FaultsBounded ==
  ASSUME AdminInv, faults < MaxFaults, faults' = faults + 1
  PROVE  faults' \in 0 .. MaxFaults
BY AdminAssumption DEF AdminInv, StoreTypes

(* What is put into a file is a proper list of records. *)
LEMMA PutsFiles ==
  ASSUME AdminInv, NEW t, NEW c \in Files, Proper(issued, c.records), Puts(t, c),
         issued' = issued
  PROVE  FileTypes'
BY DEF AdminInv, FileTypes, Puts

LEMMA PlainFiles ==
  ASSUME AdminInv, NEW is \in {"absent", "empty", "torn"}
  PROVE  /\ Without(is) \in Files /\ Without(is).is = is
         /\ Proper(issued, Without(is).records) /\ Without(is).records = {}
BY RecordsEmpty DEF Without, Files

LEMMA WholeFiles ==
  ASSUME AdminInv, NEW R, Proper(issued, R)
  PROVE  /\ Whole(R) \in Files /\ Whole(R).is = "whole" /\ Whole(R).records = R
         /\ Proper(issued, Whole(R).records)
BY DEF Whole, Files, Proper

(* A lone persist that is about to write has just truncated the file. *)
LEMMA LoneWrites ==
  ASSUME AdminInv, NEW t \in Tasks, task[t].pc = "write", task[t].alone
  PROVE  task[t].fd = "tmp" /\ tmp.is = "empty"
<1>1. task[t].fd = "tmp" /\ tmp = Without("empty")
  BY DEF AdminInv, LoneFile, Lone, InPersist
<1>. QED  BY <1>1 DEF Without

LEMMA OpensTmpCase ==
  ASSUME AdminInv, NEW t \in Tasks, OpensTmp(t)
  PROVE  AdminInv'
<1>1. /\ InPersist(t) /\ Advances(t, "write", "tmp") /\ tmp' = Without("empty") /\ file' = file
      /\ UNCHANGED <<server, tokens, issued, known, granted, revoked, overlapped, failed, faults>>
  BY DEF OpensTmp, InPersist, Advances, histVars
<1>2. FileTypes'
  BY <1>1, PlainFiles DEF AdminInv, FileTypes
<1>3. faults' \in 0 .. MaxFaults /\ failed' \in BOOLEAN
  BY <1>1 DEF AdminInv, StoreTypes
<1>. QED  BY <1>1, <1>2, <1>3, PersistGoesOn

LEMMA WritesTmpCase ==
  ASSUME AdminInv, NEW t \in Tasks, WritesTmp(t)
  PROVE  AdminInv'
<1>1. /\ task[t].pc = "write" /\ InPersist(t) /\ Advances(t, "rename", None)
      /\ UNCHANGED <<server, tokens, issued, known, granted, revoked, overlapped, failed, faults>>
  BY DEF WritesTmp, InPersist, Advances, histVars
<1>2. PICK c \in {Whole(task[t].snap), Without("torn")} :
        Puts(t, c) /\ (task[t].alone => c = Whole(task[t].snap))
  BY <1>1, LoneWrites DEF WritesTmp, Untouched
<1>3. c \in Files /\ Proper(issued, c.records)
  BY PlainFiles, WholeFiles, TaskFacts DEF TaskProper
<1>4. FileTypes'
  BY <1>1, <1>2, <1>3, PutsFiles
<1>5. task[t].alone => file' = file /\ tmp' = Whole(task[t].snap)
  BY <1>1, <1>2, LoneWrites DEF Puts
<1>6. faults' \in 0 .. MaxFaults /\ failed' \in BOOLEAN
  BY <1>1 DEF AdminInv, StoreTypes
<1>. QED  BY <1>1, <1>4, <1>5, <1>6, PersistGoesOn

(* A failing disk leaves the token file alone when the persist is alone. *)
LEMMA WriteFailsCase ==
  ASSUME AdminInv, NEW t \in Tasks, WriteFails(t)
  PROVE  AdminInv'
<1>1. /\ InPersist(t) /\ Advances(t, "failed", None) /\ failed' = TRUE
      /\ task[t].pc \in {"open", "write"} /\ faults' \in 0 .. MaxFaults
      /\ UNCHANGED <<server, tokens, issued, known, granted, revoked, overlapped>>
  BY FaultsBounded DEF WriteFails, InPersist, Advances
<1>2. CASE UNCHANGED <<tmp, file>>
  <2>1. FileTypes'
    BY <1>1, <1>2 DEF AdminInv, FileTypes
  <2>. QED  BY <1>1, <1>2, <2>1, PersistGoesOn
<1>3. CASE task[t].pc = "write" /\ Puts(t, Without("torn"))
  <2>1. FileTypes'
    BY <1>1, <1>3, PlainFiles, PutsFiles
  <2>2. task[t].alone => file' = file
    BY <1>3, LoneWrites DEF Puts
  <2>. QED  BY <1>1, <2>1, <2>2, PersistGoesOn
<1>. QED  BY <1>2, <1>3 DEF WriteFails

(* A lone persist finds its file when it renames. *)
LEMMA RenameFailsCase ==
  ASSUME AdminInv, NEW t \in Tasks, Renames(t), tmp.is = "absent"
  PROVE  AdminInv'
<1>1. /\ task[t].pc = "rename" /\ task' = [task EXCEPT ![t].pc = "failed"]
      /\ UNCHANGED <<server, tokens, file, tmp, issued, known, granted, revoked, overlapped,
                     failed, faults>>
  BY DEF Renames
<1>2. InPersist(t) /\ task[t].fd = None
  BY <1>1, TaskFacts DEF InPersist, TaskProper
<1>3. Advances(t, "failed", None)
  <2>1. task \in [Tasks -> TaskStates] /\ task[t] \in TaskStates
    BY DEF AdminInv, TaskTypes
  <2>2. [[task[t] EXCEPT !.pc = "failed"] EXCEPT !.fd = None] = [task[t] EXCEPT !.pc = "failed"]
    BY <1>2, <2>1 DEF TaskStates
  <2>. QED  BY <1>1, <2>1, <2>2 DEF Advances
<1>4. ~ task[t].alone
  BY <1>1, <1>2 DEF AdminInv, LoneFile, Lone, Whole
<1>5. FileTypes' /\ faults' \in 0 .. MaxFaults /\ failed' \in BOOLEAN
  BY <1>1 DEF AdminInv, StoreTypes, FileTypes
<1>. QED  BY <1>1, <1>2, <1>3, <1>4, <1>5, PersistGoesOn

(* The rename: the file becomes the snapshot of the persist that is alone. *)
LEMMA RenameCase ==
  ASSUME AdminInv, NEW t \in Tasks, Renames(t), tmp.is # "absent"
  PROVE  AdminInv'
<1>1. /\ task[t].pc = "rename" /\ file' = tmp /\ tmp' = Without("absent")
      /\ task' = [u \in Tasks |->
           IF u = t THEN [task[t] EXCEPT !.pc = "persisted", !.snap = {}]
           ELSE [task[u] EXCEPT !.fd = Moved(@)]]
      /\ overlapped' = (overlapped /\ ~ task[t].alone)
      /\ UNCHANGED <<server, tokens, issued, known, granted, revoked, failed, faults>>
  BY DEF Renames
<1>2. /\ task[t].pc \in Changing /\ "persisted" \in Changing /\ InPersist(t)
      /\ task \in [Tasks -> TaskStates] /\ \A u \in Tasks : TaskProper(issued, task[u])
  BY <1>1 DEF InPersist, Changing, AdminInv, TaskTypes
<1>3. /\ task'[t] \in TaskStates /\ task'[t].pc = "persisted" /\ task'[t].snap = {}
      /\ task'[t].fresh = task[t].fresh /\ task'[t].gone = task[t].gone
      /\ task'[t].info = task[t].info /\ task'[t].token = task[t].token
      /\ task'[t].fd = task[t].fd /\ task'[t].alone = task[t].alone
  <2>. DEFINE q == task[t]
              d == [q EXCEPT !.pc = "persisted"]
              e == [d EXCEPT !.snap = {}]
  <2>1. q \in TaskStates
    BY <1>2
  <2>2. task'[t] = e
    BY <1>1 DEF TaskStates
  <2>. HIDE DEF q
  <2>3. /\ d \in TaskStates /\ d.pc = "persisted" /\ d.fresh = q.fresh /\ d.gone = q.gone
        /\ d.info = q.info /\ d.token = q.token /\ d.fd = q.fd /\ d.alone = q.alone
    BY <2>1 DEF TaskStates, Changing
  <2>. HIDE DEF d
  <2>4. /\ e \in TaskStates /\ e.pc = "persisted" /\ e.fresh = q.fresh /\ e.gone = q.gone
        /\ e.info = q.info /\ e.token = q.token /\ e.fd = q.fd /\ e.alone = q.alone
        /\ e.snap = {}
    BY <2>1, <2>3 DEF TaskStates
  <2>. QED  BY <2>2, <2>4 DEF q
<1>4. ASSUME NEW u \in Tasks, u # t
      PROVE  /\ task'[u] \in TaskStates /\ task'[u].pc = task[u].pc
             /\ task'[u].snap = task[u].snap /\ task'[u].fresh = task[u].fresh
             /\ task'[u].gone = task[u].gone /\ task'[u].info = task[u].info
             /\ task'[u].alone = task[u].alone
             /\ task[u].fd = None => task'[u].fd = None
  <2>. DEFINE q == task[u]
              m == Moved(q.fd)
              d == [q EXCEPT !.fd = m]
  <2>1. q \in TaskStates
    BY <1>2
  <2>2. m \in {"tmp", "file", "lost", None} /\ (q.fd = None => m = None)
    <3>1. q.fd \in {"tmp", "file", "lost", None}
      BY <2>1 DEF TaskStates
    <3>. QED  BY <3>1, AdminAssumption DEF Moved
  <2>3. task'[u] = d
    BY <1>1, <1>4 DEF TaskStates
  <2>. HIDE DEF q, m
  <2>4. /\ d \in TaskStates /\ d.pc = q.pc /\ d.snap = q.snap /\ d.fresh = q.fresh
        /\ d.gone = q.gone /\ d.info = q.info /\ d.alone = q.alone /\ d.fd = m
    BY <2>1, <2>2 DEF TaskStates
  <2>. QED  BY <2>2, <2>3, <2>4 DEF q
<1>5. TaskTypes'
  <2>1. TaskProper(issued, task'[t])
    BY <1>1, <1>2, <1>3, RecordsEmpty DEF TaskProper, BeforeHandler
  <2>2. \A u \in Tasks : u # t => TaskProper(issued, task'[u])
    BY <1>2, <1>4 DEF TaskProper
  <2>3. task' = [u \in Tasks |-> task'[u]]
    BY <1>1
  <2>. QED  BY <1>1, <1>3, <1>4, <2>1, <2>2, <2>3 DEF TaskTypes
<1>6. \A u \in Tasks : /\ InPersist(u)' <=> InPersist(u) /\ u # t
                       /\ Lone(u)' => Lone(u) /\ u # t
  BY <1>3, <1>4 DEF InPersist, Lone
<1>7. ~ overlapped' => task[t].alone
  BY <1>1, <1>2 DEF AdminInv, AloneIsAlone
<1>8. task[t].alone => Lone(t) /\ tmp = Whole(task[t].snap)
  BY <1>1, <1>2 DEF AdminInv, LoneFile, Lone
<1>9. task[t].alone => OnFile' = task[t].snap /\ Loadable' /\ \A u \in Tasks : ~ InPersist(u)'
  BY <1>1, <1>6, <1>8 DEF OnFile, Loadable, Whole, AdminInv, AloneIsAlone
<1>10. \A u \in Tasks : ~ Lone(u)'
  BY <1>2, <1>6 DEF AdminInv, AloneIsAlone
<1>11. StoreTypes' /\ FileTypes'
  <2>1. overlapped' \in BOOLEAN
    BY <1>1
  <2>. QED  BY <1>1, <2>1, PlainFiles DEF AdminInv, StoreTypes, FileTypes
<1>12. Phases'
  <2>1. /\ \A u \in Tasks : u # t => task'[u].pc = task[u].pc
        /\ task'[t].pc \in Changing /\ task'[t].pc # "failed" /\ (overlapped' => overlapped)
    BY <1>1, <1>2, <1>3, <1>4
  <2>. QED  BY <1>1, <1>2, <1>3, <2>1, PhaseStays
<1>13. Answers'
  BY <1>1, <1>7, <1>8, <1>9, <1>10 DEF AdminInv, Answers
<1>14. LoneFile'
  BY <1>10 DEF LoneFile
<1>15. AloneIsAlone'
  BY <1>7, <1>9, <1>10 DEF AloneIsAlone
<1>16. Effects'
  <2>1. \A u \in Tasks : task'[u].gone \cap Ids(tokens) = {}
    BY <1>3, <1>4 DEF AdminInv, Effects
  <2>2. ASSUME NEW u \in Tasks, task'[u].pc = "persisted", ~ overlapped'
        PROVE  Done(task'[u], Ids(tokens), OnFile')
    <3>1. Lone(t) /\ OnFile' = task[t].snap
      BY <1>7, <1>8, <1>9, <2>2
    <3>2. Done(task[u], Ids(tokens), task[t].snap)
      BY <1>4, <2>2, <3>1 DEF AdminInv, Effects
    <3>. QED  BY <1>3, <1>4, <3>1, <3>2 DEF Done
  <2>. QED  BY <1>1, <1>10, <2>1, <2>2 DEF Effects
<1>. QED  BY <1>5, <1>11, <1>12, <1>13, <1>14, <1>15, <1>16 DEF AdminInv

LEMMA PersistCases ==
  ASSUME AdminInv, NEW t \in Tasks, PersistStep(t)
  PROVE  AdminInv'
BY PersistsCase, OpensTmpCase, WritesTmpCase, WriteFailsCase, RenameFailsCase, RenameCase
   DEF PersistStep

-----------------------------------------------------------------------------
(* The handlers that change the store *)

(* What a step of request r from outside persist to "persist" leaves alone. *)
LEMMA StartsPersist ==
  ASSUME AdminInv, NEW r \in Reqs, server = "auth", ~ InPersist(r),
         NEW q, Becomes(r, q), q.pc = "persist", issued' \in Nat, issued <= issued',
         TaskProper(issued', q), UNCHANGED <<server, file, tmp, overlapped, failed>>
  PROVE  /\ TaskTypes' /\ task'[r] = q /\ \A u \in Tasks : u # r => task'[u] = task[u]
         /\ \A u \in Tasks : /\ InPersist(u)' <=> InPersist(u) /\ u # r
                             /\ Lone(u)' <=> Lone(u) /\ u # r
         /\ OnFile' = OnFile /\ Loadable' = Loadable
         /\ Phases' /\ LoneFile' /\ AloneIsAlone'
<1>1. r \in Tasks /\ r # Boot /\ Boot \in Tasks /\ Reqs \subseteq Tasks
  BY RequestFacts DEF Tasks
<1>2. TaskTypes' /\ task'[r] = q /\ \A u \in Tasks : u # r => task'[u] = task[u]
  BY TaskTypesNext
<1>3. \A u \in Tasks : /\ InPersist(u)' <=> InPersist(u) /\ u # r
                       /\ Lone(u)' <=> Lone(u) /\ u # r
  BY <1>2 DEF InPersist, Lone
<1>4. OnFile' = OnFile /\ Loadable' = Loadable
  BY DEF OnFile, Loadable
<1>5. Phases'
  BY <1>1, <1>2 DEF AdminInv, Phases, AuthHolds
<1>6. LoneFile'
  BY <1>2, <1>3 DEF AdminInv, LoneFile
<1>7. AloneIsAlone'
  BY <1>2, <1>3 DEF AdminInv, AloneIsAlone
<1>. QED  BY <1>2, <1>3, <1>4, <1>5, <1>6, <1>7

LEMMA CreateCase ==
  ASSUME AdminInv, NEW r \in Reqs, server = "auth", ~ InPersist(r),
         NEW role \in {"root", "admin"}, NEW life \in {"forever", "running"},
         CreateToken(r, issued + 1, role, life),
         UNCHANGED <<server, file, tmp, known, histVars, faults>>
  PROVE  AdminInv'
<1>. DEFINE n == issued
            k == task[r]
            a == Record(n + 1, n + 1, role, life)
            d == [k EXCEPT !.pc = "persist"]
            e == [d EXCEPT !.fresh = n + 1]
            q == [e EXCEPT !.info = None]
<1>1. /\ n \in Nat /\ n < MaxTokens /\ issued' = n + 1 /\ tokens' = tokens \cup {a}
      /\ n + 1 \in 1 .. MaxTokens
      /\ UNCHANGED <<file, tmp, granted, revoked, overlapped, failed>>
  BY AdminAssumption DEF CreateToken, AdminInv, StoreTypes, histVars
<1>2. r \in Tasks /\ k \in TaskStates /\ TaskProper(n, k) /\ task \in [Tasks -> TaskStates]
  BY RequestFacts
<1>3. Becomes(r, q)
  BY <1>2 DEF Becomes, CreateToken, TaskStates
<1>4. a \in Records /\ a.id = n + 1
  BY <1>1, AdminAssumption DEF Record, Records, Secrets
<1>. HIDE DEF k, a
<1>5. /\ d \in TaskStates /\ d.pc = "persist" /\ d.gone = k.gone /\ d.snap = k.snap
      /\ d.fd = k.fd
  BY <1>2 DEF TaskStates, Changing
<1>. HIDE DEF d
<1>6. /\ e \in TaskStates /\ e.pc = "persist" /\ e.gone = k.gone /\ e.snap = k.snap
      /\ e.fresh = n + 1 /\ e.fd = k.fd
  BY <1>1, <1>5 DEF TaskStates
<1>. HIDE DEF e
<1>7. /\ q \in TaskStates /\ q.pc = "persist" /\ q.gone = k.gone /\ q.snap = k.snap
      /\ q.fresh = n + 1 /\ q.info = None /\ q.fd = k.fd
  BY <1>6 DEF TaskStates
<1>. HIDE DEF q
<1>7a. k.pc # "write"
  BY DEF k, InPersist
<1>8. TaskProper(n + 1, q)
  <2>1. Proper(n + 1, k.snap)
    BY <1>1, <1>2, RecordsGrow DEF TaskProper
  <2>2. k.gone \subseteq 1 .. n + 1 /\ n + 1 \in 1 .. n + 1
    BY <1>1, <1>2 DEF TaskProper
  <2>3. "persist" \notin BeforeHandler /\ k.fd = None
    BY <1>2, <1>7a DEF BeforeHandler, TaskProper
  <2>. QED  BY <1>7, <2>1, <2>2, <2>3 DEF TaskProper
<1>9. /\ TaskTypes' /\ task'[r] = q /\ \A u \in Tasks : u # r => task'[u] = task[u]
      /\ \A u \in Tasks : Lone(u)' <=> Lone(u) /\ u # r
      /\ OnFile' = OnFile /\ Loadable' = Loadable /\ Phases' /\ LoneFile' /\ AloneIsAlone'
  <2>1. issued' \in Nat /\ issued <= issued' /\ TaskProper(issued', q)
    BY <1>1, <1>8
  <2>. QED  BY <1>1, <1>3, <1>7, <2>1, StartsPersist
<1>10. /\ Proper(n + 1, tokens') /\ Ids(tokens') = Ids(tokens) \cup {n + 1}
       /\ Ids(tokens) \subseteq 1 .. n
  BY <1>1, <1>4, RecordsAdd DEF AdminInv, StoreTypes, Proper
<1>11. StoreTypes' /\ FileTypes'
  <2>1. \A R : Proper(n, R) => Proper(n + 1, R)
    BY <1>1, RecordsGrow
  <2>2. granted \subseteq 1 .. n + 1 /\ revoked \subseteq 1 .. n + 1
    BY <1>1 DEF AdminInv, StoreTypes
  <2>3. StoreTypes'
    BY <1>1, <1>10, <2>2 DEF AdminInv, StoreTypes, histVars
  <2>. QED  BY <1>1, <2>1, <2>3 DEF AdminInv, FileTypes
<1>12. Answers'
  <2>1. n + 1 \notin revoked
    BY <1>1 DEF AdminInv, StoreTypes
  <2>2. Kept(granted, revoked, tokens')
    BY <1>10, <2>1 DEF AdminInv, Answers, Kept
  <2>3. \A u \in Tasks : Lone(u)' => Kept(granted, revoked, task'[u].snap)
    BY <1>9 DEF AdminInv, Answers
  <2>. QED  BY <1>1, <1>9, <2>2, <2>3 DEF AdminInv, Answers
<1>13. Effects'
  <2>. DEFINE L == Ids(tokens)
  <2>1. \A u \in Tasks : TaskProper(n, task[u])
    BY DEF AdminInv, TaskTypes
  <2>2. \A u \in Tasks : task[u].gone \cap (L \cup {n + 1}) = {}
    BY <1>1, <2>1 DEF AdminInv, Effects, TaskProper
  <2>3. task'[r].gone = task[r].gone
    BY <1>7, <1>9 DEF k
  <2>4. \A u \in Tasks : task'[u].gone \cap Ids(tokens') = {}
    BY <1>9, <1>10, <2>2, <2>3
  <2>. HIDE DEF L
  <2>5. ASSUME NEW u \in Tasks, NEW R, Done(task[u], L, R)
        PROVE  Done(task[u], L \cup {n + 1}, R)
    BY <1>1, <2>1, <2>5, DoneAdds
  <2>6. \A u \in Tasks : Lone(u)' => Done(task'[u], Ids(tokens'), task'[u].snap)
    BY <1>9, <1>10, <2>5 DEF AdminInv, Effects, L
  <2>7. \A u \in Tasks : task'[u].pc = "persisted" =>
          /\ ~ overlapped' => Done(task'[u], Ids(tokens'), OnFile)
          /\ \A v \in Tasks : Lone(v)' => Done(task'[u], Ids(tokens'), task'[v].snap)
    BY <1>1, <1>7, <1>9, <1>10, <2>5 DEF AdminInv, Effects, L
  <2>. QED  BY <1>9, <2>4, <2>6, <2>7 DEF Effects
<1>. QED  BY <1>9, <1>11, <1>12, <1>13 DEF AdminInv

LEMMA RemoveCase ==
  ASSUME AdminInv, NEW r \in Reqs, server = "auth", ~ InPersist(r),
         NEW S, S \subseteq tokens, Remove(r, S),
         UNCHANGED <<server, file, tmp, issued, known, revoked, overlapped, failed, faults>>
  PROVE  AdminInv'
<1>. DEFINE n == issued
            k == task[r]
            G == k.gone \cup Ids(S)
            d == [k EXCEPT !.pc = "persist"]
            e == [d EXCEPT !.info = None]
            q == [e EXCEPT !.gone = G]
<1>1. n \in Nat /\ tokens' = tokens \ S /\ granted' = granted \ Ids(S)
      /\ UNCHANGED <<file, tmp, revoked, overlapped, failed>>
  BY DEF Remove, AdminInv, StoreTypes
<1>2. r \in Tasks /\ k \in TaskStates /\ TaskProper(n, k) /\ task \in [Tasks -> TaskStates]
  BY RequestFacts
<1>3. Becomes(r, q)
  BY <1>2 DEF Becomes, Remove, TaskStates
<1>4. /\ Proper(n, tokens') /\ Ids(tokens') = Ids(tokens) \ Ids(S) /\ Ids(S) \subseteq 1 .. n
  BY <1>1, RecordsRemove DEF AdminInv, StoreTypes
<1>5. G \subseteq 1 .. n /\ G \in SUBSET (1 .. MaxTokens)
  BY <1>1, <1>2, <1>4, AdminAssumption DEF TaskProper, AdminInv, StoreTypes
<1>. HIDE DEF k, G
<1>6. /\ d \in TaskStates /\ d.pc = "persist" /\ d.fresh = k.fresh /\ d.snap = k.snap
      /\ d.fd = k.fd
  BY <1>2 DEF TaskStates, Changing
<1>. HIDE DEF d
<1>7. /\ e \in TaskStates /\ e.pc = "persist" /\ e.fresh = k.fresh /\ e.snap = k.snap
      /\ e.info = None /\ e.fd = k.fd
  BY <1>6 DEF TaskStates
<1>. HIDE DEF e
<1>8. /\ q \in TaskStates /\ q.pc = "persist" /\ q.fresh = k.fresh /\ q.snap = k.snap
      /\ q.info = None /\ q.gone = G /\ q.fd = k.fd
  BY <1>5, <1>7 DEF TaskStates
<1>. HIDE DEF q
<1>9. TaskProper(n, q)
  <2>1. "persist" \notin BeforeHandler /\ k.fd = None
    BY <1>2 DEF BeforeHandler, TaskProper, InPersist, k
  <2>. QED  BY <1>2, <1>5, <1>8, <2>1 DEF TaskProper
<1>10. /\ TaskTypes' /\ task'[r] = q /\ \A u \in Tasks : u # r => task'[u] = task[u]
       /\ \A u \in Tasks : Lone(u)' <=> Lone(u) /\ u # r
       /\ OnFile' = OnFile /\ Loadable' = Loadable /\ Phases' /\ LoneFile' /\ AloneIsAlone'
  <2>1. issued' \in Nat /\ issued <= issued' /\ TaskProper(issued', q)
    BY <1>1, <1>9
  <2>. QED  BY <1>1, <1>3, <1>8, <2>1, StartsPersist
<1>11. StoreTypes' /\ FileTypes'
  BY <1>1, <1>4 DEF AdminInv, StoreTypes, FileTypes
<1>12. Answers'
  <2>1. \A R : Kept(granted, revoked, R) => Kept(granted', revoked, R)
    BY <1>1 DEF Kept
  <2>2. Kept(granted', revoked, tokens')
    BY <1>1, <1>4 DEF AdminInv, Answers, Kept
  <2>3. \A u \in Tasks : Lone(u)' => Kept(granted', revoked, task'[u].snap)
    BY <1>10, <2>1 DEF AdminInv, Answers
  <2>4. ~ overlapped => Loadable /\ Kept(granted', revoked, OnFile)
    BY <2>1 DEF AdminInv, Answers
  <2>5. ~ overlapped' => Loadable' /\ Kept(granted', revoked', OnFile')
    BY <1>1, <1>10, <2>4
  <2>6. Kept(granted', revoked', tokens')
    BY <1>1, <2>2
  <2>7. \A u \in Tasks : Lone(u)' => Kept(granted', revoked', task'[u].snap)
    BY <1>1, <2>3
  <2>. QED  BY <2>5, <2>6, <2>7 DEF Answers
<1>13. Effects'
  <2>1. \A u \in Tasks : u # r => task'[u].gone \cap Ids(tokens') = {}
    BY <1>4, <1>10 DEF AdminInv, Effects
  <2>2. task'[r].gone \cap Ids(tokens') = {}
    BY <1>2, <1>4, <1>8, <1>10 DEF AdminInv, Effects, G, k
  <2>3. ASSUME NEW u \in Tasks, NEW R, Done(task[u], Ids(tokens), R)
        PROVE  Done(task[u], Ids(tokens'), R)
    BY <1>4, <2>3 DEF Done
  <2>4. \A u \in Tasks : Lone(u)' => Done(task'[u], Ids(tokens'), task'[u].snap)
    BY <1>10, <2>3 DEF AdminInv, Effects
  <2>5. \A u \in Tasks : task'[u].pc = "persisted" =>
          /\ ~ overlapped' => Done(task'[u], Ids(tokens'), OnFile)
          /\ \A v \in Tasks : Lone(v)' => Done(task'[u], Ids(tokens'), task'[v].snap)
    <3>1. SUFFICES ASSUME NEW u \in Tasks, task'[u].pc = "persisted"
                   PROVE  /\ ~ overlapped' => Done(task'[u], Ids(tokens'), OnFile)
                          /\ \A v \in Tasks :
                               Lone(v)' => Done(task'[u], Ids(tokens'), task'[v].snap)
      OBVIOUS
    <3>2. task'[u] = task[u]
      BY <1>8, <1>10, <3>1
    <3>3. /\ ~ overlapped => Done(task[u], Ids(tokens), OnFile)
          /\ \A v \in Tasks : Lone(v) => Done(task[u], Ids(tokens), task[v].snap)
      BY <3>1, <3>2 DEF AdminInv, Effects
    <3>4. ~ overlapped' => Done(task'[u], Ids(tokens'), OnFile)
      BY <1>1, <2>3, <3>2, <3>3
    <3>5. ASSUME NEW v \in Tasks, Lone(v)'
          PROVE  Done(task'[u], Ids(tokens'), task'[v].snap)
      <4>1. Lone(v) /\ task'[v] = task[v]
        BY <1>10, <3>5
      <4>. QED  BY <2>3, <3>2, <3>3, <4>1
    <3>. QED  BY <3>4, <3>5
  <2>6. \A u \in Tasks : task'[u].gone \cap Ids(tokens') = {}
    BY <2>1, <2>2
  <2>7. OnFile' = OnFile
    BY <1>10
  <2>. QED  BY <2>4, <2>5, <2>6, <2>7 DEF Effects
<1>. QED  BY <1>10, <1>11, <1>12, <1>13 DEF AdminInv

LEMMA ChangeCases ==
  ASSUME AdminInv, NEW r \in Reqs,
         Creates(r) \/ Deletes(r) \/ RotateDeletes(r) \/ RotateCreates(r)
  PROVE  AdminInv'
<1>1. CASE Creates(r)
  <2>1. server = "auth" /\ ~ InPersist(r)
    BY <1>1 DEF Creates, Managing, InHandler, InPersist
  <2>. QED  BY <1>1, <2>1, CreateCase DEF Creates
<1>2. CASE Deletes(r)
  <2>1. server = "auth" /\ ~ InPersist(r)
    BY <1>2 DEF Deletes, Managing, InHandler, InPersist
  <2>2. PICK t \in tokens : Remove(r, {t})
    BY <1>2 DEF Deletes
  <2>3. PICK S : S = {t} /\ S \subseteq tokens /\ Remove(r, S)
    BY <2>2
  <2>. QED  BY <1>2, <2>1, <2>3, RemoveCase DEF Deletes
<1>3. CASE RotateDeletes(r)
  <2>1. server = "auth" /\ ~ InPersist(r)
    BY <1>3 DEF RotateDeletes, Managing, InHandler, InPersist
  <2>2. PICK S : S = Roots /\ S \subseteq tokens /\ Remove(r, S)
    BY <1>3 DEF RotateDeletes, Roots
  <2>. QED  BY <1>3, <2>1, <2>2, RemoveCase DEF RotateDeletes
<1>4. CASE RotateCreates(r)
  <2>1. task[r].pc = "persisted" /\ ~ InPersist(r)
    BY <1>4 DEF RotateCreates, InPersist
  <2>2. server = "auth"
    BY <2>1, RequestFacts DEF Changing
  <2>. QED  BY <1>4, <2>1, <2>2, CreateCase DEF RotateCreates
<1>. QED  BY <1>1, <1>2, <1>3, <1>4

(* The answer: what the request did is in the store, and in the file and in  *)
(* what may become the file as far as persists did not overlap.              *)
LEMMA DoneCase ==
  ASSUME AdminInv, NEW r \in Reqs, AnswersDone(r)
  PROVE  AdminInv'
<1>. DEFINE k == task[r]
            M == IF k.fresh = None THEN {} ELSE {k.fresh}
<1>1. /\ k.pc = "persisted" /\ known' = known \cup M
      /\ granted' = granted \cup (M \cap Ids(tokens))
      /\ revoked' = revoked \cup k.gone
      /\ task' = [task EXCEPT ![r] = Idle]
      /\ UNCHANGED <<server, tokens, file, tmp, issued, overlapped, failed, faults>>
  BY DEF AnswersDone
<1>2. /\ r \in Tasks /\ r # Boot /\ Boot \in Tasks /\ issued \in Nat
      /\ TaskProper(issued, k) /\ server = "auth"
  BY <1>1, RequestFacts DEF Changing
<1>3. /\ TaskProper(issued, Idle) /\ Idle.pc = "idle" /\ Idle.gone = {}
      /\ Becomes(r, Idle)
  BY <1>1, <1>2, IdleProper DEF Becomes
<1>4. /\ TaskTypes' /\ task'[r] = Idle /\ \A u \in Tasks : u # r => task'[u] = task[u]
  <2>1. issued' \in Nat /\ issued <= issued' /\ TaskProper(issued', Idle)
    BY <1>1, <1>2, <1>3
  <2>. QED  BY <1>3, <2>1, TaskTypesNext
<1>5. /\ \A u \in Tasks : (InPersist(u)' <=> InPersist(u)) /\ (Lone(u)' <=> Lone(u))
      /\ ~ InPersist(r) /\ ~ Lone(r)
  BY <1>1, <1>3, <1>4 DEF InPersist, Lone
<1>6. OnFile' = OnFile /\ Loadable' = Loadable
  BY <1>1 DEF OnFile, Loadable
<1>7. M \subseteq 1 .. issued /\ k.gone \subseteq 1 .. issued
  BY <1>2 DEF TaskProper
<1>8. StoreTypes' /\ FileTypes'
  <2>1. 1 .. issued \subseteq Secrets
    BY AdminAssumption DEF AdminInv, StoreTypes, Secrets
  <2>2. known' \subseteq Secrets /\ granted' \subseteq 1 .. issued /\ revoked' \subseteq 1 .. issued
    BY <1>1, <1>7, <2>1 DEF AdminInv, StoreTypes
  <2>. QED  BY <1>1, <2>2 DEF AdminInv, StoreTypes, FileTypes
<1>9. Phases'
  <2>1. server' = "auth" /\ task'[Boot] = task[Boot]
    BY <1>1, <1>2, <1>4
  <2>. QED  BY <1>1, <1>2, <2>1 DEF AdminInv, Phases, AuthHolds
<1>10. ASSUME NEW R, Kept(granted, revoked, R), Done(k, Ids(tokens), R)
       PROVE  Kept(granted', revoked', R)
  BY <1>1, <1>10 DEF Kept, Done
<1>11. Answers'
  <2>1. /\ ~ overlapped => Done(k, Ids(tokens), OnFile)
        /\ \A u \in Tasks : Lone(u) => Done(k, Ids(tokens), task[u].snap)
    BY <1>1, <1>2 DEF AdminInv, Effects
  <2>2. Done(k, Ids(tokens), tokens)
    BY <1>2 DEF AdminInv, Effects, Done
  <2>3. /\ ~ overlapped => Loadable /\ Kept(granted, revoked, OnFile)
        /\ Kept(granted, revoked, tokens)
        /\ \A u \in Tasks : Lone(u) => Kept(granted, revoked, task[u].snap)
    BY <1>2 DEF AdminInv, Answers
  <2>. HIDE DEF k
  <2>4. /\ ~ overlapped => Loadable /\ Kept(granted', revoked', OnFile)
        /\ Kept(granted', revoked', tokens)
    BY <1>10, <2>1, <2>2, <2>3
  <2>5. \A u \in Tasks : Lone(u) => Kept(granted', revoked', task[u].snap)
    BY <1>10, <2>1, <2>3
  <2>6. \A u \in Tasks : Lone(u)' => Kept(granted', revoked', task'[u].snap)
    BY <1>4, <1>5, <2>5
  <2>. QED  BY <1>1, <1>6, <2>4, <2>6 DEF Answers
<1>12. LoneFile'
  BY <1>1, <1>4, <1>5 DEF AdminInv, LoneFile
<1>13. AloneIsAlone'
  BY <1>1, <1>4, <1>5 DEF AdminInv, AloneIsAlone
<1>14. Effects'
  BY <1>1, <1>3, <1>4, <1>5, <1>6 DEF AdminInv, Effects
<1>. QED  BY <1>4, <1>8, <1>9, <1>11, <1>12, <1>13, <1>14 DEF AdminInv

-----------------------------------------------------------------------------
(* The life of the process *)

LEMMA CrashCase ==
  ASSUME AdminInv, Crashes
  PROVE  AdminInv'
<1>1. /\ faults' \in 0 .. MaxFaults /\ server' = "down" /\ tokens' = {}
      /\ task' = [t \in Tasks |-> Idle]
      /\ UNCHANGED <<file, tmp, issued, known, granted, revoked, overlapped, failed>>
  BY FaultsBounded DEF Crashes, histVars
<1>2. \A t \in Tasks : /\ TaskProper(issued, task'[t]) /\ task'[t] \in TaskStates
                       /\ task'[t].pc = "idle" /\ task'[t].gone = {} /\ task'[t].alone
  BY <1>1, IdleProper
<1>3. \A t \in Tasks : ~ InPersist(t)' /\ ~ Lone(t)'
  BY <1>2 DEF InPersist, Lone
<1>4. LoneFile' /\ AloneIsAlone' /\ Effects'
  BY <1>2, <1>3 DEF LoneFile, AloneIsAlone, Effects
<1>5. OnFile' = OnFile /\ Loadable' = Loadable /\ Proper(issued, {}) /\ Boot \in Tasks
  BY <1>1, RecordsEmpty DEF OnFile, Loadable, Tasks
<1>6. StoreTypes' /\ FileTypes' /\ TaskTypes'
  BY <1>1, <1>2, <1>5 DEF AdminInv, StoreTypes, FileTypes, TaskTypes
<1>7. Phases' /\ Answers'
  BY <1>1, <1>2, <1>3, <1>5 DEF AdminInv, Phases, Answers, AuthHolds
<1>. QED  BY <1>4, <1>6, <1>7 DEF AdminInv

(* Tokens expire; their ids stay. *)
LEMMA ExpireCase ==
  ASSUME AdminInv, Expires
  PROVE  AdminInv'
<1>1. /\ Proper(issued, tokens') /\ Ids(tokens') = Ids(tokens)
      /\ UNCHANGED <<server, file, tmp, issued, known, task, granted, revoked, overlapped,
                     failed, faults>>
      /\ tokens # {}
  BY RecordsExpire DEF Expires, AdminInv, StoreTypes, histVars
<1>2. /\ OnFile' = OnFile /\ Loadable' = Loadable
      /\ \A t \in Tasks : (InPersist(t)' <=> InPersist(t)) /\ (Lone(t)' <=> Lone(t))
  BY <1>1 DEF OnFile, Loadable, InPersist, Lone
<1>3. StoreTypes' /\ FileTypes' /\ TaskTypes'
  BY <1>1 DEF AdminInv, StoreTypes, FileTypes, TaskTypes
<1>4. Phases'
  BY <1>1 DEF AdminInv, Phases, Booting, AuthHolds
<1>5. Answers'
  BY <1>1, <1>2 DEF AdminInv, Answers, Kept
<1>6. LoneFile' /\ AloneIsAlone'
  BY <1>1, <1>2 DEF AdminInv, LoneFile, AloneIsAlone
<1>7. Effects'
  BY <1>1, <1>2 DEF AdminInv, Effects
<1>. QED  BY <1>3, <1>4, <1>5, <1>6, <1>7 DEF AdminInv

(* The server starts on what the file holds, with a new root when it has     *)
(* none.                                                                     *)
LEMMA BootCase ==
  ASSUME AdminInv, Loads
  PROVE  AdminInv'
<1>1. /\ server = "down" /\ UNCHANGED <<file, tmp, known, faults>>
      /\ issued \in Nat /\ Boot \in Tasks /\ Reqs \subseteq Tasks
      /\ Proper(issued, OnFile) /\ Loadable /\ overlapped' = FALSE /\ failed' = FALSE
  BY DEF Loads, AdminInv, StoreTypes, FileTypes, OnFile, Tasks
<1>1a. /\ Kept(granted', revoked', OnFile)
       /\ granted' \subseteq 1 .. issued /\ revoked' \subseteq 1 .. issued
  <2>1. CASE overlapped
    <3>1. granted' = granted \cap Ids(OnFile) /\ revoked' = revoked \ Ids(OnFile)
      BY <2>1 DEF Loads
    <3>. QED  BY <3>1 DEF Kept, AdminInv, StoreTypes
  <2>2. CASE ~ overlapped
    BY <2>2 DEF Loads, AdminInv, Answers, StoreTypes
  <2>. QED  BY <2>1, <2>2
<1>2. \A t \in Tasks : /\ task[t].pc = "idle" /\ TaskProper(issued, task[t])
                       /\ task[t].gone = {} /\ task[t].fresh = None /\ task[t].snap = {}
  BY <1>1 DEF AdminInv, Phases, TaskTypes, TaskProper, BeforeHandler
<1>3. OnFile' = OnFile /\ Loadable' = Loadable
  BY <1>1 DEF OnFile, Loadable
<1>4. CASE server' = "auth" /\ tokens' = OnFile /\ UNCHANGED <<issued, task>>
  <2>1. \A t \in Tasks : /\ ~ InPersist(t)' /\ ~ Lone(t)' /\ task'[t].pc = "idle"
                         /\ task'[t].gone = {}
    BY <1>2, <1>4 DEF InPersist, Lone
  <2>2. LoneFile' /\ AloneIsAlone' /\ Effects'
    BY <2>1 DEF LoneFile, AloneIsAlone, Effects
  <2>3. StoreTypes' /\ FileTypes' /\ TaskTypes'
    BY <1>1, <1>1a, <1>4 DEF AdminInv, StoreTypes, FileTypes, TaskTypes
  <2>4. Phases' /\ Answers'
    BY <1>1, <1>1a, <1>3, <1>4, <2>1 DEF Phases, Answers, AuthHolds
  <2>. QED  BY <2>2, <2>3, <2>4 DEF AdminInv
<1>5. CASE ~ (server' = "auth" /\ tokens' = OnFile /\ UNCHANGED <<issued, task>>)
  <2>. DEFINE n == issued
              k == task[Boot]
  <2>1. PICK secret \in {Env, n + 1} :
          /\ n < MaxTokens /\ server' = "booting" /\ issued' = n + 1
          /\ tokens' = OnFile \cup {Record(n + 1, secret, "root", "forever")}
          /\ task' = [[task EXCEPT ![Boot].op = "boot"]
                        EXCEPT ![Boot].pc = "persist", ![Boot].fresh = n + 1,
                               ![Boot].token = secret]
    BY <1>5 DEF Loads
  <2>. DEFINE a == Record(n + 1, secret, "root", "forever")
              b == [k EXCEPT !.op = "boot"]
              d == [b EXCEPT !.pc = "persist"]
              e == [d EXCEPT !.fresh = n + 1]
              q == [e EXCEPT !.token = secret]
  <2>2. n + 1 \in 1 .. MaxTokens /\ n + 1 \in 0 .. MaxTokens /\ secret \in Secrets
    BY <1>1, <2>1, AdminAssumption DEF Secrets
  <2>3. a \in Records /\ a.id = n + 1
    BY <1>1, <2>2 DEF Record, Records
  <2>4. k \in TaskStates /\ TaskProper(n, k) /\ task \in [Tasks -> TaskStates]
    BY <1>1, <1>2 DEF TaskProper, AdminInv, TaskTypes
  <2>5. Becomes(Boot, q)
    BY <1>1, <2>1, <2>4 DEF Becomes, TaskStates
  <2>6. tokens' = OnFile \cup {a}
    BY <2>1
  <2>. HIDE DEF a, k
  <2>7. /\ b \in TaskStates /\ b.gone = k.gone /\ b.snap = k.snap /\ b.info = k.info
        /\ b.alone = k.alone /\ b.fd = k.fd
    BY <2>4 DEF TaskStates
  <2>. HIDE DEF b
  <2>8. /\ d \in TaskStates /\ d.gone = k.gone /\ d.snap = k.snap /\ d.info = k.info
        /\ d.pc = "persist" /\ d.alone = k.alone /\ d.fd = k.fd
    BY <2>7 DEF TaskStates, Changing
  <2>. HIDE DEF d
  <2>9. /\ e \in TaskStates /\ e.gone = k.gone /\ e.snap = k.snap /\ e.info = k.info
        /\ e.pc = "persist" /\ e.alone = k.alone /\ e.fresh = n + 1
        /\ e.fd = k.fd
    BY <2>2, <2>8 DEF TaskStates
  <2>. HIDE DEF e
  <2>10. /\ q \in TaskStates /\ q.gone = k.gone /\ q.snap = k.snap /\ q.info = k.info
         /\ q.pc = "persist" /\ q.alone = k.alone /\ q.fresh = n + 1 /\ q.token = secret
         /\ q.fd = k.fd
    BY <2>2, <2>9 DEF TaskStates
  <2>. HIDE DEF q
  <2>11. k.gone = {} /\ k.snap = {} /\ k.alone /\ k.fd = None /\ (k.info # None => k.info.id \in 1 .. n)
    BY <1>1, <1>2, <2>4 DEF k, AdminInv, Phases, TaskProper
  <2>12. TaskProper(n + 1, q)
    <3>1. "persist" \notin BeforeHandler
      BY DEF BeforeHandler
    <3>2. Proper(n + 1, q.snap)
      BY <2>10, <2>11, RecordsEmpty
    <3>3. 1 .. n \subseteq 1 .. (n + 1) /\ n + 1 \in 1 .. (n + 1)
      BY <1>1
    <3>. QED  BY <2>10, <2>11, <3>1, <3>2, <3>3 DEF TaskProper
  <2>13. /\ TaskTypes' /\ task'[Boot] = q
         /\ \A u \in Tasks : u # Boot => task'[u] = task[u]
    <3>1. issued' \in Nat /\ issued <= issued' /\ TaskProper(issued', q)
      BY <1>1, <2>1, <2>12
    <3>. QED  BY <2>5, <3>1, TaskTypesNext
  <2>14. Proper(n + 1, tokens') /\ Ids(tokens') = Ids(OnFile) \cup {n + 1}
    BY <1>1, <2>3, <2>6, RecordsAdd
  <2>15. \A R : Proper(n, R) => Proper(n + 1, R)
    <3>1. n + 1 \in Nat /\ n <= n + 1
      BY <1>1
    <3>. QED  BY <1>1, <3>1, RecordsGrow
  <2>16. \A t \in Tasks : /\ ~ InPersist(t)' /\ ~ Lone(t)' /\ task'[t].gone = {}
                          /\ task'[t].pc \in {"idle", "persist"}
    BY <1>2, <2>10, <2>11, <2>13 DEF InPersist, Lone
  <2>17. LoneFile' /\ AloneIsAlone' /\ Effects'
    BY <2>16 DEF LoneFile, AloneIsAlone, Effects
  <2>18. StoreTypes' /\ FileTypes'
    <3>1. granted' \subseteq 1 .. (n + 1) /\ revoked' \subseteq 1 .. (n + 1)
      BY <1>1, <1>1a
    <3>2. StoreTypes'
      BY <1>1, <2>1, <2>2, <2>14, <3>1 DEF AdminInv, StoreTypes
    <3>. QED  BY <1>1, <2>1, <2>15, <3>2 DEF AdminInv, FileTypes
  <2>19. Phases'
    <3>1. Booting(task[Boot])'
      <4>1. n + 1 \in Nat /\ n + 1 # None
        BY <1>1, AdminAssumption
      <4>2. /\ task'[Boot].pc \in Changing /\ task'[Boot].alone
            /\ task'[Boot].pc # "failed"
        BY <2>10, <2>11, <2>13 DEF Changing
      <4>3. task'[Boot].fresh # None /\ task'[Boot].fresh \in Ids(tokens')
        BY <2>10, <2>13, <2>14, <4>1
      <4>4. task'[Boot].token \in Secrets
        BY <2>2, <2>10, <2>13
      <4>. QED  BY <4>2, <4>3, <4>4 DEF Booting
    <3>2. \A r \in Reqs : task'[r].pc = "idle"
      BY <1>1, <1>2, <2>13, AdminAssumption
    <3>. QED  BY <1>1, <2>1, <3>1, <3>2 DEF Phases, AuthHolds
  <2>20. Answers'
    <3>1. n + 1 \notin revoked'
      BY <1>1, <1>1a
    <3>2. Kept(granted', revoked', tokens')
      BY <1>1a, <2>14, <3>1 DEF Kept
    <3>. QED  BY <1>1, <1>1a, <1>3, <2>16, <3>2 DEF Answers
  <2>. QED  BY <2>13, <2>17, <2>18, <2>19, <2>20 DEF AdminInv
<1>. QED  BY <1>4, <1>5

(* The bootstrap's persist ran alone: its root is in the file. *)
LEMMA BootEndsCase ==
  ASSUME AdminInv, BootEnds
  PROVE  AdminInv'
<1>. DEFINE k == task[Boot]
<1>1. /\ k.pc \in {"persisted", "failed"} /\ task' = [task EXCEPT ![Boot] = Idle]
      /\ UNCHANGED <<file, tmp, issued, revoked, overlapped, failed, faults>>
      /\ issued \in Nat /\ Boot \in Tasks /\ Reqs \subseteq Tasks
  BY DEF BootEnds, AdminInv, StoreTypes, Tasks
<1>2. server = "booting"
  BY <1>1, ChangingServer DEF Changing
<1>3. /\ Booting(k) /\ TaskProper(issued, k)
      /\ \A r \in Reqs : task[r].pc = "idle"
      /\ ~ overlapped
  BY <1>1, <1>2, TaskFacts DEF AdminInv, Phases
<1>4. \A r \in Reqs : TaskProper(issued, task[r]) /\ task[r].gone = {}
  BY <1>1, <1>3, TaskFacts DEF TaskProper, BeforeHandler
<1>5. /\ TaskProper(issued, Idle) /\ Idle.pc = "idle" /\ Idle.gone = {}
      /\ Becomes(Boot, Idle)
  BY <1>1, IdleProper DEF Becomes
<1>6. /\ TaskTypes' /\ task'[Boot] = Idle
      /\ \A u \in Tasks : u # Boot => task'[u] = task[u]
  <2>1. issued' \in Nat /\ issued <= issued' /\ TaskProper(issued', Idle)
    BY <1>1, <1>5
  <2>. QED  BY <1>5, <2>1, TaskTypesNext
<1>7. \A t \in Tasks : /\ ~ InPersist(t)' /\ ~ Lone(t)' /\ task'[t].gone = {}
                       /\ task'[t].pc = "idle"
  BY <1>3, <1>4, <1>5, <1>6 DEF InPersist, Lone, Tasks
<1>8. LoneFile' /\ AloneIsAlone' /\ Effects' /\ FileTypes'
  BY <1>1, <1>7 DEF LoneFile, AloneIsAlone, Effects, FileTypes, AdminInv
<1>9. OnFile' = OnFile /\ Loadable' = Loadable
  BY <1>1 DEF OnFile, Loadable
<1>10. CASE k.pc = "persisted"
  <2>1. /\ server' = "auth" /\ known' = known \cup {k.token}
        /\ granted' = granted \cup {k.fresh} /\ tokens' = tokens
    BY <1>10 DEF BootEnds
  <2>2. /\ k.fresh \in 1 .. issued /\ k.token \in Secrets /\ k.fresh \in Ids(tokens)
        /\ k.fresh # None
    BY <1>3 DEF Booting, TaskProper
  <2>3. k.fresh \in Ids(OnFile)
    <3>1. Done(k, Ids(tokens), OnFile)
      BY <1>1, <1>3, <1>10 DEF AdminInv, Effects
    <3>. QED  BY <2>2, <3>1 DEF Done
  <2>4. StoreTypes'
    BY <1>1, <2>1, <2>2 DEF AdminInv, StoreTypes
  <2>5. Phases'
    BY <1>1, <1>7, <2>1 DEF Phases, AuthHolds
  <2>6. Kept(granted', revoked, OnFile) /\ Kept(granted', revoked, tokens) /\ Loadable
    BY <1>2, <1>3, <2>1, <2>2, <2>3 DEF AdminInv, Answers, Kept
  <2>7. Answers'
    BY <1>1, <1>7, <1>9, <2>1, <2>6 DEF Answers
  <2>. QED  BY <1>6, <1>8, <2>4, <2>5, <2>7 DEF AdminInv
<1>11. CASE k.pc # "persisted"
  <2>1. server' = "open" /\ tokens' = {} /\ UNCHANGED <<known, granted>>
    BY <1>11 DEF BootEnds
  <2>2. StoreTypes'
    BY <1>1, <2>1, RecordsEmpty DEF AdminInv, StoreTypes
  <2>3. Phases'
    <3>1. failed
      BY <1>1, <1>3, <1>11 DEF Booting
    <3>. QED  BY <1>1, <1>7, <2>1, <3>1 DEF Phases, BeforeHandler, AuthHolds
  <2>4. Answers'
    BY <1>1, <1>7, <1>9, <2>1 DEF AdminInv, Answers
  <2>. QED  BY <1>6, <1>8, <2>2, <2>3, <2>4 DEF AdminInv
<1>. QED  BY <1>10, <1>11

(* A file that cannot be loaded was torn by persists that overlapped. *)
LEMMA LoadFailsCase ==
  ASSUME AdminInv, LoadFails
  PROVE  AdminInv'
<1>1. /\ server = "down" /\ server' = "open" /\ Boot \in Tasks
      /\ UNCHANGED <<tokens, file, tmp, issued, known, task, granted, revoked, overlapped>>
      /\ failed' \in BOOLEAN /\ faults' \in 0 .. MaxFaults
  BY FaultsBounded DEF LoadFails, AdminInv, StoreTypes, Tasks
<1>2. /\ OnFile' = OnFile /\ Loadable' = Loadable
      /\ \A t \in Tasks : (InPersist(t)' <=> InPersist(t)) /\ (Lone(t)' <=> Lone(t))
  BY <1>1 DEF OnFile, Loadable, InPersist, Lone
<1>3. StoreTypes' /\ FileTypes' /\ TaskTypes'
  BY <1>1 DEF AdminInv, StoreTypes, FileTypes, TaskTypes
<1>4. overlapped' \/ failed'
  BY <1>1 DEF LoadFails, AdminInv, Answers
<1>5. Phases'
  <2>1. tokens = {} /\ \A t \in Tasks : task[t].pc = "idle"
    BY <1>1 DEF AdminInv, Phases
  <2>. QED  BY <1>1, <1>4, <2>1 DEF Phases, AuthHolds, BeforeHandler, Tasks
<1>6. Answers'
  BY <1>1, <1>2 DEF AdminInv, Answers
<1>7. LoneFile' /\ AloneIsAlone' /\ Effects'
  BY <1>1, <1>2 DEF AdminInv, LoneFile, AloneIsAlone, Effects
<1>. QED  BY <1>3, <1>5, <1>6, <1>7 DEF AdminInv

-----------------------------------------------------------------------------
(* The theorems *)

LEMMA InitInv == AdminInit => AdminInv
<1>. SUFFICES ASSUME AdminInit PROVE AdminInv
  OBVIOUS
<1>1. /\ server = "down" /\ tokens = {} /\ file = Without("absent") /\ tmp = Without("absent")
      /\ issued = 0 /\ known = {Env} /\ task = [t \in Tasks |-> Idle]
      /\ granted = {} /\ revoked = {} /\ faults = 0
      /\ overlapped = FALSE /\ failed = FALSE
  BY DEF AdminInit
<1>2. \A t \in Tasks : /\ TaskProper(issued, task[t]) /\ task[t] \in TaskStates
                       /\ task[t].pc = "idle" /\ task[t].gone = {} /\ task[t].alone
  BY <1>1, IdleProper
<1>3. \A t \in Tasks : ~ InPersist(t) /\ ~ Lone(t)
  BY <1>2 DEF InPersist, Lone
<1>4. LoneFile /\ AloneIsAlone /\ Effects
  BY <1>2, <1>3 DEF LoneFile, AloneIsAlone, Effects
<1>5. /\ OnFile = {} /\ Loadable /\ Proper(issued, {}) /\ Ids({}) = {} /\ Env \in Secrets
      /\ file.records = {} /\ tmp.records = {} /\ file \in Files /\ tmp \in Files
  BY <1>1, RecordsEmpty DEF OnFile, Loadable, Secrets, Without, Files
<1>6. StoreTypes /\ FileTypes /\ TaskTypes
  <2>1. overlapped \in BOOLEAN /\ failed \in BOOLEAN
    BY <1>1
  <2>2. issued \in 0 .. MaxTokens /\ faults \in 0 .. MaxFaults
    BY <1>1, AdminAssumption
  <2>3. StoreTypes
    BY <1>1, <1>5, <2>1, <2>2 DEF StoreTypes
  <2>4. FileTypes
    BY <1>5 DEF FileTypes
  <2>. QED  BY <1>1, <1>2, <2>3, <2>4 DEF TaskTypes
<1>7. Phases /\ Answers
  BY <1>1, <1>2, <1>3, <1>5 DEF Phases, Answers, Kept, AuthHolds
<1>. QED  BY <1>4, <1>6, <1>7 DEF AdminInv

LEMMA StepInv ==
  ASSUME AdminInv, [AdminNext]_adminVars
  PROVE  AdminInv'
<1>1. CASE UNCHANGED adminVars
  <2>1. /\ UNCHANGED <<server, tokens, file, tmp, issued, known, task, granted, revoked, overlapped,
                       failed, faults>>
        /\ OnFile' = OnFile /\ Loadable' = Loadable
        /\ \A t \in Tasks : (InPersist(t)' <=> InPersist(t)) /\ (Lone(t)' <=> Lone(t))
    BY <1>1 DEF adminVars, histVars, OnFile, Loadable, InPersist, Lone
  <2>2. StoreTypes' /\ FileTypes' /\ TaskTypes' /\ Phases'
    BY <2>1 DEF AdminInv, StoreTypes, FileTypes, TaskTypes, Phases, Booting, AuthHolds
  <2>3. Answers' /\ LoneFile' /\ AloneIsAlone' /\ Effects'
    BY <2>1 DEF AdminInv, Answers, LoneFile, AloneIsAlone, Effects
  <2>. QED  BY <2>2, <2>3 DEF AdminInv
<1>2. ASSUME NEW r \in Reqs, RequestStep(r)
      PROVE  AdminInv'
  BY <1>2, LayerCases, AnswerCases, ChangeCases, DoneCase DEF RequestStep
<1>3. ASSUME NEW t \in Tasks, PersistStep(t)
      PROVE  AdminInv'
  BY <1>3, PersistCases
<1>4. CASE Bootstraps \/ BootEnds \/ Crashes \/ Expires
  BY <1>4, BootCase, LoadFailsCase, BootEndsCase, CrashCase, ExpireCase DEF Bootstraps
<1>. QED  BY <1>1, <1>2, <1>3, <1>4 DEF AdminNext

(* The inductive invariant holds in every reachable state of the admin API. *)
THEOREM Invariance == AdminSpec => []AdminInv
<1>1. AdminInv /\ [AdminNext]_adminVars => AdminInv'
  BY StepInv
<1>. QED  BY <1>1, InitInv, PTL DEF AdminSpec

(* Every variable of the store, its two files and its tasks has its type. *)
THEOREM TypeCorrectness == AdminSpec => []AdminTypeOK
<1>1. AdminInv => AdminTypeOK
  BY DEF AdminInv, StoreTypes, FileTypes, TaskTypes, Proper, AdminTypeOK
<1>. QED  BY <1>1, Invariance, PTL

(* What an administrator was answered holds in the store of a running server *)
(* under every interleaving, and, unless persists have overlapped and none   *)
(* has run alone since, in the file the next start reads: a crash between    *)
(* any two steps loses no granted token and brings no revoked one back.      *)
THEOREM AnsweredCorrect == AdminSpec => []AnsweredSurvives
<1>1. AdminInv => AnsweredSurvives
  BY DEF AdminInv, Answers, Answered, Kept, AnsweredSurvives
<1>. QED  BY <1>1, Invariance, PTL

(* The API runs without auth only after a disk operation of this start has   *)
(* failed, or after persists overlapped: never because the server was killed *)
(* at some step of a persist that ran alone.                                 *)
THEOREM AuthHoldsCorrect == AdminSpec => []AuthHolds
<1>1. AdminInv => AuthHolds
  BY DEF AdminInv, Phases
<1>. QED  BY <1>1, Invariance, PTL
=============================================================================
