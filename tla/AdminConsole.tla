----------------------------- MODULE AdminConsole -----------------------------
(***************************************************************************)
(* The admin API of rinfra-admin: the token store and its file             *)
(* (auth/store.rs), its bootstrap (auth/mod.rs), the layer that checks     *)
(* every request (auth/middleware.rs), the token routes (routes.rs) and    *)
(* the command line that talks to them (rinfra-plugins/src/cli).           *)
(*                                                                         *)
(* A request is a task: between the layer and the handler it awaits the    *)
(* audit log, and persist takes its snapshot under the lock but writes     *)
(* after releasing it, through a temporary file that all persists share.   *)
(* The server may be killed between any two steps.                         *)
(***************************************************************************)
EXTENDS Integers, FiniteSets

CONSTANTS
  Reqs,       \* the requests under way at once
  MaxTokens,  \* bound: token records ever created
  MaxFaults,  \* bound: crashes and failing disk operations
  None

(* The task that runs bootstrap_admin_auth when the server starts. *)
Boot == "boot"
Tasks == Reqs \cup {Boot}

ASSUME AdminAssumption ==
  /\ MaxTokens \in Nat /\ MaxFaults \in Nat /\ Boot \notin Reqs
  /\ None \notin Nat /\ None \notin {"tmp", "file"}

(* Plaintexts: a generated one is unique and stands for its record's id; the *)
(* one in root_token_env; the cluster token, which is no admin token.        *)
Env == 0
ClusterToken == -1
Secrets == {Env, ClusterToken} \cup 1 .. MaxTokens

(* AdminTokenRecord: life is "over" once expires_at has passed. *)
Records == [id : 1 .. MaxTokens, secret : Secrets, role : {"root", "admin"},
            life : {"forever", "running", "over"}]

(* A file: "absent"; "empty", created or truncated and not written yet;      *)
(* "torn", no well-formed list of records; or "whole".                       *)
Files == [is : {"absent", "empty", "torn", "whole"}, records : SUBSET Records]
Without(is) == [is |-> is, records |-> {}]
Whole(records) == [is |-> "whole", records |-> records]

VARIABLES
  server,   \* "down", "booting", "auth", or "open": without the layer
  tokens,   \* AdminTokenStore.tokens
  file,     \* the token file
  tmp,      \* the temporary file next to it
  issued,   \* ids handed out so far
  known,    \* plaintexts an administrator has
  task,     \* where each request, and the bootstrap, is
  granted,  \* history: ids answered to their creator, not deleted since
  revoked,  \* history: ids whose deletion was answered
  overlapped,  \* history: two persists were under way at once, none alone since
  failed,   \* history: the disk failed since the server was started
  faults

histVars == <<granted, revoked, overlapped, failed>>
adminVars ==
  <<server, tokens, file, tmp, issued, known, task, histVars, faults>>

(* "view": the routes that change nothing, list_tokens_handler among them. *)
Ops == {"view", "create", "delete", "rotate"}

(* info: the AdminTokenInfo the layer put into the request; snap: the        *)
(* serialized records; fd: where the file it has open to write is by now;    *)
(* alone: no other persist ran during this one.                              *)
Idle == [pc |-> "idle", op |-> None, token |-> None, info |-> None,
         fresh |-> None, gone |-> {}, snap |-> {}, fd |-> None, alone |-> TRUE]

Ids(records) == {t.id : t \in records}
OnFile == file.records
Loadable == file.is \in {"absent", "whole"}
Roots == {t \in tokens : t.role = "root"}

Record(id, secret, role, life) ==
  [id |-> id, secret |-> secret, role |-> role, life |-> life]

AdminInit ==
  /\ server = "down" /\ tokens = {} /\ file = Without("absent") /\ tmp = Without("absent")
  /\ issued = 0 /\ known = {Env}
  /\ task = [t \in Tasks |-> Idle]
  /\ granted = {} /\ revoked = {} /\ overlapped = FALSE /\ failed = FALSE
  /\ faults = 0

-----------------------------------------------------------------------------
(* AdminTokenStore *)

(* create_token_with_value: pushed under the lock, persisted after it. *)
CreateToken(t, secret, role, life) ==
  /\ issued < MaxTokens
  /\ issued' = issued + 1
  /\ tokens' = tokens \cup {Record(issued + 1, secret, role, life)}
  /\ task' = [task EXCEPT ![t].pc = "persist", ![t].fresh = issued + 1, ![t].info = None]

(* delete and delete_root: retain what stays, then persist. *)
Remove(t, records) ==
  /\ tokens' = tokens \ records
  /\ task' = [task EXCEPT ![t].pc = "persist", ![t].info = None,
                          ![t].gone = @ \cup Ids(records)]
  /\ granted' = granted \ Ids(records)

InPersist(t) == task[t].pc \in {"open", "write", "rename"}

(* persist's snapshot of the given records; persists that overlap know it. *)
Snapshots(t, records) ==
  LET alone == \A v \in Tasks : ~ InPersist(v)
  IN  /\ task[t].pc = "persist"
      /\ task' = [u \in Tasks |->
           IF u = t THEN [task[t] EXCEPT !.pc = "open", !.snap = records, !.alone = alone]
           ELSE [task[u] EXCEPT !.alone = @ /\ ~ InPersist(u)]]
      /\ overlapped' = (overlapped \/ ~ alone)
      /\ UNCHANGED <<server, tokens, file, tmp, issued, known, granted, revoked, failed, faults>>

(* Defect: the snapshot was taken before the change was made. *)
PersistsOld(t) == Snapshots(t, OnFile)

(* persist: the records as they are now, serialized under the read lock. *)
Persists(t) == Snapshots(t, tokens)

(* Defect: no temporary file, persist writes the token file itself. *)
OpensFile(t) ==
  /\ task[t].pc = "open"
  /\ file' = Without("empty")
  /\ task' = [task EXCEPT ![t].pc = "write", ![t].fd = "file"]
  /\ UNCHANGED <<server, tokens, tmp, issued, known, histVars, faults>>

(* std::fs::write opens the one temporary file all persists share: it is     *)
(* created, or truncated also under the hands of another that writes it.     *)
OpensTmp(t) ==
  /\ task[t].pc = "open"
  /\ tmp' = Without("empty")
  /\ task' = [task EXCEPT ![t].pc = "write", ![t].fd = "tmp"]
  /\ UNCHANGED <<server, tokens, file, issued, known, histVars, faults>>

(* What t's open file holds becomes c, wherever a rename has moved the file. *)
Puts(t, c) ==
  /\ tmp' = IF task[t].fd = "tmp" THEN c ELSE tmp
  /\ file' = IF task[t].fd = "file" THEN c ELSE file

Untouched(t) ==
  /\ task[t].fd = "tmp" => tmp.is = "empty"
  /\ task[t].fd = "file" => file.is = "empty"

(* The snapshot goes to the file's start.  When another has written since    *)
(* the last truncation, the end of its longer text may be left behind.       *)
WritesTmp(t) ==
  /\ task[t].pc = "write"
  /\ \/ Puts(t, Whole(task[t].snap))
     \/ ~ Untouched(t) /\ Puts(t, Without("torn"))
  /\ task' = [task EXCEPT ![t].pc = "rename", ![t].fd = None]
  /\ UNCHANGED <<server, tokens, issued, known, histVars, faults>>

(* The open fails, or the write does with the file truncated and perhaps     *)
(* half written.                                                             *)
WriteFails(t) ==
  /\ task[t].pc \in {"open", "write"} /\ faults < MaxFaults
  /\ faults' = faults + 1 /\ failed' = TRUE
  /\ \/ UNCHANGED <<tmp, file>>
     \/ task[t].pc = "write" /\ Puts(t, Without("torn"))
  /\ task' = [task EXCEPT ![t].pc = "failed", ![t].fd = None]
  /\ UNCHANGED <<server, tokens, issued, known, granted, revoked, overlapped>>

(* A rename moves the temporary file, also one that others have open. *)
Moved(fd) ==
  CASE fd = "tmp" -> "file" [] fd = "file" -> "lost" [] OTHER -> fd

(* Whatever the temporary file holds becomes the token file; the rename      *)
(* fails when another persist has already renamed it away.                   *)
Renames(t) ==
  /\ task[t].pc = "rename"
  /\ \/ /\ tmp.is # "absent"
        /\ file' = tmp /\ tmp' = Without("absent")
        /\ task' = [u \in Tasks |->
             IF u = t THEN [task[t] EXCEPT !.pc = "persisted", !.snap = {}]
             ELSE [task[u] EXCEPT !.fd = Moved(@)]]
        /\ overlapped' = (overlapped /\ ~ task[t].alone)
     \/ /\ tmp.is = "absent"
        /\ task' = [task EXCEPT ![t].pc = "failed"]
        /\ UNCHANGED <<file, tmp, overlapped>>
  /\ UNCHANGED <<server, tokens, issued, known, granted, revoked, failed, faults>>

PersistStep(t) ==
  Persists(t) \/ OpensTmp(t) \/ WritesTmp(t) \/ WriteFails(t) \/ Renames(t)

-----------------------------------------------------------------------------
(* bootstrap_admin_auth and AdminBuilder::with_auth_config *)

(* load; a root is created, from the environment or generated, when the      *)
(* file has none.  What overlapping persists have lost, nobody is owed from  *)
(* here on.                                                                  *)
Loads ==
  LET started == [task EXCEPT ![Boot].op = "boot"]
  IN  /\ server = "down" /\ Loadable
      /\ \/ /\ \E t \in OnFile : t.role = "root"
            /\ server' = "auth" /\ tokens' = OnFile
            /\ UNCHANGED <<issued, task>>
         \/ /\ ~ \E t \in OnFile : t.role = "root"
            /\ issued < MaxTokens
            /\ server' = "booting"
            /\ issued' = issued + 1
            /\ \E secret \in {Env, issued + 1} :
                 /\ tokens' = OnFile \cup {Record(issued + 1, secret, "root", "forever")}
                 /\ task' = [started EXCEPT ![Boot].pc = "persist", ![Boot].fresh = issued + 1,
                                            ![Boot].token = secret]
      /\ granted' = IF overlapped THEN granted \cap Ids(OnFile) ELSE granted
      /\ revoked' = IF overlapped THEN revoked \ Ids(OnFile) ELSE revoked
      /\ overlapped' = FALSE /\ failed' = FALSE
      /\ UNCHANGED <<file, tmp, known, faults>>

(* A token file that cannot be parsed, or not be read: with_auth_config logs *)
(* the error and the API runs without auth.                                  *)
LoadFails ==
  /\ server = "down"
  /\ server' = "open"
  /\ \/ /\ ~ Loadable
        /\ failed' = FALSE
        /\ UNCHANGED faults
     \/ /\ file.is # "absent" /\ faults < MaxFaults
        /\ faults' = faults + 1 /\ failed' = TRUE
  /\ UNCHANGED <<tokens, file, tmp, issued, known, task, granted, revoked, overlapped>>

Bootstraps == Loads \/ LoadFails

(* The generated root is shown once; an error leaves the API without auth. *)
BootEnds ==
  /\ task[Boot].pc \in {"persisted", "failed"}
  /\ IF task[Boot].pc = "persisted"
       THEN /\ server' = "auth"
            /\ known' = known \cup {task[Boot].token}
            /\ granted' = granted \cup {task[Boot].fresh}
            /\ UNCHANGED tokens
       ELSE /\ server' = "open" /\ tokens' = {}
            /\ UNCHANGED <<known, granted>>
  /\ task' = [task EXCEPT ![Boot] = Idle]
  /\ UNCHANGED <<file, tmp, issued, revoked, overlapped, failed, faults>>

(* The process is killed; its clients see the connection close. *)
Crashes ==
  /\ server # "down" /\ faults < MaxFaults
  /\ faults' = faults + 1
  /\ server' = "down" /\ tokens' = {}
  /\ task' = [t \in Tasks |-> Idle]
  /\ UNCHANGED <<file, tmp, issued, known, histVars>>

-----------------------------------------------------------------------------
(* AdminAuthService::call *)

Serving == server \in {"auth", "open"}

(* AdminTokenStore::verify: the first record with this plaintext that has    *)
(* not expired.                                                              *)
Matching(secret) == {t \in tokens : t.secret = secret /\ t.life # "over"}

(* extract_token found a plaintext, in x-admin-token or as the bearer, and   *)
(* it verifies: the record's info goes with the request, which now awaits    *)
(* the audit log.                                                            *)
Verified(r) ==
  /\ server = "auth" /\ task[r].pc = "idle"
  /\ \E op \in Ops, secret \in known : \E t \in Matching(secret) :
       task' = [task EXCEPT ![r].op = op, ![r].pc = "handler",
                            ![r].info = [id |-> t.id, role |-> t.role]]
  /\ UNCHANGED <<server, tokens, file, tmp, issued, known, histVars, faults>>

(* A request without a token or with one that does not verify: audited as    *)
(* denied, then a 401.                                                       *)
Denied(r) ==
  /\ server = "auth"
  /\ \/ /\ task[r].pc = "idle"
        /\ \E secret \in known \cup {None} : Matching(secret) = {}
        /\ task' = [task EXCEPT ![r].pc = "denied"]
     \/ /\ task[r].pc = "denied"
        /\ task' = [task EXCEPT ![r] = Idle]
  /\ UNCHANGED <<server, tokens, file, tmp, issued, known, histVars, faults>>

(* A path in exclude_paths, and any path when there is no layer, goes to its *)
(* handler as it is.                                                         *)
Unchecked(r) ==
  /\ server \in {"auth", "open"} /\ task[r].pc = "idle"
  /\ \E op \in Ops : task' = [task EXCEPT ![r].op = op, ![r].pc = "handler"]
  /\ UNCHANGED <<server, tokens, file, tmp, issued, known, histVars, faults>>

(* CliClient sends the cluster token: a 401 wherever the layer looks. *)
CliSends(r) ==
  /\ server \in {"auth", "open"} /\ task[r].pc = "idle"
  /\ task' = IF server = "auth" /\ Matching(ClusterToken) = {}
               THEN [task EXCEPT ![r].pc = "denied"]
               ELSE [task EXCEPT ![r].op = "view", ![r].pc = "handler"]
  /\ UNCHANGED <<server, tokens, file, tmp, issued, known, histVars, faults>>

-----------------------------------------------------------------------------
(* The handlers *)

RequireRoot(info) == info # None /\ info.role = "root"

InHandler(r, op) == task[r].pc = "handler" /\ task[r].op = op

(* The views answer from what they read; the token routes   *)
(* are not there without the layer; require_root refuses with 401 or 403.    *)
AnswersAtOnce(r) ==
  /\ task[r].pc = "handler"
  /\ \/ task[r].op = "view"
     \/ server = "open"
     \/ ~ RequireRoot(task[r].info)
  /\ task' = [task EXCEPT ![r] = Idle]
  /\ UNCHANGED <<server, tokens, file, tmp, issued, known, histVars, faults>>

Managing(r, op) == InHandler(r, op) /\ server = "auth" /\ RequireRoot(task[r].info)

(* create_token_handler; without expires_in_days the token's end never comes. *)
Creates(r) ==
  /\ Managing(r, "create")
  /\ CreateToken(r, issued + 1, "admin", "running")
  /\ UNCHANGED <<server, file, tmp, known, histVars, faults>>

(* delete_token_handler: any other token, a root included. *)
Deletes(r) ==
  /\ Managing(r, "delete")
  /\ \E t \in tokens : t.id # task[r].info.id /\ Remove(r, {t})
  /\ UNCHANGED <<server, file, tmp, issued, known, revoked, overlapped, failed, faults>>

(* Its own token is a 400, one that is gone a 404. *)
DeleteRefused(r) ==
  /\ Managing(r, "delete")
  /\ \/ task[r].info.id \in Ids(tokens)
     \/ \E id \in 1 .. issued : id \notin Ids(tokens)
  /\ task' = [task EXCEPT ![r] = Idle]
  /\ UNCHANGED <<server, tokens, file, tmp, issued, known, histVars, faults>>

(* rotate_root_handler: delete_root, then create_token. *)
RotateDeletes(r) ==
  /\ Managing(r, "rotate") /\ task[r].fresh = None /\ task[r].gone = {}
  /\ Remove(r, Roots)
  /\ UNCHANGED <<server, file, tmp, issued, known, revoked, overlapped, failed, faults>>

RotateCreates(r) ==
  /\ task[r].op = "rotate" /\ task[r].pc = "persisted" /\ task[r].fresh = None
  /\ CreateToken(r, issued + 1, "root", "forever")
  /\ UNCHANGED <<server, file, tmp, known, histVars, faults>>

(* audit_token_op, then the answer. *)
AnswersDone(r) ==
  LET q == task[r]
      made == IF q.fresh = None THEN {} ELSE {q.fresh}
  IN  /\ q.pc = "persisted"
      /\ q.op = "rotate" => q.fresh # None
      /\ known' = known \cup made
      /\ granted' = granted \cup (made \cap Ids(tokens))
      /\ revoked' = revoked \cup q.gone
      /\ task' = [task EXCEPT ![r] = Idle]
      /\ UNCHANGED <<server, tokens, file, tmp, issued, overlapped, failed, faults>>

(* persist failed: a 500, and what was changed in memory stays changed. *)
AnswersError(r) ==
  /\ task[r].pc = "failed"
  /\ task' = [task EXCEPT ![r] = Idle]
  /\ UNCHANGED <<server, tokens, file, tmp, issued, known, histVars, faults>>

(* expires_at passes. *)
Expires ==
  \E t \in tokens :
    /\ t.life = "running"
    /\ tokens' = (tokens \ {t}) \cup {[t EXCEPT !.life = "over"]}
    /\ UNCHANGED <<server, file, tmp, issued, known, task, histVars, faults>>

RequestStep(r) ==
  \/ Verified(r) \/ Denied(r) \/ Unchecked(r) \/ CliSends(r)
  \/ AnswersAtOnce(r) \/ Creates(r) \/ Deletes(r) \/ DeleteRefused(r)
  \/ RotateDeletes(r) \/ RotateCreates(r) \/ AnswersDone(r) \/ AnswersError(r)

AdminNext ==
  \/ \E r \in Reqs : RequestStep(r)
  \/ \E t \in Tasks : PersistStep(t)
  \/ Bootstraps \/ BootEnds \/ Crashes \/ Expires

AdminSpec == AdminInit /\ [][AdminNext]_adminVars

-----------------------------------------------------------------------------
(* Properties *)

Infos == [id : 1 .. MaxTokens, role : {"root", "admin"}]

(* A task has something to persist, or is not in a handler's change yet. *)
Changing == {"persist", "open", "write", "rename", "persisted", "failed"}
BeforeHandler == {"idle", "denied", "handler"}

TaskStates ==
  [pc : Changing \cup BeforeHandler, op : Ops \cup {"boot", None},
   token : Secrets \cup {None}, info : Infos \cup {None},
   fresh : 1 .. MaxTokens \cup {None}, gone : SUBSET (1 .. MaxTokens),
   snap : SUBSET Records, fd : {"tmp", "file", "lost", None}, alone : BOOLEAN]

(* The type of every variable. *)
AdminTypeOK ==
  /\ server \in {"down", "booting", "auth", "open"}
  /\ issued \in 0 .. MaxTokens /\ faults \in 0 .. MaxFaults
  /\ known \subseteq Secrets
  /\ tokens \subseteq Records /\ Ids(tokens) \subseteq 1 .. issued
  /\ file \in Files /\ tmp \in Files
  /\ task \in [Tasks -> TaskStates]
  /\ granted \subseteq 1 .. issued /\ revoked \subseteq 1 .. issued
  /\ overlapped \in BOOLEAN /\ failed \in BOOLEAN

(* What was answered holds in a list of records. *)
Answered(records) == granted \subseteq Ids(records) /\ revoked \cap Ids(records) = {}

(* "Persist tokens to file": what an administrator was answered holds on in  *)
(* the store, whatever else runs - a token handed out is there until         *)
(* somebody deletes it, a deleted one never comes back - and in the file the *)
(* next start reads, after a crash at any step, unless two persists have     *)
(* overlapped and none has run alone since.                                  *)
AnsweredSurvives ==
  /\ server = "auth" => Answered(tokens)
  /\ ~ overlapped => Loadable /\ Answered(OnFile)

(* "Persist tokens to file atomically": a crash at any step of a persist     *)
(* that runs alone, the bootstrap's own included, never leaves a file from   *)
(* which the next start ends up without auth.                                *)
AuthHolds == server = "open" => overlapped \/ failed

(* Not kept by the code - the same of persists that overlap: one renames the *)
(* temporary file that the other has just truncated or written across, the   *)
(* server is killed, and the next start runs without auth.                   *)
NeverOpen == server = "open" => failed

(* Not kept by the code - the file holds what the store holds whenever no    *)
(* request is under way.  Two persists may rename in the other order than    *)
(* they took their snapshots.                                                *)
FileIsCurrent ==
  (server = "auth" /\ \A t \in Tasks : task[t] = Idle) => Ids(OnFile) = Ids(tokens)

(* Not kept by the code - a store with a root has one that somebody knows:   *)
(* after a crash between persist and answer has_root keeps bootstrap from    *)
(* making another.                                                           *)
RootReachable ==
  (server = "auth" /\ \A t \in Tasks : task[t] = Idle) =>
    \E t \in Roots : t.secret \in known

(* Not kept by the code - "root token rotated - old token is now invalid":   *)
(* one root at a time.                                                       *)
OneRoot == Cardinality(Roots) =< 1
=============================================================================
