---------------------------- MODULE ScriptWorker ----------------------------
(***************************************************************************)
(* PythonEngine and JsEngine over ScriptWorker                             *)
(* (rinfra-plugins/src/script): calls share one interpreter process that   *)
(* answers one line on stdout for each line on stdin, where others may     *)
(* write too.  A request and its answer are the call they belong to; the   *)
(* lines themselves carry no id.                                           *)
(***************************************************************************)
EXTENDS Integers, Sequences, FiniteSets, SequencesExt

CONSTANTS
  Calls,      \* execute, by tasks that share the engine
  MaxDeaths,  \* bound: deaths of the process
  MaxStrays,  \* bound: lines and texts on its stdout that are no answer of it
  NoCall,
  Invalid,    \* a line that is no request, and the "invalid request" it is answered by
  Stray,      \* a line of somebody else on stdout that parses as JSON
  Noise       \* a line on stdout that does not

ASSUME ScriptAssumption ==
  /\ {NoCall, Invalid, Stray, Noise} \cap Calls = {}
  /\ Cardinality({NoCall, Invalid, Stray, Noise}) = 4

VARIABLES
  holder,     \* the call that holds the engine's mutex
  worker,     \* what is in it: the process, its pipes, whether the last line on
              \*   stdin is cut and (history) by how many answers they are behind
  exec,       \* each call: where it is, the output it got and (history) by how
              \*   many answers the pipes were behind when it did
  deaths,
  strays

scriptVars == <<holder, worker, exec, deaths, strays>>

(* None, and a process that has ended: the next call spawns another one. *)
NoWorker == [alive |-> FALSE, stdin |-> << >>, stdout |-> << >>, cut |-> FALSE, lag |-> 0]
NotExecuting == [pc |-> "none", got |-> NoCall, lag |-> 0]

ScriptInit ==
  /\ holder = NoCall /\ worker = NoWorker /\ deaths = 0 /\ strays = 0
  /\ exec = [c \in Calls |-> NotExecuting]

Reading(c) == exec[c].pc = "reading"

(* execute returns an error and *guard = None drops the process. *)
Discards(c) ==
  /\ worker' = NoWorker /\ holder' = NoCall
  /\ exec' = [exec EXCEPT ![c].pc = "failed"]
  /\ UNCHANGED <<deaths, strays>>

-----------------------------------------------------------------------------
(* The engine is disabled, or the script is empty. *)
ExecuteRefused(c) ==
  /\ exec[c].pc = "none"
  /\ exec' = [exec EXCEPT ![c].pc = "failed"]
  /\ UNCHANGED <<holder, worker, deaths, strays>>

Locks(c) ==
  /\ exec[c].pc = "none" /\ holder = NoCall
  /\ holder' = c
  /\ exec' = [exec EXCEPT ![c].pc = IF worker.alive THEN "writing" ELSE "spawning"]
  /\ UNCHANGED <<worker, deaths, strays>>

Spawns(c) ==
  /\ exec[c].pc = "spawning"
  /\ worker' = [NoWorker EXCEPT !.alive = TRUE]
  /\ exec' = [exec EXCEPT ![c].pc = "writing"]
  /\ UNCHANGED <<holder, deaths, strays>>

SpawnFails(c) ==
  /\ exec[c].pc = "spawning"
  /\ exec' = [exec EXCEPT ![c].pc = "failed"]
  /\ holder' = NoCall
  /\ UNCHANGED <<worker, deaths, strays>>

(* The line of c as it arrives: at the end of a cut one it is no request. *)
Sent(c) == [worker EXCEPT !.stdin = Append(@, IF worker.cut THEN Invalid ELSE c),
                          !.cut = FALSE]

WritesRequest(c) ==
  /\ exec[c].pc = "writing" /\ worker.alive
  /\ worker' = Sent(c)
  /\ exec' = [exec EXCEPT ![c].pc = "reading"]
  /\ UNCHANGED <<holder, deaths, strays>>

WriteFails(c) == exec[c].pc = "writing" /\ ~ worker.alive /\ Discards(c)

(* parse_worker_response takes any JSON for an answer. *)
ReadsAnswer(c) ==
  /\ Reading(c) /\ worker.stdout # << >> /\ Head(worker.stdout) # Noise
  /\ exec' = [exec EXCEPT ![c] = [pc |-> "done", got |-> Head(worker.stdout),
                                  lag |-> worker.lag]]
  /\ worker' = [worker EXCEPT !.stdout = Tail(@)]
  /\ holder' = NoCall
  /\ UNCHANGED <<deaths, strays>>

ReadsNoise(c) ==
  Reading(c) /\ worker.stdout # << >> /\ Head(worker.stdout) = Noise /\ Discards(c)

ReadsEof(c) == Reading(c) /\ ~ worker.alive /\ worker.stdout = << >> /\ Discards(c)

(* Defect: the process is not replaced after a timeout. *)
ScriptTimesOutKeeps(c) ==
  /\ Reading(c)
  /\ exec' = [exec EXCEPT ![c].pc = "failed"]
  /\ holder' = NoCall
  /\ UNCHANGED <<worker, deaths, strays>>

(* timeout_secs have passed: child.kill(). *)
ScriptTimesOut(c) == Reading(c) /\ Discards(c)

(* What the future leaves of a line it was writing: in the BufWriter, whence  *)
(* it goes out with the next flush; or, when it is too long for that, a part  *)
(* in the pipe, or nothing.                                                   *)
LineLeft(c) ==
  \/ worker' = [Sent(c) EXCEPT !.lag = @ + 1]
  \/ worker' = [worker EXCEPT !.cut = TRUE]
  \/ UNCHANGED worker

(* What it leaves of a line it was reading: the answer, or its second part.   *)
AnswerLeft ==
  \/ worker' = [worker EXCEPT !.lag = @ + 1]
  \/ /\ worker.stdout # << >>
     /\ worker' = [worker EXCEPT !.lag = @ + 1, !.stdout[1] = Noise]

(* The future of execute is dropped at an await: the mutex is free again and  *)
(* the process stays in it.                                                   *)
ExecDropped(c) ==
  /\ exec' = [exec EXCEPT ![c] = NotExecuting]
  /\ holder' = IF holder = c THEN NoCall ELSE holder
  /\ \/ Reading(c) /\ AnswerLeft
     \/ exec[c].pc = "writing" /\ worker.alive /\ LineLeft(c)
     \/ ~ Reading(c) /\ ~ (exec[c].pc = "writing" /\ worker.alive) /\ UNCHANGED worker

-----------------------------------------------------------------------------
(* python_worker.py, node_worker.js *)

(* Node takes up a line while the script of an earlier one awaits: when       *)
(* several are there it may answer a later one first.                         *)
WorkerAnswers ==
  /\ worker.alive
  /\ \E i \in DOMAIN worker.stdin :
       worker' = [worker EXCEPT !.stdin = RemoveAt(@, i),
                                !.stdout = Append(@, worker.stdin[i])]
  /\ UNCHANGED <<holder, exec, deaths, strays>>

(* A callback that outlives its script, or a process that a script started,   *)
(* writes a line to stdout.                                                   *)
StrayLine ==
  /\ strays < MaxStrays /\ strays' = strays + 1
  /\ worker.alive \/ \E c \in Calls : Reading(c)
  /\ \E line \in {Stray, Noise} :
       worker' = [worker EXCEPT !.stdout = Append(@, line), !.lag = @ + 1]
  /\ UNCHANGED <<holder, exec, deaths>>

(* Or a text without an end of line, which the next answer ends. *)
StrayText ==
  /\ strays < MaxStrays /\ strays' = strays + 1
  /\ worker.alive /\ worker.stdin # << >>
  /\ worker' = [worker EXCEPT !.stdin = Tail(@), !.stdout = Append(@, Noise)]
  /\ UNCHANGED <<holder, exec, deaths>>

(* A script ends the process, or the system does; what it wrote can be read. *)
WorkerDies ==
  /\ worker.alive /\ deaths < MaxDeaths
  /\ worker' = [worker EXCEPT !.alive = FALSE, !.stdin = << >>]
  /\ deaths' = deaths + 1
  /\ UNCHANGED <<holder, exec, strays>>

ExecStep(c) ==
  \/ ExecuteRefused(c) \/ Locks(c) \/ Spawns(c) \/ SpawnFails(c) \/ WritesRequest(c)
  \/ WriteFails(c) \/ ReadsAnswer(c) \/ ReadsNoise(c) \/ ReadsEof(c)
  \/ ScriptTimesOut(c)

WorkerStep == WorkerAnswers \/ StrayLine \/ StrayText \/ WorkerDies

-----------------------------------------------------------------------------
(* Properties *)

(* "accepts script-execution requests via a line-delimited JSON protocol":   *)
(* only calls that were dropped and lines that are no answers put the pipes   *)
(* behind - not calls that timed out, failed to write, met noise or the end  *)
(* of the process - and a call that finds them in step gets the answer to    *)
(* its own line, or hears that it was joined to a line cut before it.        *)
OutputsMatched ==
  /\ worker.alive =>
       Len(worker.stdin) + Len(worker.stdout) =
         worker.lag + (IF \E c \in Calls : Reading(c) THEN 1 ELSE 0)
  /\ \A c \in Calls : exec[c].got \in {NoCall, c, Invalid} \/ exec[c].lag > 0

(* Not kept by the code - "Send a script to the worker and wait for the      *)
(* result": a call gets the output of its own script.                        *)
OutputIsMine == \A c \in Calls : exec[c].got \in {NoCall, c}
=============================================================================
