----------------------------- MODULE ConfigWatch -----------------------------
(***************************************************************************)
(* FileConfigWatcher of rinfra-plugins/src/config_watch/file_watcher.rs    *)
(* and its handlers: a task that polls the modification time of the file   *)
(* while somebody edits it.                                                *)
(***************************************************************************)
EXTENDS Integers, Sequences

CONSTANT MaxEdits     \* bound: edits of the file

VARIABLES
  disk,     \* the file: its modification time, which stands for its version, and
            \*   whether that is whole or half written
  watcher,  \* where the task is, last_mtime, the version it parsed, whom it
            \*   has still to tell, and the version at its first look
  told      \* the version each handler was last given

watchVars == <<disk, watcher, told>>

Handlers == {"log", "audit"}
Unread == 0

WatchInit ==
  /\ disk = [mtime |-> 1, whole |-> TRUE, edits |-> 0]
  /\ watcher = [at |-> "off", path |-> "", last |-> Unread, parsed |-> 0, left |-> << >>,
                handlers |-> << >>, since |-> 0]
  /\ told = [h \in Handlers |-> 1]

(* read_mtime: None when there is no such file. *)
Mtime == IF watcher.path = "" THEN Unread ELSE disk.mtime

(* An editor writes the file in two steps; each write has a later time, and   *)
(* what it leaves in the end is a configuration.                              *)
EditBegins ==
  /\ disk.whole /\ disk.edits < MaxEdits
  /\ disk' = [mtime |-> disk.mtime + 1, whole |-> FALSE, edits |-> disk.edits + 1]
  /\ UNCHANGED <<watcher, told>>

EditEnds ==
  /\ ~ disk.whole
  /\ disk' = [disk EXCEPT !.mtime = @ + 1, !.whole = TRUE]
  /\ UNCHANGED <<watcher, told>>

(* start, on the path of the configuration and with the handlers of the      *)
(* plugin's build.                                                           *)
WatchStarts(path, handlers) ==
  watcher' = [watcher EXCEPT !.at = "spawned", !.path = path, !.handlers = handlers]

(* The task's first poll. *)
FirstLook ==
  /\ watcher.at = "spawned"
  /\ watcher' = [watcher EXCEPT !.at = "sleeping", !.last = Mtime, !.since = Mtime]
  /\ UNCHANGED <<disk, told>>

PollSees ==
  /\ watcher.at = "sleeping" /\ Mtime # watcher.last
  /\ watcher' = [watcher EXCEPT !.at = "changed", !.last = Mtime]
  /\ UNCHANGED <<disk, told>>

(* parse_config reads the file anew, without the variables of the            *)
(* environment. A half-written one is an error, or, cut at the end of a line, *)
(* a configuration with defaults for what is missing.                        *)
ParseConfig ==
  /\ watcher.at = "changed"
  /\ \/ watcher' = [watcher EXCEPT !.at = "telling", !.parsed = disk.mtime,
                                    !.left = watcher.handlers]
     \/ ~ disk.whole /\ watcher' = [watcher EXCEPT !.at = "sleeping"]
  /\ UNCHANGED <<disk, told>>

OnReload ==
  /\ watcher.at = "telling" /\ watcher.left # << >>
  /\ told' = [told EXCEPT ![Head(watcher.left)] = watcher.parsed]
  /\ watcher' = [watcher EXCEPT !.left = Tail(@)]
  /\ UNCHANGED disk

(* Defect: the time is read again when the handlers are done. *)
ReloadEndsRereads ==
  /\ watcher.at = "telling" /\ watcher.left = << >>
  /\ watcher' = [watcher EXCEPT !.at = "sleeping", !.last = Mtime, !.parsed = 0]
  /\ UNCHANGED <<disk, told>>

ReloadEnds ==
  /\ watcher.at = "telling" /\ watcher.left = << >>
  /\ watcher' = [watcher EXCEPT !.at = "sleeping", !.parsed = 0]
  /\ UNCHANGED <<disk, told>>

WatcherStep == FirstLook \/ PollSees \/ ParseConfig \/ OnReload \/ ReloadEnds
WatchStep == EditBegins \/ EditEnds \/ WatcherStep

-----------------------------------------------------------------------------
(* Properties *)

Watching == watcher.path # "" /\ watcher.at # "off"
ToldAll(n) == \A i \in DOMAIN watcher.handlers : told[watcher.handlers[i]] = n

(* "Callback invoked when the configuration file changes": a version written  *)
(* to its end after the watcher's first look reaches every handler or is      *)
(* written over, although the time, the content and the handlers are looked   *)
(* at one after the other while the file is edited - and although the         *)
(* handlers may have been given a part of it before.                          *)
ReloadReaches ==
  \A n \in 2 .. (2 * MaxEdits + 1) :
    (Watching /\ watcher.at # "spawned" /\ disk.whole /\ disk.mtime = n /\ n > watcher.since)
      ~> (disk.mtime # n \/ ToldAll(n))

(* Whatever is edited between a poll, the parse and the calls: a handler is   *)
(* never taken back to an older version of the file.                          *)
NeverOlder == [][\A h \in Handlers : told'[h] >= told[h]]_watchVars

(* Not kept by the code - "config reloaded successfully": a handler is given  *)
(* the file only when it is written to its end, as it is at odd times.        *)
NeverTorn == [][\A h \in Handlers : told'[h] # told[h] => told'[h] % 2 = 1]_watchVars
=============================================================================
