----------------------------- MODULE ConfigLoad -----------------------------
(***************************************************************************)
(* Where the configuration comes from: ApplicationBuilder::build in        *)
(* rinfra-plugins/src/runtime/mod.rs and load_config of the CLI, with      *)
(* load_with_env, apply_env_overrides, merge_env_into_value, set_nested    *)
(* and parse_env_value of rinfra-plugins/src/config/mod.rs.                *)
(*                                                                         *)
(* A JSON tree is a function from the paths of its nodes to their values;  *)
(* the root is << >>.                                                      *)
(***************************************************************************)
EXTENDS ConfigModel

CONSTANTS
  Files,    \* the trees a configuration file may hold
  Envs      \* the sets of RINFRA_ variables: [path, raw]; names that differ in
            \*   case have the same path

VARIABLES
  source,   \* "given" to the builder, "file", or "defaults" (no file there)
  load,     \* "start", "merging", "loaded", "failed", "used"
  file,     \* the tree in the file
  asked,    \* the variables of the environment
  unmerged, \*   and those merge_env_into_value has not come to
  tree,     \* the value being merged
  config    \* what build works with

loadVars == <<source, load, file, asked, unmerged, tree, config>>

NoTree == [p \in {} |-> Null]

LoadInit ==
  /\ source \in {"file", "defaults"}
  /\ load = "start"
  /\ file \in IF source = "file" THEN Files ELSE {NoTree}
  /\ asked \in Envs /\ unmerged = asked
  /\ tree = NoTree /\ config = NoTree

-----------------------------------------------------------------------------
Above(path) == {SubSeq(path, 1, n) : n \in 0 .. (Len(path) - 1)}
Below(path, t) == {q \in DOMAIN t : path \in Above(q)}

ASSUME EnvsAssumption == \A env \in Envs : \A v \in env : v.path \in Seq(STRING)

(* "Priority: bool > u64 > f64 > string", in any case of letters. *)
ParseEnvValue(raw) ==
  CASE raw \in {"true", "TRUE"} -> Bool("true")
    [] raw \in {"false", "False"} -> Bool("false")
    [] raw \in {"0", "7", "4294967296"} -> Num(raw)
    [] raw \in {"0.5", "-1"} -> Real(raw)
    [] OTHER -> Str(raw)

(* Defect: the child on the way is a new object, whatever was there. *)
SetNestedAnew(t, path, raw) ==
  IF t[<< >>] # Obj THEN t
  ELSE [q \in {n \in DOMAIN t : Len(n) = 0 \/ n[1] # path[1]} \cup Above(path) \cup {path} |->
          IF q = path THEN ParseEnvValue(raw)
          ELSE IF q \in Above(path) THEN Obj ELSE t[q]]

(* The leaf replaces the node that is there and all below it; objects on the *)
(* way are made where none is, and anything else on the way ends the walk.   *)
SetNested(t, path, raw) ==
  IF \E q \in Above(path) \cap DOMAIN t : t[q] # Obj THEN t
  ELSE [q \in (DOMAIN t \ Below(path, t)) \cup Above(path) \cup {path} |->
          IF q = path THEN ParseEnvValue(raw)
          ELSE IF q \in DOMAIN t THEN t[q] ELSE Obj]

(* serde_json::to_value of a configuration. *)
ToValue(c) ==
  [q \in DOMAIN c \cup UNION {Above(p) : p \in DOMAIN c} |->
     IF q \in DOMAIN c THEN c[q] ELSE Obj]

(* What the schema is like: no leaf lies above another, every default is a   *)
(* value of its type, only business takes an object, and what a listener of  *)
(* the list adds lies below the list.                                        *)
Leaves == DOMAIN RinfraConfig
ASSUME SchemaAssumption ==
  /\ Leaves \subseteq Seq(STRING) /\ Listeners \in Leaves
  /\ \A p \in Leaves : Above(p) \cap Leaves = {}
  /\ \A p \in Leaves : LET leaf == RinfraConfig[p]
                       IN  /\ Fits(leaf.type, leaf.default) /\ leaf.default \notin {Obj, Required}
                           /\ p # <<"business">> => ~ Fits(leaf.type, Obj)
  /\ {<< >>} = DOMAIN ToValue(Default) \cap {<< >>, Item}
  /\ \A p \in {Item} \cup ListenerLeaves : Listeners \in Above(p)

(* serde_json::from_value: structs are objects, fields have their types, and *)
(* a field without a default is there; the leaves for which this fails.      *)
Misfits(t) ==
  LET schema == Schema(t)
      Container(q) == t[q] = Obj \/ (q = Listeners /\ t[q][1] = "array")
  IN  {p \in DOMAIN schema :
         \/ \E q \in Above(p) \cap DOMAIN t : ~ Container(q)
         \/ p \in DOMAIN t /\ ~ Fits(schema[p].type, t[p])
         \/ p \notin DOMAIN t /\ schema[p].default = Required}

Readable(t) == << >> \in DOMAIN t /\ Misfits(t) = {}

FromValue(t) ==
  [p \in DOMAIN Schema(t) |-> IF p \in DOMAIN t THEN t[p] ELSE Schema(t)[p].default]

-----------------------------------------------------------------------------
(* load_with_env: the file is read and parsed as YAML. *)
ReadsFile ==
  /\ load = "start" /\ source = "file"
  /\ tree' = file /\ load' = "merging"
  /\ UNCHANGED <<source, file, asked, unmerged, config>>

(* It was removed since build saw it, or is no YAML. *)
ReadFails ==
  /\ load = "start" /\ source = "file"
  /\ load' = "failed"
  /\ UNCHANGED <<source, file, asked, unmerged, tree, config>>

(* apply_env_overrides on RinfraConfig::default(). *)
UsesDefaults ==
  /\ load = "start" /\ source = "defaults"
  /\ tree' = ToValue(Default) /\ load' = "merging"
  /\ UNCHANGED <<source, file, asked, unmerged, config>>

(* std::env::vars has no order. *)
Merges(v) ==
  /\ load = "merging" /\ v \in unmerged
  /\ tree' = SetNested(tree, v.path, v.raw)
  /\ unmerged' = unmerged \ {v}
  /\ UNCHANGED <<source, load, file, asked, config>>

Deserializes ==
  /\ load = "merging" /\ unmerged = {} /\ Readable(tree)
  /\ config' = FromValue(tree) /\ load' = "loaded" /\ tree' = NoTree
  /\ UNCHANGED <<source, file, asked, unmerged>>

(* "env overrides produced invalid config, keeping original"; from a file it *)
(* is an error.                                                              *)
DeserializeFails ==
  /\ load = "merging" /\ unmerged = {} /\ ~ Readable(tree)
  /\ IF source = "defaults" THEN config' = Default /\ load' = "loaded"
                            ELSE load' = "failed" /\ UNCHANGED config
  /\ tree' = NoTree
  /\ UNCHANGED <<source, file, asked, unmerged>>

LoadStep ==
  \/ ReadsFile \/ ReadFails \/ UsesDefaults \/ (\E v \in asked : Merges(v))
  \/ Deserializes \/ DeserializeFails

-----------------------------------------------------------------------------
(* Properties *)

(* What an operator expects of a leaf. *)
Expected(p) ==
  IF \E v \in asked : v.path = p
    THEN {ParseEnvValue(v.raw) : v \in {u \in asked : u.path = p}}
  ELSE {IF p \in DOMAIN file THEN file[p] ELSE Schema(file)[p].default}

(* A variable whose value does not fit what is at its path. *)
IllTyped(v) ==
  \/ v.path \in DOMAIN RinfraConfig /\ ~ Fits(RinfraConfig[v.path].type, ParseEnvValue(v.raw))
  \/ \E p \in DOMAIN RinfraConfig : v.path \in Above(p)

(* "Load config from file, then apply env overrides": whatever the order in   *)
(* which the variables come, each leaf has the value of a variable of its     *)
(* path, else the file's, else its default; variables do not reach the list of *)
(* listeners, business has no leaves of its own, and without a file one       *)
(* variable that does not fit undoes all of them.                             *)
ConfigAsAsked ==
  load = "loaded" =>
    \/ \A p \in DOMAIN config \ {<<"business">>} :
         Listeners \notin Above(p) => config[p] \in Expected(p)
    \/ source = "defaults" /\ config = Default /\ \E v \in asked : IllTyped(v)

(* Not kept by the code - "Supports arbitrary nesting depth": without a file   *)
(* business is null, and a variable below it is counted and ignored.           *)
BusinessReachable ==
  load = "loaded" =>
    \A v \in asked : <<"business">> \in Above(v.path) => config[<<"business">>] # Null
=============================================================================
