--------------------------- MODULE WorkflowModel ----------------------------
(***************************************************************************)
(* How a workflow file becomes the value that the rules look at            *)
(* (src/workflow/model.rs).  A YAML value has a `kind`: null, str, bool,   *)
(* int, float and "huge" (an integer beyond 64 bits) are scalars with a    *)
(* `text`, a seq has `items`, a map is a function `map` from keys to       *)
(* values, and an action reference is a ref: its path, split at slashes,   *)
(* and what follows its first `@`.  What an Option holds is a set of at    *)
(* most one element.  Each Parses.. says whether deserialisation succeeds, *)
(* the operator next to it what it yields.                                 *)
(***************************************************************************)
EXTENDS Sequences, Integers

CONSTANTS
  NoText,           (* no name, no condition                               *)
  ExpressionTexts   (* the texts that contain `${{`                        *)

Null      == [kind |-> "null"]
Str(text) == [kind |-> "str", text |-> text]
Seqn(items) == [kind |-> "seq", items |-> items]
Mapn(map)   == [kind |-> "map", map |-> map]

(* A missing key reads as null does.                                       *)
Key(map, key) == IF key \in DOMAIN map THEN map[key] ELSE Null

(* WithValue: inputs of actions, names and conditions may be any scalar.   *)
ParsesAsScalar(v) == v.kind \in {"null", "str", "bool", "int", "float"}
TextOf(v)         == IF v.kind = "null" THEN NoText ELSE v.text

(* deserialize_string_or_vec                                               *)
ParsesAsTexts(v) ==
  \/ v.kind \in {"null", "str"}
  \/ v.kind = "seq" /\ \A n \in DOMAIN v.items : v.items[n].kind = "str"
TextsOf(v) ==
  CASE v.kind = "null" -> <<>>
    [] v.kind = "str"  -> <<v.text>>
    [] v.kind = "seq"  -> [n \in DOMAIN v.items |-> v.items[n].text]

FilterKeys == {"branches", "branches-ignore", "tags", "tags-ignore", "paths",
          "paths-ignore", "types"}

-----------------------------------------------------------------------------
(* Triggers                                                                *)

Events == {"push", "pull_request", "pull_request_target", "workflow_run",
           "workflow_dispatch"}

Filtered == {"push", "pull_request", "pull_request_target"}

FilterOf(v) ==
  [i \in FilterKeys |-> IF v.kind = "map" THEN TextsOf(Key(v.map, i)) ELSE <<>>]

(* parse_optional_default: an event without a value has the default filter. *)
ParsesAsEvent(event, v) ==
  \/ v.kind = "null"
  \/ /\ v.kind = "map"
     /\ event \in Filtered => \A i \in FilterKeys : ParsesAsTexts(Key(v.map, i))

ParsesAsTriggers(on) ==
  \/ on.kind = "str"
  \/ on.kind = "seq" /\ \A n \in DOMAIN on.items : on.items[n].kind = "str"
  \/ on.kind = "map" /\ \A e \in Events \cap DOMAIN on.map : ParsesAsEvent(e, on.map[e])

(* Triggers::from_yaml_value: the events that trigger, with their filters.  *)
TriggersOf(on) ==
  CASE on.kind = "str" -> [e \in Events \cap {on.text} |-> FilterOf(Null)]
    [] on.kind = "seq" ->
         [e \in {e \in Events : \E n \in DOMAIN on.items : on.items[n].text = e}
            |-> FilterOf(Null)]
    [] on.kind = "map" -> [e \in Events \cap DOMAIN on.map |-> FilterOf(on.map[e])]

-----------------------------------------------------------------------------
(* Action references: everything is one, owner/repo@version or else a text. *)

Ref(path, at) == [kind |-> "ref", path |-> path, at |-> at]

IsRepository(ref) ==
  /\ Len(ref.path) = 2
  /\ \A n \in 1..2 : ref.path[n] # ""
  /\ ref.at # {} /\ ref.at # {""}

-----------------------------------------------------------------------------
(* Steps and jobs                                                          *)

Has(map, key) == Key(map, key).kind # "null"
With(map)     == IF Has(map, "with") THEN Key(map, "with").map ELSE <<>>

ParsesInputs(map) ==
  /\ Key(map, "with").kind \in {"null", "map"}
  /\ \A i \in DOMAIN With(map) : ParsesAsScalar(With(map)[i])

ParsesUses(map) == Key(map, "uses").kind \in {"null", "ref"}

(* Step: an action or a script, and inputs only for an action.             *)
ParsesAsStep(map) ==
  /\ \A k \in {"name", "if"} : ParsesAsScalar(Key(map, k))
  /\ ParsesUses(map) /\ ParsesInputs(map)
  /\ Key(map, "run").kind \in {"null", "str"}
  /\ Has(map, "uses") # Has(map, "run")
  /\ Has(map, "run") => DOMAIN With(map) = {}

StepOf(map) ==
  [uses |-> IF Has(map, "uses") THEN {map["uses"]} ELSE {},
   run  |-> IF Has(map, "run") THEN {map["run"].text} ELSE {},
   with |-> With(map)]

RawSteps(map) == IF Has(map, "steps") THEN Key(map, "steps").items ELSE <<>>

ParsesRunsOn(v) ==
  \/ v.kind \in {"null", "str"}
  \/ v.kind = "seq" /\ ParsesAsTexts(v)
  \/ v.kind = "map" /\ ParsesAsTexts(Key(v.map, "labels"))

(* RawJob, then Job::try_from: `uses` alone decides that a job calls a      *)
(* reusable workflow, and excludes what other jobs have.                   *)
ParsesAsJob(map) ==
  /\ \A k \in {"name", "if"} : ParsesAsScalar(Key(map, k))
  /\ ParsesAsTexts(Key(map, "needs"))
  /\ ParsesUses(map) /\ ParsesInputs(map)
  /\ ParsesRunsOn(Key(map, "runs-on"))
  /\ Key(map, "steps").kind \in {"null", "seq"}
  /\ \A n \in DOMAIN RawSteps(map) : ParsesAsStep(RawSteps(map)[n].map)
  /\ IF Has(map, "uses") THEN ~Has(map, "runs-on") /\ RawSteps(map) = <<>>
                         ELSE DOMAIN With(map) = {}

(* Mutant: what does not parse as a call of a workflow is an ordinary job. *)
JobOfWhicheverFits(map) ==
  LET call == Has(map, "uses") /\ \A i \in DOMAIN With(map) : With(map)[i].kind # "float"
  IN  [name |-> TextOf(Key(map, "name")), condition |-> TextOf(Key(map, "if")),
       needs |-> TextsOf(Key(map, "needs")), strategy |-> Key(map, "strategy"),
       uses |-> IF call THEN {map["uses"]} ELSE {},
       steps |-> [n \in DOMAIN RawSteps(map) |-> StepOf(RawSteps(map)[n].map)]]

JobOf(map) ==
  [name |-> TextOf(Key(map, "name")), condition |-> TextOf(Key(map, "if")),
   needs |-> TextsOf(Key(map, "needs")), strategy |-> Key(map, "strategy"),
   uses |-> IF Has(map, "uses") THEN {map["uses"]} ELSE {},
   steps |-> [n \in DOMAIN RawSteps(map) |-> StepOf(RawSteps(map)[n].map)]]

(* A strategy of an unknown shape counts as a matrix.                      *)
HasMatrix(job) ==
  CASE job.strategy.kind = "null" -> FALSE
    [] job.strategy.kind = "map"  -> "matrix" \in DOMAIN job.strategy.map
    [] OTHER -> TRUE

(* Job::status_check_name, when it is one fixed text                       *)
CheckName(key, job) ==
  IF HasMatrix(job) \/ job.uses # {} \/ job.name \in ExpressionTexts
    THEN {} ELSE {IF job.name = NoText THEN key ELSE job.name}

-----------------------------------------------------------------------------
(* Whole workflows                                                         *)

ParsesAsWorkflow(doc) ==
  /\ "on" \in DOMAIN doc => ParsesAsTriggers(doc["on"])
  /\ \A j \in DOMAIN doc["jobs"] : ParsesAsJob(doc["jobs"][j])

WorkflowOf(doc) ==
  [triggers |-> IF "on" \in DOMAIN doc THEN TriggersOf(doc["on"]) ELSE <<>>,
   jobs |-> [j \in DOMAIN doc["jobs"] |-> JobOf(doc["jobs"][j])]]

(* Everything that the jobs of a workflow use, as rules see it ...          *)
UsesOf(workflow) ==
  UNION {workflow.jobs[j].uses
           \cup UNION {workflow.jobs[j].steps[n].uses :
                         n \in DOMAIN workflow.jobs[j].steps} :
           j \in DOMAIN workflow.jobs}

(* ... and as the file has it.                                             *)
UsesIn(doc) ==
  UNION {LET maps == {doc["jobs"][j]} \cup
                      {RawSteps(doc["jobs"][j])[n].map : n \in DOMAIN RawSteps(doc["jobs"][j])}
         IN  {m["uses"] : m \in {m \in maps : Has(m, "uses")}} : j \in DOMAIN doc["jobs"]}
=============================================================================
