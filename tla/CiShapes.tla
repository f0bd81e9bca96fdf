------------------------------ MODULE CiShapes ------------------------------
(***************************************************************************)
(* The workflows that the program's own property tests generate            *)
(* (src/workflow/ci_shapes.rs): other jobs and a gate, which is to fail    *)
(* when any of them does, each with the truth about it.  The truth is told *)
(* from the choices the shape is made of, never from the workflow file.    *)
(***************************************************************************)
EXTENDS WorkflowRules

Branch      == <<"m">>           (* main                                   *)
OtherBranch == <<"d">>           (* dev                                    *)
Patterns    == <<<<"m">>, <<"d">>, <<"*", "*">>, <<"r", "/", "*">>>>
OtherJobs   == <<"build", "test", "lint">>
Types       == <<"opened", "synchronize", "reopened", "labeled", "closed">>

MatchesBranch == {<<"m">>, <<"*", "*">>}

(* `absent` and `target`: no pull_request trigger.  `types` is {} when all *)
(* default types are left.                                                 *)
AnyPull == [form |-> "filtered", key |-> "none", patterns |-> {},
            paths |-> FALSE, ignore |-> FALSE, types |-> {}]
Pulls ==
  {[AnyPull EXCEPT !.form = f] : f \in {"absent", "string", "list", "target"}}
  \cup {[form |-> "filtered", key |-> filter.key, patterns |-> filter.patterns, paths |-> p,
         ignore |-> i, types |-> ts] :
          filter \in [key : {"none"}, patterns : {{}}]
                     \cup [key : {"branches", "branches-ignore"},
                           patterns : (SUBSET Range(Patterns)) \ {{}}],
          p \in BOOLEAN, i \in BOOLEAN, ts \in SUBSET Range(Types)}

NeedsContexts ==
  [absent |-> FALSE, without |-> FALSE, whole |-> TRUE, lower |-> TRUE,
   empty |-> FALSE, part |-> FALSE]

(* What the generator makes (ci_shape); the gate needs none but the others. *)
CiShape ==
  [others : SUBSET Range(OtherJobs), needs : SUBSET Range(OtherJobs),
   key : {Aggregator, "gate"}, name : {"absent", "aggregator", "other", "expression"},
   matrix : BOOLEAN, step : DOMAIN NeedsContexts, pull : Pulls,
   condition : AlwaysTexts \cup {"absent", "true", "${{ success() }}"}]

-----------------------------------------------------------------------------
(* The truth                                                               *)

RunsForEveryPull(shape) ==
  LET pull == shape.pull
      matches == pull.patterns \cap MatchesBranch # {}
  IN  \/ pull.form \in {"string", "list"}
      \/ /\ pull.form = "filtered" /\ ~pull.paths /\ ~pull.ignore
         /\ CASE pull.key = "none" -> TRUE [] pull.key = "branches" -> matches
              [] pull.key = "branches-ignore" -> ~matches
         /\ pull.types = {} \/ {"opened", "synchronize", "reopened"} \subseteq pull.types

ReportedName(shape) ==
  IF shape.matrix \/ shape.name = "expression" THEN "varies"
  ELSE CASE shape.name = "absent" -> shape.key
         [] shape.name = "aggregator" -> Aggregator
         [] shape.name = "other" -> "Required checks"

ReportsAlways(shape) == RunsForEveryPull(shape) /\ ReportedName(shape) = Aggregator

Enforcing(shape) ==
  /\ ReportsAlways(shape)
  /\ shape.condition \in AlwaysTexts
  /\ NeedsContexts[shape.step]
  /\ shape.needs = shape.others

-----------------------------------------------------------------------------
(* The workflow file: CiShape::yaml                                        *)

(* Some of a list, in its order.                                           *)
KeptAt(S, all, k, from) ==
  IF k > Len(all) THEN <<>>
  ELSE IF all[k] \in S THEN <<Str(all[k])>> \o from[k + 1] ELSE from[k + 1]

KeptFrom(S, all) == LET from[k \in 1..Len(all) + 1] == KeptAt(S, all, k, from) IN from

List(S, all) == Seqn(KeptFrom(S, all)[1])
One(text)    == Seqn(<<Str(text)>>)

PullMap(pull) ==
  LET has(key) ==
        CASE key = "paths" -> pull.paths [] key = "paths-ignore" -> pull.ignore
          [] key = "types" -> pull.types # {} [] OTHER -> key = pull.key
  IN  [key \in {key \in FilterKeys : has(key)} |->
         CASE key = "paths" -> One(<<"s">>) [] key = "paths-ignore" -> One(<<"t">>)
           [] key = "types" -> List(pull.types, Types) [] OTHER -> List(pull.patterns, Patterns)]

OnOf(pull) ==
  LET main   == Mapn([branches |-> One(<<"m">>)])
      filter == IF DOMAIN PullMap(pull) = {} THEN Null ELSE Mapn(PullMap(pull))
  IN  CASE pull.form = "absent"   -> Mapn([push |-> main])
        [] pull.form = "string"   -> Str("pull_request")
        [] pull.form = "list"     -> Seqn(<<Str("push"), Str("pull_request")>>)
        [] pull.form = "target"   -> Mapn([pull_request_target |-> main])
        [] pull.form = "filtered" -> Mapn([push |-> main, pull_request |-> filter])

GateStep(step) ==
  LET uses  == Ref(GateAction, {"sha"})
      texts == [whole |-> "${{ toJSON(needs) }}", lower |-> "${{ tojson(needs) }}",
                empty |-> "{}", part |-> "${{ toJSON(needs.build) }}"]
  IN  CASE step = "absent"  -> [run |-> Str("echo done")]
        [] step = "without" -> [uses |-> uses]
        [] OTHER -> [uses |-> uses,
                     with |-> Mapn([i \in {"needs-context"} |-> Str(texts[step])])]

GateMap(shape) ==
  LET names == [aggregator |-> Aggregator, other |-> "Required checks",
                expression |-> "${{ github.workflow }} gate"]
      has(key) ==
        CASE key = "name" -> shape.name # "absent" [] key = "strategy" -> shape.matrix
          [] key = "needs" -> shape.needs # {} [] key = "if" -> shape.condition # "absent"
          [] OTHER -> TRUE
  IN  [key \in {key \in {"runs-on", "steps", "name", "strategy", "needs", "if"} : has(key)} |->
         CASE key = "runs-on" -> Str("ubuntu-latest")
           [] key = "steps" -> Seqn(<<Mapn(GateStep(shape.step))>>)
           [] key = "name" -> Str(names[shape.name])
           [] key = "strategy" -> Mapn([matrix |-> Null])
           [] key = "needs" -> List(shape.needs, OtherJobs)
           [] key = "if" -> IF shape.condition = "true" THEN [kind |-> "bool", text |-> "true"]
                            ELSE Str(shape.condition)]

ScriptMap ==
  [key \in {"runs-on", "steps"} |->
     IF key = "steps" THEN Seqn(<<Mapn([run |-> Str("echo")])>>) ELSE Str("ubuntu-latest")]

DocOf(shape) ==
  [on |-> OnOf(shape.pull),
   jobs |-> [j \in shape.others \cup {shape.key} |->
               IF j = shape.key THEN GateMap(shape) ELSE ScriptMap]]

FactsOf(shape) ==
  LET doc == DocOf(shape)
  IN  [branch |-> Branch,
       files |-> {[workflow |-> WorkflowOf(doc), doc |-> doc,
                   texts |-> {}, readable |-> TRUE]}]
=============================================================================
