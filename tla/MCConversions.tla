---------------------------- MODULE MCConversions ---------------------------
(* Inputs for TLC: every short pattern, text and time, and enough of the   *)
(* others that each condition of a conversion decides on some of them.     *)
EXTENDS Conversions

Letters  == <<"!", "*", "+", "-", "/", "?", "[", "\\", "]", "a", "b", "c", "refs", "heads">>
Branches == BoundedSeq({"a", "b", "/"}, 3) \ {<<>>}

(* Patterns, and lists of filters                                          *)

PatternInput(p) == [about |-> "pattern", pattern |-> p]
Wildcards == {PatternInput(p) : p \in BoundedSeq({"a", "/", "*", "?", "+"}, 5)}
Classes == {PatternInput(p) : p \in BoundedSeq({"a", "b", "-", "[", "]", "!", "*", "+"}, 4)}
Members ==
  {PatternInput(<<"[">> \o p \o <<"]">>) : p \in BoundedSeq({"a", "b", "c", "-", "!", "\\"}, 4)}

FilterInputs ==
  {[about |-> "filters", filters |-> f] :
     f \in BoundedSeq({<<"a">>, <<"a", "*">>, <<"!", "a">>, <<"!", "*", "*">>, <<"a", "/", "*">>,
                       <<"*", "*">>, <<"!", "a", "/", "*">>}, 3)}

(* Workflows of one job                                                    *)

Action  == Ref(<<"a", "b">>, {"v1"})
Called  == Ref(<<"a", "b", "c">>, {"v1"})
Scalars == {Null, Str("x"), Seqn(<<>>), [kind |-> "bool", text |-> "true"],
            [kind |-> "float", text |-> "3.12"], [kind |-> "huge", text |-> "9"]}
Maybe(key, values) == {<<>>} \cup {key :> v : v \in values}
Inputted == Maybe("with", {Null} \cup {Mapn("i" :> v) : v \in Scalars})

StepMaps ==
  {u @@ r @@ w : u \in Maybe("uses", {Action, Null}), r \in Maybe("run", {Str("echo")}),
                 w \in Inputted}
Jobs ==
  {u @@ w @@ r @@ n @@ s :
     u \in Maybe("uses", {Called, Null}), w \in Inputted,
     r \in Maybe("runs-on", {Str("l"), Seqn(<<Str("l")>>), Mapn("labels" :> Str("l"))}),
     n \in Maybe("needs", {Str("j"), [kind |-> "bool", text |-> "true"]}),
     s \in Maybe("steps", {Seqn(<<>>)} \cup {Seqn(<<Mapn(m)>>) : m \in StepMaps})}

DocumentInputs ==
  {[about |-> "document", doc |-> "on" :> Str("push") @@ "jobs" :> ("j" :> j)] : j \in Jobs}

(* Facts with one workflow file, or two                                    *)

OtherTriggers ==
  {[e \in es |-> Null] :
     es \in {{}, {"pull_request"}, {"pull_request_target"}, {"pull_request", "workflow_run"}}}

OnPush(filters) == {Mapn(others @@ "push" :> filters) : others \in OtherTriggers}

BranchFilters ==
  Maybe("branches", {Str(<<"b">>), Str(<<"a">>), Seqn(<<Str(<<"*", "*">>), Str(<<"!", "a">>)>>)})
  \cup Maybe("branches-ignore", {Seqn(<<Str(<<"b">>)>>), Str(<<"a">>)})
PushFilters ==
  {Null} \cup {Mapn(b @@ t) : b \in BranchFilters,
                             t \in Maybe("tags", {Str(<<"v">>)}) \cup Maybe("tags-ignore", {Str(<<"v">>)})}

Ons ==
  UNION {OnPush(f) : f \in PushFilters}
  \cup {Str("push"), Str("pull_request_target"), Mapn("workflow_run" :> Null),
        Seqn(<<Str("push"), Str("pull_request_target")>>), Seqn(<<Str("workflow_run")>>)}

Call(secrets) == "uses" :> Called @@ "secrets" :> secrets
StepJob(use)  == "steps" :> Seqn(<<Mapn("run" :> Str("make")), Mapn("uses" :> use)>>)
FactJobs ==
  {Call(Str("inherit")), Call(Mapn("token" :> Str("x"))), StepJob(Action),
   StepJob(Ref(Checkout, {"v4"}))}

InExpression(t) == <<"open">> \o t \o <<"close">>
FactTexts == {{}, {InExpression(<<"secrets", "dot", "name">>)}, {<<"secrets", "dot", "name">>}}
OtherTexts ==
  {{InExpression(t)} :
     t \in {<<"SECRETS", "dot", "name">>, <<"secrets", "dot", "star">>, <<"secrets", "dot", "secrets">>,
            <<"name", "dash", "secrets">>, <<"secrets", "space", "dot", "name">>}}

FileOf(on, job, texts, readable) ==
  LET doc == "on" :> on @@ "jobs" :> ("j" :> job)
  IN  [workflow |-> WorkflowOf(doc), doc |-> doc, texts |-> texts, readable |-> readable]

FactsInput(files) == [about |-> "facts", facts |-> [branch |-> <<"a">>, files |-> files]]
Harmless ==
  {FileOf(on, StepJob(Action), {}, r) : on \in {Str("push"), Str("pull_request")}, r \in BOOLEAN}
FactsInputs ==
  {FactsInput({FileOf(on, job, texts, r)} \cup others) :
     on \in Ons, job \in FactJobs, texts \in FactTexts, r \in BOOLEAN,
     others \in {{}} \cup {{f} : f \in Harmless}}
  \cup {FactsInput({FileOf(on, StepJob(Action), texts, TRUE)}) :
          on \in OnPush(Null), texts \in OtherTexts}

Texts ==
  BoundedSeq(Tokens, 4)
  \cup {InExpression(t) : t \in BoundedSeq(Tokens \ {"open", "close"}, 4)}
  \cup BoundedSeq({"open", "close", "quote", "secrets", "mark"}, 6)
TextInputs == {[about |-> "text", text |-> t] : t \in Texts}

(* Files with uses of two actions of one repository, one of them at two    *)
(* versions, and of others that are pinned or cannot be                    *)

One   == Ref(<<"a", "b">>, {"v1"})
Below == Ref(<<"a", "b", "c">>, {"v1"})
Two   == Ref(<<"a", "b">>, {"v2"})
Other == {Ref(<<"a", "b">>, {"sha0"}), Ref(<<".", "b">>, {}), Ref(<<"a", "${{ x }}">>, {"v1"})}

ResolveTo == (One :> "sha1") @@ (Below :> "sha1") @@ (Two :> "sha2")

Lines ==
  {Line(f, r, c) : f \in {"block", "flow", "text"}, r \in {One, Below, Two}, c \in {"", "note"}}
  \cup {Line("block", r, "") : r \in Other}

File(lines, found, raw) == [lines |-> lines, found |-> found, raw |-> raw]
Few == BoundedSeq({l \in Lines : l.ref # Two}, 2)
Pair  == <<Line("block", Below, ""), Line("block", Two, "")>>

FileInput(f) ==
  [about |-> "files", resolve |-> ResolveTo, files |-> {f, File(Pair, Pair, TRUE)}]

Unchanged ==
  {FileInput(File(ls, ls, raw)) :
     ls \in [1..3 -> {l \in Lines : l.ref \notin Other \cup {Two}}], raw \in BOOLEAN}
Changed ==
  {FileInput(File(ls, now, TRUE)) :
     ls \in {s \in Few : \A n \in DOMAIN s : s[n].comment = ""}, now \in Few}

(* Protections                                                             *)

Contexts == {"c1", "c2"}
Main     == <<"a">>

Flagged(on) == [f \in Flags |-> IF f \in on THEN On ELSE None]
LegacyOf(on, checks, reviews, restrictions) ==
  [flags |-> Flagged(on), checks |-> checks, reviews |-> reviews, restrictions |-> restrictions]

LegacyChecks ==
  {None} \cup {{[strict |-> s, contexts |-> c, checks |-> d]} :
                 s \in BOOLEAN, c \in {{}, {"c1"}}, d \in {{}, {"c2"}}}
Reviews ==
  {None, {[count |-> 1, demands |-> {}, bypass |-> TRUE]}}
  \cup {{[count |-> n, demands |-> d, bypass |-> FALSE]} :
          n \in 0..2, d \in {{}, {"dismiss_stale"}, Demands}}

Legacies ==
  {LegacyOf(on, c, r, None) : on \in {{}, {"enforce_admins"}}, c \in LegacyChecks, r \in Reviews}
  \cup {LegacyOf(on, None, None, r) : on \in kSubset(1, Flags), r \in {None, {{}}, {{"team"}}}}
  \cup {LegacyOf(on, None, None, None) : on \in kSubset(2, Flags)}

Always == {[include |-> {<<"~DEFAULT_BRANCH">>}, exclude |-> {}]}
Guard(kinds, pull, checks) ==
  [target |-> "branch", active |-> TRUE, conditions |-> Always, kinds |-> kinds,
   pull |-> pull, checks |-> checks, bypass |-> {}]

Strongest ==
  Guard({"non_fast_forward", "deletion", "creation", "required_linear_history",
         "required_signatures"},
        {[count |-> 2, demands |-> Demands]}, {[strict |-> TRUE, contexts |-> Contexts]})

Pulls1 == {None} \cup {{[count |-> n, demands |-> d]} : n \in 0..2, d \in {{}, {"dismiss_stale"}}}
Checks1 == {None} \cup {{[strict |-> s, contexts |-> c]} : s \in BOOLEAN, c \in SUBSET Contexts}

Full(p) == Heads \o p
Conditions ==
  {None} \cup {{[include |-> i, exclude |-> e]} :
     i \in {{}, {<<"~ALL">>}, {Full(<<"a">>)}, {Full(<<"*">>)}},
     e \in {{}, {Full(<<"a">>)}, {Full(<<"b">>)}, {Full(<<"*", "*">>)}}}

(* Two rulesets that differ in what they ask, or the strongest one, that   *)
(* may not apply, may be bypassed, or lacks something.                     *)
RulesetsOf ==
  {{Guard({"non_fast_forward", "deletion"}, p, c), Guard({}, {[count |-> 1, demands |-> Demands]}, d)} :
     p \in Pulls1, c \in Checks1, d \in {None, {[strict |-> FALSE, contexts |-> {"c2"}]}}}
  \cup {{[Strongest EXCEPT !.conditions = c]} : c \in Conditions}
  \cup {{[Strongest EXCEPT !.bypass = b]} :
          b \in SUBSET {"OrganizationAdmin", "RepositoryRole", "Team", "new kind"}}
  \cup {{[Strongest EXCEPT !.kinds = @ \ {k}]} : k \in Strongest.kinds}
  \cup {{[Strongest EXCEPT !.pull = {}]}}
  \cup {{[Strongest EXCEPT !.pull = {[count |-> 2, demands |-> Demands \ {d}]}]} : d \in Demands}
  \cup {{[Strongest EXCEPT !.active = FALSE]}, {[Strongest EXCEPT !.target = "tag"]}, {}}

ProtectionInputs ==
  {[about |-> "protection", legacy |-> l, rulesets |-> r, branch |-> Main,
    contexts |-> Contexts] : l \in Legacies, r \in RulesetsOf}

(* Times and reports                                                       *)

Time(y, m, d, t) ==
  [about |-> "time", time |-> [year |-> y, month |-> m, day |-> d, hour |-> t[1],
                               minute |-> t[2], second |-> t[3]]]
TimeInputs ==
  {Time(y, m, d, <<23, 59, 59>>) :
     y \in {0, 1969, 1970, 1972, 1999, 2000, 2001, 2024, 2025, 2100}, m \in 0..13, d \in 0..32}
  \cup {Time(2025, 12, 31, <<h, m, s>>) : h \in {0, 23, 24}, m \in {0, 59, 60}, s \in {0, 59, 60}}

ReportInputs ==
  {[about |-> "reports", reports |-> rs] :
     rs \in BoundedSeq([repo : {"a", "b"}, results : BoundedSeq({"pass", "fail"}, 2)], 3)}

SomeInputs ==
  <<Wildcards, Classes, Members, FilterInputs, DocumentInputs, FactsInputs, TextInputs, Unchanged, Changed,
    ProtectionInputs, TimeInputs, ReportInputs>>
=============================================================================
