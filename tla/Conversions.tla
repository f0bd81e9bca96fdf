----------------------------- MODULE Conversions ----------------------------
(***************************************************************************)
(* The program's pure conversions, each against what it is to compute: a   *)
(* conversion is given one input and yields its outcome.                   *)
(***************************************************************************)
EXTENDS WorkflowPins, LegacyProtection, Calendar, LokiPayload

CONSTANTS
  Inputs,         (* what the conversions may be given, in several sets    *)
  SomeBranches    (* the branches that patterns are tried on               *)

Text == Seq(STRING)   (* of patterns and branches, by its characters       *)

ConditionPatterns(g) ==
  UNION {UNION {c.include \cup c.exclude : c \in r.conditions} : r \in g.rulesets}

(* Numbers of reviews are natural (they are u32), and GitHub keeps full    *)
(* names of refs in the conditions of rulesets.                            *)
WellFormed(g) ==
  /\ g.branch \in Text /\ ConditionPatterns(g) \subseteq Text
  /\ \A w \in g.legacy.reviews \cup PullRules(g.rulesets) : w.count \in Nat
  /\ \A p \in ConditionPatterns(g) :
       \/ p \in {<<"~DEFAULT_BRANCH">>, <<"~ALL">>}
       \/ Len(p) >= 2 /\ SubSeq(p, 1, 2) = <<"refs", "/">>

(* A directory of a repository is at the commit that the repository is at. *)
RefType  == [kind : {"ref"}, path : Seq(STRING), at : SUBSET STRING]
LineType == [form : {"block", "flow", "text"}, ref : RefType, comment : STRING]

WellFormedFiles(g) ==
  LET pins == UNION {PinsOf(f.lines) : f \in g.files}
  IN  /\ IsFiniteSet(g.files)
      /\ \A f \in g.files : f.lines \in Seq(LineType) /\ f.found \in Seq(LineType)
      /\ \A f \in g.files : \A ref \in UsesOfFile(f.lines) : \A v, w \in ref.at : v = w
      /\ \A ref \in pins : g.resolve[ref] \in Shas
      /\ \A ref, other \in pins :
           ResolutionKey(ref) = ResolutionKey(other) => g.resolve[ref] = g.resolve[other]

(* The rules judge workflows that were parsed from their documents.        *)
WellFormedFacts(facts) ==
  /\ facts.branch \in Text
  /\ \A f \in facts.files :
       /\ ParsesAsWorkflow(f.doc) /\ f.workflow = WorkflowOf(f.doc)
       /\ \A event \in DOMAIN f.workflow.triggers : \A key \in {"branches", "branches-ignore"} :
            f.workflow.triggers[event][key] \in Seq(Text)
       /\ \A ref \in UsesOf(f.workflow) : ref.path \in Seq(STRING)
       /\ f.texts \subseteq Seq(Tokens) /\ f.readable \in BOOLEAN

(* Only the year is parsed as a signed number.                             *)
TimeType ==
  [year : Int, month : Nat, day : Nat, hour : Nat, minute : Nat, second : Nat]

ASSUME InputsAssumption ==
  /\ SomeBranches \subseteq Text
  /\ \A n \in DOMAIN Inputs : \A g \in Inputs[n] :
       CASE g.about = "pattern"    -> g.pattern \in Text
         [] g.about = "filters"    -> g.filters \in Seq(Text)
         [] g.about = "facts"      -> WellFormedFacts(g.facts)
         [] g.about = "text"       -> g.text \in Seq(Tokens)
         [] g.about = "files"      -> WellFormedFiles(g)
         [] g.about = "protection" -> WellFormed(g)
         [] g.about = "time"       -> g.time \in TimeType
         [] g.about = "reports"    -> g.reports \in Seq([repo : STRING, results : Seq(Results)])
         [] OTHER -> TRUE

VARIABLES
  given,     (* the input: a record whose field `about` says what it is    *)
  outcome    (* what the program made of it: {} until it has               *)

vars == <<given, outcome>>

Now == 1000   (* when a payload is built, in nanoseconds                   *)

Init == (\E n \in DOMAIN Inputs : given \in Inputs[n]) /\ outcome = {}

Yields(about, result(_)) ==
  /\ outcome = {} /\ given.about = about
  /\ outcome' = {result(given)}
  /\ UNCHANGED given

(* branch_pattern_matches *)
MatchPattern ==
  Yields("pattern", LAMBDA g : {b \in SomeBranches : PatternMatches(g.pattern, b)})

(* branch_matches_filters *)
ApplyFilters ==
  Yields("filters", LAMBDA g : {b \in SomeBranches : FiltersAdmit(g.filters, b)})

(* Workflow::from_yaml *)
ParseWorkflow ==
  Yields("document", LAMBDA g : IF ParsesAsWorkflow(g.doc) THEN {WorkflowOf(g.doc)} ELSE {})

(* evaluate of src/rules/workflows.rs *)
JudgeWorkflows ==
  Yields("facts", LAMBDA g : [check \in WorkflowChecks |-> WorkflowVerdict(check, g.facts)])

(* references_secret in each of the expression_blocks *)
FindSecrets ==
  Yields("text", LAMBDA g : TextHasSecret(g.text))

(* plan_workflow_pin_pull_request, then prepare_workflow_updates *)
PinActions ==
  Yields("files", LAMBDA g : IF CanPin(g.files) THEN Prepared(g.files, g.resolve) ELSE {})

(* legacy_protection_superseded_by_rulesets *)
CompareProtection ==
  Yields("protection", LAMBDA g : SupersededBy(g.legacy, g.rulesets, g.branch))

(* parse_iso8601_utc *)
ReadTime ==
  Yields("time", LAMBDA g : Instant(g.time))

(* build_payload *)
BuildPayload ==
  Yields("reports", LAMBDA g : Streams(g.reports, Now))

Next ==
  \/ MatchPattern \/ ApplyFilters \/ ParseWorkflow \/ JudgeWorkflows \/ FindSecrets
  \/ PinActions \/ CompareProtection \/ ReadTime \/ BuildPayload

Spec == Init /\ [][Next]_vars

-----------------------------------------------------------------------------
(* Properties                                                              *)

Result(about, holds(_, _)) ==
  given.about = about => \A result \in outcome : holds(given, result)

(* What GitHub documents of several filters, of which it reads one after   *)
(* another.                                                                *)
DocumentedStep(filters, b, n, upTo) ==
  IF n = 0 THEN filters = <<>>
  ELSE IF IsException(filters[n]) THEN upTo[n - 1] /\ ~DocumentedMatch(Tail(filters[n]), b)
  ELSE upTo[n - 1] \/ DocumentedMatch(filters[n], b)

DocumentedUpTo(filters, b) ==
  LET upTo[n \in 0..Len(filters)] == DocumentedStep(filters, b, n, upTo) IN upTo

DocumentedAdmission(filters, b) == DocumentedUpTo(filters, b)[Len(filters)]

(* The regular expression that a branch pattern is translated into matches *)
(* the branches that GitHub documents the pattern to match                 *)
(* (github_pattern_to_regex).  Of several filters a later one overrides    *)
(* those before it, and what none matches is left out, unless there are    *)
(* none (branch_matches_filters).                                          *)
FiltersAsDocumented ==
  /\ Result("pattern",
       LAMBDA g, matched : matched = {b \in SomeBranches : DocumentedMatch(g.pattern, b)})
  /\ Result("filters",
       LAMBDA g, admitted : admitted =
         {b \in SomeBranches : DocumentedAdmission(g.filters, b)})

(* What triggers a workflow, as GitHub reads the file.                     *)
Mentions(doc, event) ==
  LET on == Key(doc, "on")
  IN  \/ on.kind = "str" /\ on.text = event
      \/ on.kind = "seq" /\ \E n \in DOMAIN on.items : on.items[n].text = event
      \/ on.kind = "map" /\ event \in DOMAIN on.map

(* A filter without entries is like none.                                  *)
PushTriggers(doc, branch) ==
  LET on     == Key(doc, "on")
      filter == IF on.kind = "map" THEN Key(on.map, "push") ELSE Null
      texts(key) == IF filter.kind = "map" THEN TextsOf(Key(filter.map, key)) ELSE <<>>
      filtered(key) == texts(key) # <<>>
  IN  /\ Mentions(doc, "push")
      /\ filtered("branches") => DocumentedAdmission(texts("branches"), branch)
      /\ \A n \in DOMAIN texts("branches-ignore") :
           ~DocumentedMatch(texts("branches-ignore")[n], branch)
      /\ filtered("tags") \/ filtered("tags-ignore")
           => filtered("branches") \/ filtered("branches-ignore")

ChecksOut(doc) ==
  \E j \in DOMAIN doc["jobs"] : \E n \in DOMAIN RawSteps(doc["jobs"][j]) :
    LET step == RawSteps(doc["jobs"][j])[n].map
    IN  Has(step, "uses") /\ IsPrefix(Checkout, step["uses"].path)

(* Whatever a workflow that parses has under `uses`, in jobs or steps, is  *)
(* there for the rules to see: a field of an unexpected type makes the     *)
(* file unreadable, it does not hide an action (Job::try_from).  So is     *)
(* every trigger, whichever way it is written, and no other: a push to the *)
(* default branch runs something, no checkout runs for                     *)
(* pull_request_target, nothing runs on workflow_run (evaluate).           *)
NothingHidden ==
  LET passes(verdicts, check, holds) == (verdicts[check] = "pass") = holds
  IN  /\ Result("document", LAMBDA g, parsed : \A w \in parsed : UsesOf(w) = UsesIn(g.doc))
      /\ Result("facts",
           LAMBDA g, verdicts :
             LET docs == {f.doc : f \in g.facts.files}
             IN  /\ passes(verdicts, "runs_on_default_branch",
                           \E d \in docs : PushTriggers(d, g.facts.branch))
                 /\ passes(verdicts, "no_target_checkout",
                           ~\E d \in docs : Mentions(d, "pull_request_target") /\ ChecksOut(d))
                 /\ passes(verdicts, "no_workflow_run",
                           ~\E d \in docs : Mentions(d, "workflow_run")))

(* A file is given a secret for pull requests, as GitHub reads it: by an   *)
(* expression, or by a call that inherits all of them.                     *)
GivenSecret(f, uses(_)) ==
  /\ Mentions(f.doc, "pull_request") \/ Mentions(f.doc, "pull_request_target")
  /\ \/ \E t \in f.texts : uses(t)
     \/ \E j \in DOMAIN f.doc["jobs"] :
          /\ "uses" \in DOMAIN f.doc["jobs"][j]
          /\ Key(f.doc["jobs"][j], "secrets") = Str("inherit")

UsesOrMisread(t) == UsesSecrets(t) \/ Misread(t)

(* If the rule passes, what runs for a pull request is given no secret by  *)
(* an expression that names the context in lower case and a secret right   *)
(* after its dot, and by no call of a workflow that inherits all of them;  *)
(* if it fails, a secret is given, or `secrets` stands beside a dash or    *)
(* apart from a dot.  Also where the raw text of a workflow is missing     *)
(* (evaluate_pr_secrets).  So it is for each text: GitHub evaluates what   *)
(* is found, except for those, and nothing plain is missed, in a literal,  *)
(* as a member of something else or outside of expressions; as far as no   *)
(* literal has the end of an expression in it (references_secret).         *)
SecretsNeverPass ==
  /\ Result("facts",
       LAMBDA g, verdicts :
         (\A f \in g.facts.files : \A t \in f.texts : Regular(t)) =>
           /\ verdicts["no_secrets"] = "pass"
                => ~\E f \in g.facts.files : GivenSecret(f, UsesPlainly)
           /\ verdicts["no_secrets"] = "fail"
                => \E f \in g.facts.files : GivenSecret(f, UsesOrMisread))
  /\ Result("text",
       LAMBDA g, found :
         Regular(g.text) =>
           (UsesPlainly(g.text) => found) /\ (found => UsesOrMisread(g.text)))

(* What a use names is the same for ever.                                  *)
Immutable(ref) ==
  \/ ref.at \in {{s} : s \in Shas}
  \/ ref.path[1] = "." \/ (ref.path[1] = "docker:" /\ ref.at = {"digest"})

Plain(lines) == \A n \in DOMAIN lines : lines[n].form # "text"

(* Of an old line nothing changes but the version and the comment of a use *)
(* that was planned, and the version to the commit that it stood for.      *)
PinnedLine(g, f, old, line) ==
  /\ IsUse(old) /\ old.ref \in UsesOfFile(f.lines)
  /\ line.form = old.form /\ line.ref.path = old.ref.path
  /\ line.ref.at = {g.resolve[old.ref]}
  /\ line.comment \in IF old.comment = "" THEN old.ref.at ELSE {old.comment}

(* When the files are still what the plan was made from, and no script has *)
(* lines that read like a use, pinning leaves no use that can change its   *)
(* meaning.  In any file, nothing but the version and the comment of uses  *)
(* changes, and the version to the very commit that it stood for           *)
(* (prepare_workflow_updates, replace_uses_line_value).                    *)
RewriteIsExact ==
  Result("files", LAMBDA g, prepared :
    \A texts \in prepared : \A f \in DOMAIN texts :
      Plain(f.found) =>
        /\ Len(texts[f]) = Len(f.found)
        /\ \A n \in DOMAIN texts[f] :
             texts[f][n] = f.found[n] \/ PinnedLine(g, f, f.found[n], texts[f][n])
        /\ f.found = f.lines => \A ref \in UsesOfFile(texts[f]) : Immutable(ref))

(* What legacy protection forbids to a writer, or to an admin if it is     *)
(* enforced on admins, is forbidden by the rulesets without it, if they    *)
(* are found to supersede it.  Push restrictions that list nobody are      *)
(* taken for none, and left out here.                                      *)
LegacyCovered ==
  Result("protection", LAMBDA g, superseded :
    superseded /\ g.legacy.restrictions # {{}}
      => LET applying == {r \in g.rulesets : GitHubApplies(r, g.branch)}
         IN  \A a \in Attempts(g.contexts) :
               RulesetsAllow(applying, a) => LegacyAllows(g.legacy, a))

(* The instant in a token's expires_at is the one the calendar gives, and  *)
(* what the calendar does not have is refused (parse_iso8601_utc).         *)
ExpiryExact ==
  Result("time", LAMBDA g, instant : instant = InstantByMonths(g.time))

(* Loki keeps every result of a run, also when a repository is listed      *)
(* twice, as no two of its entries have the same time (build_payload).     *)
EveryResultStored ==
  Result("reports", LAMBDA g, streams : \A x \in Results :
    Cardinality({e \in Stored(streams) : e.line = x}) = Counts(g.reports)[x])
=============================================================================
