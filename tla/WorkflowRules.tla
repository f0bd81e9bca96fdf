--------------------------- MODULE WorkflowRules ----------------------------
(***************************************************************************)
(* The rules about workflow files (src/rules/workflows.rs).  The facts are *)
(* the default branch and the workflow files, each a record of the parsed  *)
(* workflow, the document it was parsed from, the texts in that document,  *)
(* and whether it can be read again: a snapshot may lack the raw YAML.     *)
(***************************************************************************)
EXTENDS WorkflowModel, BranchPatterns, Expressions

CONSTANTS
  Aggregator,   (* all-required-checks-complete                            *)
  Shas          (* commits, by forty hexadecimal digits: is_commit_sha     *)

GateAction == <<"G-Research", "common-actions", "check-required-lite">>
Checkout   == <<"actions", "checkout">>

Filter(workflow, event) == workflow.triggers[event]
Triggers(workflow, event) == event \in DOMAIN workflow.triggers

Admits(filter, branch) ==
  /\ FiltersAdmit(filter["branches"], branch)
  /\ \A n \in DOMAIN filter["branches-ignore"] :
       ~PatternMatches(filter["branches-ignore"][n], branch)

DefaultTypes == {"opened", "synchronize", "reopened"}

(* Mutant: whatever the types the workflow is restricted to.               *)
RunsOnAnyPullRequestInto(workflow, branch) ==
  /\ Triggers(workflow, "pull_request")
  /\ LET filter == Filter(workflow, "pull_request")
     IN  /\ filter["paths"] = <<>> /\ filter["paths-ignore"] = <<>>
         /\ Admits(filter, branch)

(* runs_on_every_pull_request_into                                         *)
RunsOnEveryPullRequestInto(workflow, branch) ==
  /\ Triggers(workflow, "pull_request")
  /\ LET filter == Filter(workflow, "pull_request")
     IN  /\ filter["paths"] = <<>> /\ filter["paths-ignore"] = <<>>
         /\ Admits(filter, branch)
         /\ \/ filter["types"] = <<>>
            \/ \A type \in DefaultTypes :
                 \E n \in DOMAIN filter["types"] : filter["types"][n] = type

(* every_default_branch_pull_request_reports_check                         *)
EveryPullRequestReports(facts, check) ==
  \E f \in facts.files :
    /\ RunsOnEveryPullRequestInto(f.workflow, facts.branch)
    /\ \E key \in DOMAIN f.workflow.jobs :
         CheckName(key, f.workflow.jobs[key]) = {check}

(* The spellings of always() and of the whole needs context that are left  *)
(* when white space, and for the latter case, are ignored.                 *)
AlwaysTexts    == {"always()", "${{ always() }}"}
FullNeedsTexts == {"${{ toJSON(needs) }}", "${{toJSON(needs)}}", "${{ tojson(needs) }}"}

(* step_uses_action, for an action named without a version: also one of    *)
(* its directories, when the reference is not owner/repo@version.          *)
UsesAction(step, action) ==
  \E ref \in step.uses :
    IF IsRepository(ref) THEN ref.path = action
    ELSE Len(ref.path) >= Len(action) /\ SubSeq(ref.path, 1, Len(action)) = action

PassesFullNeeds(step) ==
  /\ "needs-context" \in DOMAIN step.with
  /\ step.with["needs-context"].kind = "str"
  /\ step.with["needs-context"].text \in FullNeedsTexts

(* Mutant: it need not run when another job has failed.                    *)
EnforcesIfItRuns(workflow, key, branch) ==
  LET job  == workflow.jobs[key]
      gate == {n \in DOMAIN job.steps : UsesAction(job.steps[n], GateAction)}
  IN  /\ CheckName(key, job) = {Aggregator}
      /\ RunsOnEveryPullRequestInto(workflow, branch)
      /\ \E n \in gate : (\A m \in gate : n <= m) /\ PassesFullNeeds(job.steps[n])
      /\ \A other \in (DOMAIN workflow.jobs) \ {key} :
           \E n \in DOMAIN job.needs : job.needs[n] = other

(* aggregator_job_problems finds none: the check is reported, under its    *)
(* name, whatever has failed before, from the results of all other jobs.   *)
Enforces(workflow, key, branch) ==
  LET job  == workflow.jobs[key]
      gate == {n \in DOMAIN job.steps : UsesAction(job.steps[n], GateAction)}
  IN  /\ CheckName(key, job) = {Aggregator}
      /\ RunsOnEveryPullRequestInto(workflow, branch)
      /\ job.condition \in AlwaysTexts
      /\ \E n \in gate : (\A m \in gate : n <= m) /\ PassesFullNeeds(job.steps[n])
      /\ \A other \in (DOMAIN workflow.jobs) \ {key} :
           \E n \in DOMAIN job.needs : job.needs[n] = other

(* evaluate_required_checks_complete: one good candidate is enough.        *)
HasEnforcingAggregator(facts) ==
  \E f \in facts.files : \E key \in DOMAIN f.workflow.jobs :
    /\ key = Aggregator \/ f.workflow.jobs[key].name = Aggregator
    /\ Enforces(f.workflow, key, facts.branch)

(* workflow_runs_on_push_to_branch: filters on tags alone exclude branches. *)
RunsOnPushTo(workflow, branch) ==
  /\ Triggers(workflow, "push")
  /\ LET filter == Filter(workflow, "push")
     IN  /\ \/ filter["branches"] # <<>> \/ filter["branches-ignore"] # <<>>
            \/ filter["tags"] = <<>> /\ filter["tags-ignore"] = <<>>
         /\ Admits(filter, branch)

-----------------------------------------------------------------------------
(* Pinned actions                                                          *)

IsLocal(ref)  == Len(ref.path) > 1 /\ ref.path[1] = "."
IsDocker(ref) == Len(ref.path) > 2 /\ SubSeq(ref.path, 1, 2) = <<"docker:", "">>

IsCommit(ref) == ref.at # {} /\ ref.at \subseteq Shas

(* action_reference_is_pinned.  "digest" is sha256: and its digits.        *)
IsPinned(ref) ==
  CASE ~IsRepository(ref) /\ IsLocal(ref) -> TRUE
    [] IsDocker(ref) -> ref.at = {"digest"} /\ (Len(ref.path) = 3 => ref.path[3] # "")
    [] OTHER -> IsCommit(ref)

-----------------------------------------------------------------------------
(* Secrets                                                                 *)

(* collect_secrets_inherit                                                 *)
InheritsSecrets(doc) ==
  \E j \in DOMAIN doc["jobs"] :
    /\ "uses" \in DOMAIN doc["jobs"][j]
    /\ Key(doc["jobs"][j], "secrets") = Str("inherit")

ForPullRequests(workflow) ==
  Triggers(workflow, "pull_request") \/ Triggers(workflow, "pull_request_target")

(* Mutant: what cannot be read again is passed over.                       *)
SecretsVerdictOfReadable(facts) ==
  IF \E f \in facts.files :
       /\ ForPullRequests(f.workflow) /\ f.readable
       /\ InheritsSecrets(f.doc) \/ \E t \in f.texts : TextHasSecret(t)
    THEN "fail" ELSE "pass"

(* evaluate_pr_secrets: what cannot be read again is skipped, unless        *)
(* another file fails the rule.                                            *)
SecretsVerdict(facts) ==
  LET scanned  == {f \in facts.files : ForPullRequests(f.workflow)}
      offends(f) == f.readable /\ (InheritsSecrets(f.doc) \/ \E t \in f.texts : TextHasSecret(t))
  IN  IF \E f \in scanned : offends(f) THEN "fail"
      ELSE IF \E f \in scanned : ~f.readable THEN "skip" ELSE "pass"

-----------------------------------------------------------------------------
(* Verdicts: evaluate                                                      *)

Judged(holds) == IF holds THEN "pass" ELSE "fail"

Steps(workflow) ==
  UNION {{workflow.jobs[j].steps[n] : n \in DOMAIN workflow.jobs[j].steps} :
           j \in DOMAIN workflow.jobs}

WorkflowChecks ==
  {"runs_on_default_branch", "actions_pinned", "no_target_checkout", "no_workflow_run",
   "no_secrets", "aggregator"}

WorkflowVerdict(check, facts) ==
  CASE check = "runs_on_default_branch" ->
         Judged(\E f \in facts.files : RunsOnPushTo(f.workflow, facts.branch))
    [] check = "actions_pinned" ->
         Judged(\A f \in facts.files : \A ref \in UsesOf(f.workflow) : IsPinned(ref))
    [] check = "no_target_checkout" ->
         Judged(\A f \in facts.files :
                  Triggers(f.workflow, "pull_request_target")
                    => \A s \in Steps(f.workflow) : ~UsesAction(s, Checkout))
    [] check = "no_workflow_run" ->
         Judged(\A f \in facts.files : ~Triggers(f.workflow, "workflow_run"))
    [] check = "no_secrets"  -> SecretsVerdict(facts)
    [] check = "aggregator"  -> Judged(HasEnforcingAggregator(facts))
=============================================================================
