--------------------------- MODULE RequiredChecks ---------------------------
(***************************************************************************)
(* What the verdict about a workflow's gate job (WF004) and the decision   *)
(* to require its check (--fix of RS012) are for: the life of one pull     *)
(* request in a repository with one workflow file.  The workflow, the      *)
(* verdict and the decision are the program's; runs of the workflow, and   *)
(* what may be merged, are GitHub's.                                       *)
(***************************************************************************)
EXTENDS CiShapes

CONSTANTS
  SomeShapes,   (* the workflows a repository may have                     *)
  MaxEvents     (* pushes, labels, changes of the base and so on, together *)

(* The names and texts are what they are in the generator; `varies` stands *)
(* for names that are not fixed.                                           *)
ASSUME RequiredChecksAssumption ==
  /\ MaxEvents \in Nat
  /\ \A s \in SomeShapes : s \in CiShape /\ s.needs \subseteq s.others
  /\ Aggregator \notin {"Required checks", "varies", "gate"} \cup Range(OtherJobs)
  /\ "${{ github.workflow }} gate" \in ExpressionTexts
  /\ {NoText, Aggregator, "Required checks"} \cap ExpressionTexts = {}
  /\ NoText \notin {Aggregator, "Required checks", "${{ github.workflow }} gate"} \cup AlwaysTexts

VARIABLES
  shape,      (* what the workflow file was made from                      *)
  accepted,   (* does WF004 pass?                                          *)
  reports,    (* does the program find that every pull request reports it? *)
  required,   (* a ruleset requires the check all-required-checks-complete *)
  pull,       (* the pull request: "none", "open", "closed" or "merged"    *)
  base,       (* the branch it is to be merged into                        *)
  moved,      (* was that changed since something last triggered runs?     *)
  jobs,       (* the workflow's jobs for its present head commit           *)
  events      (* how many more events there may be                         *)

checks == <<shape, accepted, reports, required>>
vars   == <<checks, pull, base, moved, jobs, events>>

Keys     == shape.others \cup {shape.key}
NoRun    == [j \in Keys |-> "none"]
Ended    == {"success", "failure", "skipped"}
Needs(j) == IF j = shape.key THEN shape.needs ELSE {}

Init ==
  /\ shape \in SomeShapes
  /\ accepted = HasEnforcingAggregator(FactsOf(shape))
  /\ reports = EveryPullRequestReports(FactsOf(shape), Aggregator)
  /\ required = FALSE
  /\ pull = "none"
  /\ base \in {Branch, OtherBranch}
  /\ moved = FALSE
  /\ jobs = NoRun
  /\ events = MaxEvents

-----------------------------------------------------------------------------
(* The program                                                             *)

(* Mutant: a check is required when any job is so called.                  *)
RequireCheckByName ==
  /\ ~required
  /\ ReportedName(shape) = Aggregator
  /\ required' = TRUE
  /\ UNCHANGED <<shape, accepted, reports, pull, base, moved, jobs, events>>

(* --fix of RS012: plan_ensure_required_status_check.                      *)
RequireCheck ==
  /\ ~required
  /\ reports
  /\ required' = TRUE
  /\ UNCHANGED <<shape, accepted, reports, pull, base, moved, jobs, events>>

-----------------------------------------------------------------------------
(* GitHub's runs of workflows                                              *)

(* Does the event trigger the workflow?  A path filter lets some commits   *)
(* trigger it and others not.                                              *)
Matches(patterns, b) ==
  patterns \cap (IF b = Branch THEN MatchesBranch ELSE {<<"d">>, <<"*", "*">>}) # {}

Triggering(event, b) ==
  LET p == shape.pull
  IN  \/ p.form \in {"string", "list"} /\ event \in DefaultTypes
      \/ /\ p.form = "filtered"
         /\ event \in (IF p.types = {} THEN DefaultTypes ELSE p.types)
         /\ CASE p.key = "none" -> TRUE [] p.key = "branches" -> Matches(p.patterns, b)
              [] p.key = "branches-ignore" -> ~Matches(p.patterns, b)

(* The jobs after the event, from what they were before it.                *)
AfterEvent(event, b, before) ==
  LET queued == [j \in Keys |-> "queued"]
  IN  IF ~Triggering(event, b) THEN {before}
      ELSE IF shape.pull.paths \/ shape.pull.ignore THEN {before, queued}
      ELSE {queued}

Happens(event, b, before) ==
  /\ jobs' \in AfterEvent(event, b, before)
  /\ moved' = (event = "edited" \/ (moved /\ event \notin DefaultTypes))
  /\ UNCHANGED checks

Spend == events > 0 /\ events' = events - 1

(* The gate action fails if it is given the results of the needed jobs and *)
(* one of them did not succeed; a job can always fail for other reasons.   *)
Results(j) ==
  IF j = shape.key /\ NeedsContexts[shape.step] /\ \E n \in shape.needs : jobs[n] # "success"
    THEN {"failure"} ELSE {"success", "failure"}

(* A job waits for those it needs.  Unless its condition is always() it is *)
(* skipped when one of them did not succeed.                               *)
JobEnds(j) ==
  /\ jobs[j] = "queued"
  /\ \A n \in Needs(j) : jobs[n] \in Ended
  /\ LET runs == \/ j = shape.key /\ shape.condition \in AlwaysTexts
                 \/ \A n \in Needs(j) : jobs[n] = "success"
     IN  \E result \in IF runs THEN Results(j) ELSE {"skipped"} :
           jobs' = [jobs EXCEPT ![j] = result]
  /\ UNCHANGED <<checks, pull, base, moved, events>>

-----------------------------------------------------------------------------
(* The author of the pull request                                          *)

Open ==
  /\ pull = "none" /\ pull' = "open"
  /\ Happens("opened", base, NoRun)
  /\ UNCHANGED <<base, events>>

PushCommit ==
  /\ pull = "open" /\ Spend
  /\ Happens("synchronize", base, NoRun)
  /\ UNCHANGED <<pull, base>>

Label ==
  /\ pull = "open" /\ Spend
  /\ Happens("labeled", base, jobs)
  /\ UNCHANGED <<pull, base>>

Close ==
  /\ pull = "open" /\ pull' = "closed" /\ Spend
  /\ Happens("closed", base, jobs)
  /\ UNCHANGED base

Reopen ==
  /\ pull = "closed" /\ pull' = "open" /\ Spend
  /\ Happens("reopened", base, jobs)
  /\ UNCHANGED base

Retarget ==
  /\ pull = "open" /\ Spend
  /\ base' \in {Branch, OtherBranch} \ {base}
  /\ Happens("edited", base', jobs)
  /\ UNCHANGED pull

(* The check of the gate, for GitHub: one that was skipped does not block. *)
Reported == ReportedName(shape) = Aggregator /\ jobs[shape.key] \in Ended

Merge ==
  /\ pull = "open" /\ base = Branch
  /\ required => Reported /\ jobs[shape.key] \in {"success", "skipped"}
  /\ pull' = "merged"
  /\ UNCHANGED <<checks, base, moved, jobs, events>>

Next ==
  \/ RequireCheck
  \/ Open \/ PushCommit \/ Label \/ Close \/ Reopen \/ Retarget \/ Merge
  \/ \E j \in Keys : JobEnds(j)

Spec == Init /\ [][Next]_vars

(* A job that may start is run, and ends at GitHub's time limit.           *)
FairSpec == Spec /\ WF_vars(\E j \in Keys : JobEnds(j))

-----------------------------------------------------------------------------
(* Properties                                                              *)

(* The two verdicts about a workflow file agree with the choices it was    *)
(* made from: WF004 accepts exactly the gates that enforce, and --fix      *)
(* requires the check exactly if every pull request reports it.            *)
VerdictsTrue ==
  /\ accepted <=> Enforcing(shape)
  /\ reports <=> ReportsAlways(shape)

(* With a gate that WF004 accepts, and its check required, no pull request *)
(* is merged while a job of the workflow has failed for its head commit or *)
(* has not ended: not after another push, nor after it was reopened or its *)
(* base was changed.                                                       *)
GateHolds ==
  [][pull' = "merged" /\ pull # "merged" /\ required /\ accepted
       => \A j \in Keys : jobs[j] \in {"success", "skipped"}]_vars

(* The check that --fix requires is reported for every head commit that    *)
(* was pushed to, or opened or reopened against, the default branch: the   *)
(* pull request does not wait for it for ever                              *)
(* (every_default_branch_pull_request_reports_check).                      *)
RequiredIsReported ==
  required /\ pull = "open" /\ base = Branch /\ ~moved
    ~> Reported \/ pull # "open" \/ base # Branch \/ moved

(* Its comment says so of every pull request into that branch, also of one *)
(* that was opened against another.                                        *)
RequiredIsReportedAnyway ==
  required /\ pull = "open" /\ base = Branch
    ~> Reported \/ pull # "open" \/ base # Branch
=============================================================================
