----------------------------- MODULE RulesetFix -----------------------------
(***************************************************************************)
(* One invocation of --fix on one repository, for the fixes that do not    *)
(* open a pull request: gather the facts, plan, send the planned calls in  *)
(* the order of `execute_planned_effects`, gather again, report.  Every    *)
(* HTTP call that changes something is one action; the reads of a gather   *)
(* are grouped by what they tell.  The program is run again and again.     *)
(***************************************************************************)
EXTENDS Rulesets, Naturals

CONSTANTS
  SomeEnabled,  (* the rules `disabled_rules` may leave on                 *)
  SomeRulesets, SomeLegacy, SomeSettings, SomeForks, SomeReported,
                (* what a repository may start with, and what            *)
                (* administrators may set later                            *)
  FaultKinds, MaxFaults,  (* calls that fail and processes that die        *)
  MaxEdits      (* how often administrators change the repository,         *)
                (* between two invocations                                 *)

AllFaults == {"refused", "lost", "crash"}

ASSUME RulesetFixAssumption ==
  /\ SomeEnabled \subseteq SUBSET Rules
  /\ SomeRulesets \subseteq Ruleset /\ SomeLegacy \subseteq Legacy
  /\ SomeSettings \subseteq (SUBSET Methods) \ {{}}
  /\ SomeForks \subseteq {"all", "some", "hidden"}
  /\ SomeReported \subseteq SUBSET Contexts
  /\ FaultKinds \subseteq AllFaults
  /\ MaxFaults \in Nat /\ MaxEdits \in Nat

VARIABLES
  enabled,  (* the configuration: it is the same in every invocation      *)
  repo,     (* GitHub: the repository as it is                             *)
  pc,       (* the next step of the invocation                             *)
  seen,     (* the facts of the gather that is going on, or was last       *)
  before,   (* the facts the fixes were planned from                       *)
  plan,     (* for each rule, the call that fixes it                       *)
  fetched,  (* the ruleset last read, about to be written                  *)
  results,  (* for each rule, what became of its fix                       *)
  faults, edits

local == <<pc, seen, before, plan, fetched, results>>
vars  == <<enabled, repo, local, faults, edits>>

Calls    == NoCalls \cup {NewId} \cup Ids
Outcomes == {"none", "rejected", "applied", "failed"}
Steps    == {"idle", "settings", "rulesets", "rest", "plan", "act", "put",
             "settings2", "rulesets2", "rest2", "report"}

Start ==
  {[settings |-> s, fork |-> f, rulesets |-> rs, legacy |-> l, reported |-> r] :
     s \in SomeSettings, f \in SomeForks, r \in SomeReported,
     l \in SomeLegacy \cup {NoLegacy},
     rs \in [Ids -> SomeRulesets \cup {NoRuleset}]}

Nothing == [settings |-> {}, fork |-> "hidden", legacy |-> NoLegacy,
            rulesets |-> [i \in Ids |-> NoRuleset], reported |-> {}]
NoPlan  == [rule \in Rules |-> "none"]

TypeOK ==
  /\ enabled \in SomeEnabled
  /\ repo \in Facts /\ seen \in Facts /\ before \in Facts
  /\ pc \in Steps
  /\ plan \in [Rules -> Calls]
  /\ results \in [Rules -> Outcomes]
  /\ fetched \in Ruleset \cup {NoRuleset}
  /\ pc = "put" => fetched # NoRuleset
  /\ faults \in 0..MaxFaults
  /\ edits \in 0..MaxEdits

Init ==
  /\ enabled \in SomeEnabled
  /\ repo \in Start
  /\ pc = "idle"
  /\ seen = Nothing /\ before = Nothing
  /\ plan = NoPlan /\ results = NoPlan
  /\ fetched = NoRuleset
  /\ faults = MaxFaults /\ edits = MaxEdits

Fault(kind) ==
  /\ kind \in FaultKinds
  /\ faults > 0
  /\ faults' = faults - 1

ReadFailed == \E kind \in {"refused", "lost"} : Fault(kind)

(* A mutation is sent once: it succeeds, is refused, or is lost on the way *)
(* there or back.                                                          *)
Sent(possible, effect, ok) ==
  /\ effect => possible
  /\ \/ ok /\ effect /\ UNCHANGED faults
     \/ ~ok /\ Fault("lost")
     \/ ~ok /\ ~effect /\ Fault("refused")
     \/ ~ok /\ ~possible /\ UNCHANGED faults

(* The invocation is over: what it knew is gone.                           *)
Forget ==
  /\ pc' = "idle"
  /\ seen' = Nothing /\ before' = Nothing
  /\ plan' = NoPlan /\ results' = NoPlan
  /\ fetched' = NoRuleset

-----------------------------------------------------------------------------
(* Gathering: gather_repo_facts, before the fixes and after them.  A read  *)
(* that fails ends the invocation.                                         *)

Launch ==
  /\ pc = "idle"
  /\ pc' = "settings"
  /\ UNCHANGED <<repo, seen, before, plan, fetched, results, faults, edits>>

Gather(from, to, facts) ==
  /\ pc = from
  /\ \/ ReadFailed /\ Forget
     \/ /\ pc' = to
        /\ seen' = facts
        /\ UNCHANGED <<before, plan, fetched, results, faults>>
  /\ UNCHANGED <<repo, edits>>

(* get_repo and get_fork_pr_approval_permission                            *)
WithSettings == [seen EXCEPT !.settings = repo.settings, !.fork = repo.fork]
(* fetch_rulesets                                                          *)
WithRulesets == [seen EXCEPT !.rulesets = repo.rulesets]
(* get_branch_protection and the workflows                                 *)
WithRest == [seen EXCEPT !.legacy = repo.legacy, !.reported = repo.reported]

GatherBefore ==
  \/ Gather("settings", "rulesets", WithSettings)
  \/ Gather("rulesets", "rest", WithRulesets)
  \/ Gather("rest", "plan", WithRest)

GatherAfter ==
  \/ Gather("settings2", "rulesets2", WithSettings)
  \/ Gather("rulesets2", "rest2", WithRulesets)
  \/ Gather("rest2", "report", WithRest)

-----------------------------------------------------------------------------
(* Planning: plan_repo_fixes.  When there is nothing to fix the report is  *)
(* made from the facts at hand.                                            *)
PlanFixes ==
  /\ pc = "plan"
  /\ plan' = PlanOf(enabled, seen)
  /\ results' = [rule \in Rules |->
                   IF plan'[rule] = "rejected" THEN "rejected" ELSE "none"]
  /\ pc' = IF plan' = NoPlan THEN "report" ELSE "act"
  /\ before' = seen
  /\ UNCHANGED <<repo, seen, fetched, faults, edits>>

-----------------------------------------------------------------------------
(* Execution: execute_planned_effects                                      *)

(* One call for all the rules it fixes.                                    *)
Batch(call) == {rule \in Rules : plan[rule] = call}

Pending == {call \in Calls \ {"none", "rejected"} :
              \E rule \in Batch(call) : results[rule] = "none"}

(* The settings go first, then the rulesets, then the fork policy, and the *)
(* legacy protection last, after everything that might replace it.  Among  *)
(* the rulesets the order is that of their first rules in the catalog.     *)
Stage(call) ==
  CASE call = "patch" -> 1 [] call = "fork" -> 3 [] call = "delete" -> 4
    [] OTHER -> 2

CatalogOrder ==
  [RS001 |-> 1, RS005 |-> 5, RS006 |-> 6, RS007 |-> 7, RS008 |-> 8, RS010 |-> 10,
   RS011 |-> 11, RS012 |-> 12, RS013 |-> 13,
   ST004 |-> 24, ST005 |-> 25, ST006 |-> 26, ST007 |-> 27]

Before(call, other) ==
  \/ Stage(call) < Stage(other)
  \/ /\ Stage(call) = 2 /\ Stage(other) = 2
     /\ \E rule \in Batch(call) : \A r \in Batch(other) :
          CatalogOrder[rule] < CatalogOrder[r]

IsNext(call) ==
  /\ call \in Pending
  /\ \A other \in Pending \ {call} : Before(call, other)

(* execute_repo_fixes: the rules of a call share its outcome.              *)
Record(call, ok) ==
  /\ results' = [rule \in Rules |->
                   IF plan[rule] # call THEN results[rule]
                   ELSE IF ok THEN "applied" ELSE "failed"]
  /\ pc' = "act"
  /\ fetched' = NoRuleset
  /\ UNCHANGED <<seen, before, plan, edits>>

(* GitHub does not let a repository disable every merge method.            *)
Patch ==
  /\ pc = "act" /\ IsNext("patch")
  /\ \E effect, ok \in BOOLEAN :
       LET wanted == Patched(repo.settings, Batch("patch"))
       IN  /\ Sent(wanted # {}, effect, ok)
           /\ repo' = IF effect THEN [repo EXCEPT !.settings = wanted] ELSE repo
           /\ Record("patch", ok)

(* GitHub stores a ruleset, as a whole.                                    *)
WithRuleset(id, rs) ==
  [repo EXCEPT !.rulesets = [repo.rulesets EXCEPT ![id] = rs]]

(* Mutant: a ruleset that could not be read is written all the same.       *)
FetchOrNot ==
  /\ pc = "act"
  /\ \E id \in Ids :
       /\ IsNext(id)
       /\ \/ ReadFailed /\ fetched' = NoRuleset
          \/ fetched' = repo.rulesets[id] /\ UNCHANGED faults
  /\ pc' = "put"
  /\ UNCHANGED <<repo, seen, before, plan, results, edits>>

(* apply_existing_ruleset_update: GET ...                                  *)
FetchRuleset ==
  /\ pc = "act"
  /\ \E id \in Ids :
       /\ IsNext(id)
       /\ \/ /\ ReadFailed
             /\ Record(id, FALSE)
          \/ /\ repo.rulesets[id] = NoRuleset
             /\ Record(id, FALSE)
             /\ UNCHANGED faults
          \/ /\ repo.rulesets[id] # NoRuleset
             /\ fetched' = repo.rulesets[id]
             /\ pc' = "put"
             /\ UNCHANGED <<seen, before, plan, results, faults, edits>>
  /\ UNCHANGED repo

(* ... modify, PUT: the whole ruleset is written as it was read, with the  *)
(* changes of all its rules.                                               *)
PutRuleset ==
  /\ pc = "put"
  /\ \E id \in Ids, effect, ok \in BOOLEAN :
       /\ IsNext(id)
       /\ Sent(repo.rulesets[id] # NoRuleset, effect, ok)
       /\ repo' = IF effect
                    THEN WithRuleset(id, Updated(fetched, Batch(id)))
                    ELSE repo
       /\ Record(id, ok)

(* POST of a ruleset, which GitHub refuses at its limit of rulesets and    *)
(* otherwise stores under an id of its choice.                             *)
Free == {id \in Ids : repo.rulesets[id] = NoRuleset}

Post(effect, ok) ==
  /\ Sent("RS001" \in Batch(NewId) /\ Free # {}, effect, ok)
  /\ IF effect
       THEN \E id \in Free :
              repo' = WithRuleset(id, Updated(Blank, Batch(NewId)))
       ELSE repo' = repo

(* Mutant: a creation without an answer is sent a second time.             *)
CreateRulesetTwice ==
  /\ pc = "act" /\ IsNext(NewId)
  /\ \E effect, ok \in BOOLEAN :
       /\ Post(effect, ok)
       /\ IF ok THEN Record(NewId, TRUE) ELSE UNCHANGED <<local, edits>>

(* create_default_branch_ruleset, unless RS001 is not among its rules.     *)
CreateRuleset ==
  /\ pc = "act" /\ IsNext(NewId)
  /\ \E effect, ok \in BOOLEAN : Post(effect, ok) /\ Record(NewId, ok)

SetFork ==
  /\ pc = "act" /\ IsNext("fork")
  /\ \E effect, ok \in BOOLEAN :
       /\ Sent(TRUE, effect, ok)
       /\ repo' = IF effect THEN [repo EXCEPT !.fork = "all"] ELSE repo
       /\ Record("fork", ok)

(* DELETE of the legacy protection; a 404 is an error like any other.      *)
DeleteLegacy ==
  /\ pc = "act" /\ IsNext("delete")
  /\ \E effect, ok \in BOOLEAN :
       /\ Sent(repo.legacy # NoLegacy, effect, ok)
       /\ repo' = IF effect THEN [repo EXCEPT !.legacy = NoLegacy] ELSE repo
       /\ Record("delete", ok)

(* Every call was sent: gather again.                                      *)
Executed ==
  /\ pc = "act" /\ Pending = {}
  /\ pc' = "settings2"
  /\ UNCHANGED <<repo, seen, before, plan, fetched, results, faults, edits>>

Report ==
  /\ pc = "report"
  /\ Forget
  /\ UNCHANGED <<repo, faults, edits>>

Crash ==
  /\ pc # "idle"
  /\ Fault("crash")
  /\ Forget
  /\ UNCHANGED <<repo, edits>>

Tool ==
  \/ Launch \/ GatherBefore \/ PlanFixes
  \/ Patch \/ FetchRuleset \/ PutRuleset \/ CreateRuleset \/ SetFork
  \/ DeleteLegacy \/ Executed \/ GatherAfter \/ Report

-----------------------------------------------------------------------------
(* Administrators                                                          *)

Edit(changed) ==
  /\ edits > 0
  /\ pc = "idle"
  /\ edits' = edits - 1
  /\ repo' = changed
  /\ UNCHANGED <<local, faults>>

EditRuleset ==
  \E i \in Ids, rs \in SomeRulesets \cup {NoRuleset} :
    Edit(WithRuleset(i, rs))

EditElse ==
  \/ \E s \in SomeSettings : Edit([repo EXCEPT !.settings = s])
  \/ \E f \in SomeForks : Edit([repo EXCEPT !.fork = f])
  \/ \E l \in SomeLegacy \cup {NoLegacy} : Edit([repo EXCEPT !.legacy = l])
  \/ \E r \in SomeReported : Edit([repo EXCEPT !.reported = r])

Next == (Tool \/ Crash \/ EditRuleset \/ EditElse) /\ UNCHANGED enabled

Spec == Init /\ [][Next]_vars

(* Each call returns within its timeout, and the program is run again.     *)
FairSpec == Spec /\ WF_vars(Tool /\ UNCHANGED enabled)

-----------------------------------------------------------------------------
(* Properties                                                              *)

(* No step of the tool takes away anything that is enforced on the default *)
(* branch: the legacy protection goes only when rulesets enforce all of it *)
(* (legacy_protection_superseded_by_rulesets), however earlier calls of    *)
(* the same invocation failed, and no change to a ruleset drops a rule.    *)
ProtectionKept == [][edits' # edits \/ Enforced(repo) \subseteq Enforced(repo')]_vars

(* A required check that only one app may report stays so: the rulesets    *)
(* that supersede a legacy protection enforce at least as much.            *)
PinnedChecksKept == [][edits' # edits \/ Pinned(repo) \subseteq Pinned(repo')]_vars

(* The checks that may never come if they are required.                    *)
Blocking(F) == {c \in Contexts : c \notin F.reported \/ Queued(F)}

(* The tool begins to require only checks that every pull request reports, *)
(* and none where a merge queue applies, whichever ruleset that is in:     *)
(* others would leave pull requests or the queue waiting for ever          *)
(* (plan_ensure_required_status_check).                                    *)
NeverBlocksMerges ==
  [][\/ edits' # edits
     \/ \A i \in Covering(repo'), c \in Blocking(repo') :
          Requires(repo'.rulesets[i], c)
            => i \in Covering(repo) /\ Requires(repo.rulesets[i], c)]_vars

(* A ruleset is created only for RS001, and only where none covers the     *)
(* default branch: also when a POST was lost and the program run again.    *)
CreatesOnlyWhenUncovered ==
  [][\A i \in Ids :
       repo.rulesets[i] = NoRuleset /\ repo'.rulesets[i] # NoRuleset
         => edits' # edits \/ ("RS001" \in enabled /\ Covering(repo) = {})]_vars

(* A fix reported as Applied shows: its rule passes on the facts of the    *)
(* same report, whatever else the same calls carried and others failed.    *)
AppliedRulePasses ==
  pc = "report" => \A rule \in Rules :
    results[rule] = "applied" => Verdict(rule, seen) = "pass"

(* No rule that passed before the fixes fails after them.                  *)
NoRegression ==
  pc = "report" /\ plan # NoPlan => \A rule \in Rules :
    Verdict(rule, before) = "pass" => Verdict(rule, seen) = "pass"

(* With every rule enabled and at most one ruleset to fit in with, fixes   *)
(* that all succeed do not leave the repository without a merge method     *)
(* that is both enabled and allowed.                                       *)
StaysMergeable ==
  /\ pc = "report" /\ plan # NoPlan
  /\ enabled = Rules
  /\ Cardinality(Covering(before)) <= 1
  /\ "failed" \notin {results[rule] : rule \in Rules}
  /\ Mergeable(before)
  => Mergeable(seen)

(* Running the program again and again ends with nothing left that it      *)
(* would do, but for a ruleset that GitHub has no room for: no two fixes   *)
(* undo each other, and what one of them makes possible (RS007, after a    *)
(* ruleset has caught up with the legacy protection) is done in a later    *)
(* run.                                                                    *)
Settled ==
  \A rule \in Rules :
    \/ PlanOf(enabled, repo)[rule] \in {"none", "rejected"}
    \/ PlanOf(enabled, repo)[rule] = NewId /\ Free = {}
FixesConverge == <>[]Settled
=============================================================================
