-------------------------- MODULE LegacyProtection --------------------------
(***************************************************************************)
(* Whether rulesets enforce what the legacy protection of a branch does    *)
(* (legacy_protection_superseded_by_rulesets in src/rules/rulesets.rs),    *)
(* which --fix then deletes.  Rulesets.tla has the few of its parts that   *)
(* the fixes interact with; here it is whole, for one pair of the two.     *)
(*                                                                         *)
(* A missing field of the legacy protection is None, a flag is None or a   *)
(* Boolean in a set.  `checks` has the required contexts, listed in        *)
(* either of two ways, `reviews` what pull requests need.                  *)
(***************************************************************************)
EXTENDS BranchPatterns, FiniteSetsExt

None == {}
On   == {TRUE}
Off  == {FALSE}

Flags == {"required_linear_history", "allow_force_pushes", "allow_deletions",
          "required_signatures", "required_conversation_resolution",
          "enforce_admins", "block_creations", "lock_branch"}

(* What both may ask of the reviews of a pull request; a legacy reviews    *)
(* record has these names for them, a pull_request rule similar ones.      *)
Demands == {"code_owner", "dismiss_stale", "last_push", "threads"}

-----------------------------------------------------------------------------
(* Which rulesets count                                                    *)

Heads == <<"refs", "/", "heads", "/">>

(* Mutant: full patterns are matched against the name of the branch.       *)
RefNameMatchesBare(pattern, branch) ==
  pattern \in {<<"~DEFAULT_BRANCH">>, <<"~ALL">>} \/ PatternMatches(pattern, branch)

(* ref_name_pattern_matches                                                *)
RefNameMatches(pattern, branch) ==
  \/ pattern \in {<<"~DEFAULT_BRANCH">>, <<"~ALL">>}
  \/ PatternMatches(pattern,
       IF Len(pattern) >= 2 /\ SubSeq(pattern, 1, 2) = <<"refs", "/">>
         THEN Heads \o branch ELSE branch)

(* ruleset_conditions_include_branch: without conditions it applies.       *)
Includes(conditions, branch) ==
  \A c \in conditions :
    /\ \E p \in c.include : RefNameMatches(p, branch)
    /\ \A p \in c.exclude : ~RefNameMatches(p, branch)

(* active_branch_rulesets_for_default_branch                               *)
ActiveFor(rulesets, branch) ==
  {r \in rulesets : r.target = "branch" /\ r.active /\ Includes(r.conditions, branch)}

(* classify_bypass_actor, admin_bypass_problem: a forbidden actor weighs   *)
(* more than an unknown one.                                               *)
BypassProblem(rulesets) ==
  LET actors == UNION {r.bypass : r \in rulesets}
  IN  IF actors \cap {"OrganizationAdmin", "RepositoryRole"} # {} THEN "forbidden"
      ELSE IF actors \ {"Team", "Integration", "DeployKey"} # {} THEN "unrecognised"
      ELSE "none"

-----------------------------------------------------------------------------
(* Superseded?                                                             *)

IsOn(legacy, flag) == legacy.flags[flag] = On

IsEmpty(legacy) ==
  /\ legacy.checks = None /\ legacy.reviews = None /\ legacy.restrictions = None
  /\ \A flag \in Flags : legacy.flags[flag] = None

PullRules(rulesets) == UNION {r.pull : r \in rulesets}
HasKind(rulesets, kind) == \E r \in rulesets : kind \in r.kinds
Demanded(rulesets, demand) == \E p \in PullRules(rulesets) : demand \in p.demands

AllContexts(checks) == checks.contexts \cup checks.checks

(* check_required_status_checks                                            *)
CoversChecks(legacy, rulesets) ==
  \A wanted \in legacy.checks :
    LET rules == UNION {r.checks : r \in rulesets}
    IN  /\ AllContexts(wanted) \subseteq UNION {rule.contexts : rule \in rules}
        /\ wanted.strict => \E rule \in rules :
             rule.strict /\ AllContexts(wanted) \subseteq rule.contexts

(* check_pull_request_reviews: no count is a count of zero.                *)
CoversReviews(legacy, rulesets) ==
  \A wanted \in legacy.reviews :
    /\ PullRules(rulesets) # {} /\ ~wanted.bypass
    /\ wanted.count = 0 \/ \E p \in PullRules(rulesets) : p.count >= wanted.count
    /\ \A d \in wanted.demands : Demanded(rulesets, d)

(* legacy_protection_superseded_by_rulesets: force pushes and deletions    *)
(* are forbidden unless allowed.                                           *)
SupersededBy(legacy, all, branch) ==
  LET rulesets == ActiveFor(all, branch)
      present(flag, kind) == IsOn(legacy, flag) => HasKind(rulesets, kind)
  IN  /\ ~IsEmpty(legacy)
      /\ CoversChecks(legacy, rulesets)
      /\ CoversReviews(legacy, rulesets)
      /\ present("required_linear_history", "required_linear_history")
      /\ IsOn(legacy, "allow_force_pushes") \/ HasKind(rulesets, "non_fast_forward")
      /\ IsOn(legacy, "allow_deletions") \/ HasKind(rulesets, "deletion")
      /\ present("required_signatures", "required_signatures")
      /\ present("block_creations", "creation")
      /\ IsOn(legacy, "required_conversation_resolution") => Demanded(rulesets, "threads")
      /\ IsOn(legacy, "enforce_admins") => BypassProblem(rulesets) = "none"
      /\ \A r \in legacy.restrictions : r = {}
      /\ ~IsOn(legacy, "lock_branch")

-----------------------------------------------------------------------------
(* What GitHub lets through.  An attempt is made by a writer or an admin,  *)
(* who are in no team that may bypass rulesets, and either does one thing  *)
(* to the branch or merges a pull request in a given state into it.  A     *)
(* review from before the last push counts unless it is dismissed.         *)

Allows(rule, a, dismissed) ==
  /\ a.fresh + (IF dismissed THEN 0 ELSE a.stale) >= rule.count
  /\ "code_owner" \in rule.demands => a.owner
  /\ "last_push" \in rule.demands => a.fresh > 0
  /\ "threads" \in rule.demands => a.resolved

(* Commits get to the branch by a push, or with a pull request.            *)
LegacyAllowsCommits(legacy, a) ==
  /\ IsOn(legacy, "required_linear_history") => a.linear
  /\ IsOn(legacy, "required_signatures") => a.signed
  /\ \A c \in legacy.checks :
       AllContexts(c) \subseteq a.passed /\ (c.strict /\ AllContexts(c) # {} => a.current)
  /\ IF a.does = "push" THEN legacy.reviews = None
     ELSE /\ IsOn(legacy, "required_conversation_resolution") => a.resolved
          /\ \A r \in legacy.reviews : Allows(r, a, "dismiss_stale" \in r.demands)

(* Push restrictions, even those that list nobody, leave the admins.       *)
LegacyAllows(legacy, a) ==
  /\ ~IsOn(legacy, "lock_branch")
  /\ \/ a.admin /\ ~IsOn(legacy, "enforce_admins")
     \/ /\ legacy.restrictions = None \/ a.admin
        /\ CASE a.does = "force push" -> IsOn(legacy, "allow_force_pushes")
             [] a.does = "delete" -> IsOn(legacy, "allow_deletions")
             [] a.does = "create" -> ~IsOn(legacy, "block_creations")
             [] OTHER -> LegacyAllowsCommits(legacy, a)

(* An admin is whom rulesets exempt as organization admin or by role, and  *)
(* perhaps by a kind of actor that the tool does not know.                 *)
Bound(r, a) ==
  ~(a.admin /\ r.bypass \cap {"OrganizationAdmin", "RepositoryRole", "new kind"} # {})

RulesetAllows(r, a, dismissed) ==
  CASE a.does = "force push" -> "non_fast_forward" \notin r.kinds
    [] a.does = "delete" -> "deletion" \notin r.kinds
    [] a.does = "create" -> "creation" \notin r.kinds
    [] OTHER ->
         /\ "required_linear_history" \in r.kinds => a.linear
         /\ "required_signatures" \in r.kinds => a.signed
         /\ \A c \in r.checks :
              c.contexts \subseteq a.passed /\ (c.strict /\ c.contexts # {} => a.current)
         /\ IF a.does = "push" THEN r.pull = {}
            ELSE \A p \in r.pull : Allows(p, a, dismissed)

GitHubApplies(r, branch) ==
  /\ r.target = "branch" /\ r.active
  /\ \A c \in r.conditions :
       LET full == Heads \o branch
           hits(p) == p \in {<<"~DEFAULT_BRANCH">>, <<"~ALL">>} \/ DocumentedMatch(p, full)
       IN  (\E p \in c.include : hits(p)) /\ \A p \in c.exclude : ~hits(p)

RulesetsAllow(applying, a) ==
  LET bound == {r \in applying : Bound(r, a)}
  IN  \A r \in bound : RulesetAllows(r, a, Demanded(bound, "dismiss_stale"))

Attempts(contexts) ==
  LET by(acts, flag, fresh, stale, passed) ==
        [does : acts, admin : BOOLEAN, linear : flag, signed : flag, fresh : fresh,
         stale : stale, owner : flag, resolved : flag, passed : passed, current : flag]
  IN  by({"merge"}, BOOLEAN, 0..1, 0..2, SUBSET contexts)
      \cup by({"push", "force push", "delete", "create"}, {TRUE}, {0}, {0}, {contexts})
=============================================================================
