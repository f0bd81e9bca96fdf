------------------------------ MODULE Rulesets ------------------------------
(***************************************************************************)
(* The rules of one repository that --fix acts on without a pull request:  *)
(* how they are evaluated (src/rules/rulesets.rs, src/rules/settings.rs),  *)
(* what is planned for one that fails (`plan_repo_fixes`), and what the     *)
(* planned changes do to a ruleset (src/remediation.rs).  Everything here   *)
(* is a function of the facts; RulesetFix gathers them and acts on them.    *)
(*                                                                         *)
(* A check that a ruleset requires is "any" when any app may report it,    *)
(* "actions" when GitHub Actions must, "other" when another app must.      *)
(***************************************************************************)
EXTENDS FiniteSets

CONSTANTS
  Ids,         (* ruleset ids                                              *)
  Contexts,    (* names of status checks                                   *)
  Complete,    (* the one RS012 wants: all-required-checks-complete        *)
  NoRuleset,   (* no ruleset has this id                                   *)
  NoLegacy     (* the branch has no legacy branch protection               *)

Kinds   == {"required_linear_history", "non_fast_forward", "deletion",
            "pull_request", "required_status_checks", "merge_queue"}
Methods == {"merge", "rebase", "squash"}
Sources == {"none", "any", "actions", "other"}
NewId   == "new"
NoCalls == {"none", "rejected", "patch", "fork", "delete"}
Plain   == {"required_linear_history", "non_fast_forward", "deletion"}

(* `covers`: active, of target branch, and its conditions match the default *)
(* branch.  `methods` belongs to its pull_request rule, `checks` and        *)
(* `strict` to its required_status_checks rule.                             *)
Ruleset ==
  [covers : BOOLEAN, kinds : SUBSET Kinds, methods : SUBSET Methods,
   checks : [Contexts -> Sources], strict : BOOLEAN]

(* `empty`: GitHub returned no field the tool knows.  `app`: each context  *)
(* is pinned to the app that reports it.                                   *)
Legacy ==
  [empty : BOOLEAN, contexts : SUBSET Contexts, app : BOOLEAN,
   strict : BOOLEAN, kinds : SUBSET Plain, lock : BOOLEAN]

ASSUME RulesetsAssumption ==
  /\ Complete \in Contexts
  /\ IsFiniteSet(Ids)
  /\ Ids \cap (NoCalls \cup {NewId}) = {}
  /\ NoRuleset \notin Ruleset
  /\ NoLegacy \notin Legacy

(* What is known of a repository: enabled merge methods, the approval      *)
(* policy for pull requests from forks ("hidden" when the token may not    *)
(* see it), rulesets, legacy protection, and the checks that a workflow    *)
(* reports on every pull request into the default branch.                  *)
Facts ==
  [settings : SUBSET Methods, fork : {"all", "some", "hidden"},
   rulesets : [Ids -> Ruleset \cup {NoRuleset}],
   legacy : Legacy \cup {NoLegacy}, reported : SUBSET Contexts]

Blank ==
  [covers |-> TRUE, kinds |-> {}, methods |-> {},
   checks |-> [c \in Contexts |-> "none"], strict |-> FALSE]

-----------------------------------------------------------------------------
(* Evaluation                                                              *)

Rules == {"RS001", "RS005", "RS006", "RS007", "RS008", "RS010", "RS011",
          "RS012", "RS013", "ST004", "ST005", "ST006", "ST007"}

KindOf == [RS005 |-> "required_linear_history", RS006 |-> "non_fast_forward",
           RS008 |-> "deletion", RS010 |-> "pull_request"]

MethodOf == [ST004 |-> "merge", ST005 |-> "rebase", ST006 |-> "squash"]

Covering(F) ==
  {i \in Ids : F.rulesets[i] # NoRuleset /\ F.rulesets[i].covers}

Requires(rs, c) == rs.checks[c] # "none"

(* Does one ruleset give what a ruleset rule asks for?                     *)
Satisfies(rs, rule) ==
  \/ rule = "RS001"
  \/ rule \in DOMAIN KindOf /\ KindOf[rule] \in rs.kinds
  \/ rule = "RS011" /\ "pull_request" \in rs.kinds /\ rs.methods = {"squash"}
  \/ rule = "RS012" /\ rs.checks[Complete] = "actions"
  \/ rule = "RS013" /\ rs.strict

Verdict(rule, F) ==
  CASE rule = "RS007" -> IF F.legacy = NoLegacy THEN "pass" ELSE "fail"
    [] rule = "ST006" -> IF "squash" \in F.settings THEN "pass" ELSE "fail"
    [] rule \in {"ST004", "ST005"} ->
         IF MethodOf[rule] \in F.settings THEN "fail" ELSE "pass"
    [] rule = "ST007" -> IF F.fork = "all" THEN "pass"
                         ELSE IF F.fork = "hidden" THEN "error" ELSE "fail"
    [] OTHER -> IF \E i \in Covering(F) : Satisfies(F.rulesets[i], rule)
                  THEN "pass" ELSE "fail"

-----------------------------------------------------------------------------
(* Planning                                                                *)

(* Mutant: the strict policy may come from a ruleset that does not require *)
(* the legacy contexts.                                                    *)
SupersededAnyStrict(legacy, F) ==
  /\ ~legacy.empty /\ ~legacy.lock
  /\ \A c \in legacy.contexts :
       \E i \in Covering(F) : Requires(F.rulesets[i], c)
  /\ legacy.strict => \E i \in Covering(F) : F.rulesets[i].strict
  /\ \A k \in legacy.kinds : \E i \in Covering(F) : k \in F.rulesets[i].kinds

(* legacy_protection_superseded_by_rulesets.  What has no equivalent among *)
(* rulesets (`lock_branch`, push restrictions) is never superseded.         *)
Superseded(legacy, F) ==
  /\ ~legacy.empty /\ ~legacy.lock
  /\ \A c \in legacy.contexts :
       \E i \in Covering(F) : Requires(F.rulesets[i], c)
  /\ legacy.strict => \E i \in Covering(F) :
                        /\ F.rulesets[i].strict
                        /\ \A c \in legacy.contexts : Requires(F.rulesets[i], c)
  /\ \A k \in legacy.kinds : \E i \in Covering(F) : k \in F.rulesets[i].kinds

(* The one ruleset a missing rule is added to; with no ruleset it goes into *)
(* the one RS001 creates, and among several the choice is left to a person. *)
Place(rule, F) ==
  LET candidates == {i \in Covering(F) : ~Satisfies(F.rulesets[i], rule)}
  IN  IF candidates = {} THEN NewId
      ELSE IF Cardinality(candidates) = 1 THEN CHOOSE i \in candidates : TRUE
      ELSE "rejected"

(* A merge queue applies to the default branch.                            *)
Queued(F) == \E i \in Covering(F) : "merge_queue" \in F.rulesets[i].kinds

(* Mutant: a check is required also where there is a merge queue.          *)
PlaceCheckInQueue(F) ==
  IF Complete \in F.reported THEN Place("RS012", F) ELSE "rejected"

(* A check is required only if every pull request reports it, and never    *)
(* where there is a merge queue.                                           *)
PlaceCheck(F) ==
  IF Complete \in F.reported /\ ~Queued(F) THEN Place("RS012", F) ELSE "rejected"

(* plan_rule_fix: the call that fixes a rule, named for what it is sent to. *)
FixOf(rule, F) ==
  IF Verdict(rule, F) # "fail" THEN "none"
  ELSE CASE rule \in {"ST004", "ST005", "ST006"} -> "patch"
         [] rule = "ST007" -> "fork"
         [] rule = "RS001" -> NewId
         [] rule = "RS006" -> "rejected"
         [] rule = "RS007" -> IF Superseded(F.legacy, F) THEN "delete" ELSE "rejected"
         [] rule = "RS012" -> PlaceCheck(F)
         [] OTHER          -> Place(rule, F)

(* Mutant: what was meant for the ruleset RS001 creates stays in the plan  *)
(* without it.                                                             *)
PlanOfUnreconciled(enabled, F) ==
  [rule \in Rules |-> IF rule \in enabled THEN FixOf(rule, F) ELSE "none"]

(* plan_repo_fixes: without RS001 in the plan there will be no ruleset to   *)
(* put anything into (reconcile_pending_default_branch_target).             *)
PlanOf(enabled, F) ==
  LET fixes == [rule \in Rules |->
                  IF rule \in enabled THEN FixOf(rule, F) ELSE "none"]
  IN  [rule \in Rules |->
         IF fixes[rule] = NewId /\ fixes["RS001"] # NewId
           THEN "rejected" ELSE fixes[rule]]

-----------------------------------------------------------------------------
(* Application                                                             *)

(* Mutants of the change to a ruleset: a fresh required_status_checks rule *)
(* replaces the one that is there; the merge methods are forgotten.        *)
UpdatedAfresh(rs, rules) ==
  [covers |-> rs.covers,
   kinds |-> rs.kinds \cup {KindOf[r] : r \in rules \cap DOMAIN KindOf}
               \cup (IF "RS011" \in rules THEN {"pull_request"} ELSE {})
               \cup (IF {"RS012", "RS013"} \cap rules # {}
                       THEN {"required_status_checks"} ELSE {}),
   methods |-> IF "RS011" \in rules THEN {"squash"} ELSE rs.methods,
   checks |-> IF "RS012" \in rules
                THEN [Blank.checks EXCEPT ![Complete] = "actions"]
                ELSE rs.checks,
   strict |-> IF "RS012" \in rules THEN "RS013" \in rules
              ELSE rs.strict \/ "RS013" \in rules]

UpdatedKeepsMethods(rs, rules) ==
  [covers |-> rs.covers,
   kinds |-> rs.kinds \cup {KindOf[r] : r \in rules \cap DOMAIN KindOf}
               \cup (IF {"RS012", "RS013"} \cap rules # {}
                       THEN {"required_status_checks"} ELSE {}),
   methods |-> rs.methods,
   checks |-> IF "RS012" \in rules
                THEN [rs.checks EXCEPT ![Complete] = "actions"] ELSE rs.checks,
   strict |-> rs.strict \/ "RS013" \in rules]

(* apply_queued_modifications for the rules whose fixes go to one ruleset. *)
Updated(rs, rules) ==
  [covers |-> rs.covers,
   kinds |-> rs.kinds \cup {KindOf[r] : r \in rules \cap DOMAIN KindOf}
               \cup (IF "RS011" \in rules THEN {"pull_request"} ELSE {})
               \cup (IF {"RS012", "RS013"} \cap rules # {}
                       THEN {"required_status_checks"} ELSE {}),
   methods |-> IF "RS011" \in rules THEN {"squash"} ELSE rs.methods,
   checks |-> IF "RS012" \in rules
                THEN [rs.checks EXCEPT ![Complete] = "actions"] ELSE rs.checks,
   strict |-> rs.strict \/ "RS013" \in rules]

(* The settings after one PATCH with the wanted value of each failing rule. *)
Patched(settings, rules) ==
  (settings \cup ({"squash"} \cap {MethodOf[r] : r \in rules \cap DOMAIN MethodOf}))
    \ ({"merge", "rebase"} \cap {MethodOf[r] : r \in rules \cap DOMAIN MethodOf})

-----------------------------------------------------------------------------
(* What GitHub enforces on the default branch, whichever way it is set.    *)

Enforces(rs) ==
  {<<"kind", k>> : k \in rs.kinds \cap Plain}
  \cup {<<"check", c>> : c \in {d \in Contexts : Requires(rs, d)}}
  \cup {<<"current", c>> : c \in {d \in Contexts : rs.strict /\ Requires(rs, d)}}

LegacyEnforces(legacy) ==
  {<<"kind", k>> : k \in legacy.kinds}
  \cup {<<"check", c>> : c \in legacy.contexts}
  \cup {<<"current", c>> : c \in {d \in legacy.contexts : legacy.strict}}
  \cup (IF legacy.lock THEN {<<"lock", Complete>>} ELSE {})

Enforced(F) ==
  (UNION {Enforces(F.rulesets[i]) : i \in Covering(F)})
  \cup (IF F.legacy = NoLegacy THEN {} ELSE LegacyEnforces(F.legacy))

(* The checks that only one app may report.                                *)
Pinned(F) ==
  {c \in Contexts :
     \/ \E i \in Covering(F) : F.rulesets[i].checks[c] \in {"actions", "other"}
     \/ F.legacy # NoLegacy /\ c \in F.legacy.contexts /\ F.legacy.app}

(* Some enabled merge method is allowed by every covering ruleset; one     *)
(* without a list of methods allows all of them.                           *)
Mergeable(F) ==
  \E m \in F.settings : \A i \in Covering(F) :
    F.rulesets[i].methods = {} \/ m \in F.rulesets[i].methods
=============================================================================
