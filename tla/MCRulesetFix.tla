---------------------------- MODULE MCRulesetFix ----------------------------
(* Constants for model checking RulesetFix: a handful of rulesets that     *)
(* differ where the rules look, two of them at a time.                     *)
EXTENDS RulesetFix, TLC

CONSTANTS s1, s2, complete, ci

IdSymmetry == Permutations({s1, s2})

Checks(forComplete, forCi) ==
  [c \in {complete, ci} |-> IF c = complete THEN forComplete ELSE forCi]

(* A ruleset by its parts                                                  *)
Make(kinds, methods, checks, strict) ==
  [covers |-> TRUE,
   kinds |-> kinds \cup (IF methods # {} THEN {"pull_request"} ELSE {})
               \cup (IF strict \/ \E c \in {complete, ci} : checks[c] # "none"
                       THEN {"required_status_checks"} ELSE {}),
   methods |-> methods, checks |-> checks, strict |-> strict]

FewRulesets ==
  {Make({}, {}, Checks("none", "none"), FALSE),
   Make(Plain, {}, Checks("none", "any"), FALSE),
   Make(Plain, {"merge"}, Checks("none", "any"), TRUE),
   Make({"deletion"}, {"squash"}, Checks("any", "none"), TRUE),
   Make(Plain, {"merge", "squash"}, Checks("other", "any"), FALSE),
   Make({"merge_queue"}, {}, Checks("none", "none"), TRUE),
   [Make(Plain, {}, Checks("actions", "any"), TRUE) EXCEPT !.covers = FALSE],
   Make(Plain, {"squash"}, Checks("actions", "any"), TRUE)}

FewLegacy ==
  {[empty |-> FALSE, contexts |-> {ci}, app |-> FALSE, strict |-> TRUE,
    kinds |-> {"non_fast_forward", "deletion"}, lock |-> FALSE],
   [empty |-> FALSE, contexts |-> {complete, ci}, app |-> TRUE, strict |-> FALSE,
    kinds |-> Plain, lock |-> FALSE],
   [empty |-> FALSE, contexts |-> {}, app |-> FALSE, strict |-> FALSE,
    kinds |-> {"non_fast_forward"}, lock |-> TRUE],
   [empty |-> TRUE, contexts |-> {}, app |-> FALSE, strict |-> FALSE,
    kinds |-> {}, lock |-> FALSE]}

FewSettings == {{"squash"}, {"merge", "rebase"}}
AllReported == {{ci}, {complete, ci}}
Everything        == {Rules}
WithCreationOrNot == {Rules, Rules \ {"RS001"}}
=============================================================================
