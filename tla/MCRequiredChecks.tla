-------------------------- MODULE MCRequiredChecks --------------------------
(* Workflows for TLC: every kind of trigger with a gate that is right, and *)
(* every kind of gate with a few triggers.                                 *)
EXTENDS RequiredChecks

Letters == <<"m", "d", "r", "s", "t", "/", "*">>

GoodGate ==
  [others |-> {"build"}, needs |-> {"build"}, key |-> Aggregator, name |-> "absent",
   matrix |-> FALSE, condition |-> "always()", step |-> "whole"]

Shape(trigger, gate) ==
  [others |-> gate.others, needs |-> gate.needs, key |-> gate.key, name |-> gate.name,
   matrix |-> gate.matrix, condition |-> gate.condition, step |-> gate.step, pull |-> trigger]

Gates ==
  [others : {{"build", "test"}}, needs : SUBSET {"build", "test"},
   key : {Aggregator, "gate"}, name : {"absent", "aggregator", "other", "expression"},
   matrix : BOOLEAN, condition : {"absent", "always()", "true"},
   step : DOMAIN NeedsContexts]

FewPulls ==
  {[AnyPull EXCEPT !.form = "list"], [AnyPull EXCEPT !.form = "target"],
   [AnyPull EXCEPT !.key = "branches", !.patterns = {<<"m">>}]}

SomePulls ==
  {p \in Pulls :
     /\ p.paths => ~p.ignore
     /\ p.types \in {{}, DefaultTypes, DefaultTypes \cup {"labeled"},
                     {"opened", "reopened"}, {"labeled", "closed"}}}

Shapes == {Shape(p, GoodGate) : p \in SomePulls} \cup {Shape(p, g) : p \in FewPulls, g \in Gates}

GoodShapes == {Shape(p, GoodGate) : p \in FewPulls}
=============================================================================
