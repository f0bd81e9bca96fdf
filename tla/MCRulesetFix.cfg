\* The whole catalog, with RS001 or without, one call of any kind failing or lost,
\* or a crash, and one change by an administrator between two invocations.
SPECIFICATION FairSpec
CONSTANTS
  s1 = s1
  s2 = s2
  complete = complete
  ci = ci
  Ids = {s1, s2}
  Contexts = {complete, ci}
  Complete = complete
  NoRuleset = NoRuleset
  NoLegacy = NoLegacy
  SomeEnabled <- WithCreationOrNot
  SomeRulesets <- FewRulesets
  SomeLegacy <- FewLegacy
  SomeSettings <- FewSettings
  SomeForks = {"some"}
  SomeReported <- AllReported
  FaultKinds <- AllFaults
  MaxFaults = 1
  MaxEdits = 1
INVARIANT TypeOK AppliedRulePasses NoRegression StaysMergeable
PROPERTY ProtectionKept NeverBlocksMerges CreatesOnlyWhenUncovered FixesConverge
