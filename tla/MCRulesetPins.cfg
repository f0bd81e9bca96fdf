\* Legacy checks pinned to an app, no faults, nobody else.
SPECIFICATION Spec
CONSTANTS
  s1 = s1
  s2 = s2
  complete = complete
  ci = ci
  Ids = {s1, s2}
  Contexts = {complete, ci}
  Complete = complete
  NoRuleset = NoRuleset
  NoLegacy = NoLegacy
  SomeEnabled <- Everything
  SomeRulesets <- FewRulesets
  SomeLegacy <- FewLegacy
  SomeSettings <- FewSettings
  SomeForks = {"some", "hidden"}
  SomeReported <- AllReported
  FaultKinds <- AllFaults
  MaxFaults = 0
  MaxEdits = 0
SYMMETRY IdSymmetry
PROPERTY PinnedChecksKept
