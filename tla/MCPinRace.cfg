\* Two invocations at once, no faults and nobody else.
SPECIFICATION Spec
CONSTANTS
  f1 = f1
  f2 = f2
  r1 = r1
  r2 = r2
  Runs = {r1, r2}
  Files = {f1, f2}
  MaxBlob = 1
  Rejected = {}
  Refusing = {}
  Kind = "pin"
  FaultKinds <- DefiniteOrLost
  MaxFaults = 0
  OutsideKinds <- UsualOutside
  MaxOutside = 0
  NoBranch = NoBranch
SYMMETRY FileSymmetry
PROPERTY ToolKeepsPullRequests
\* Nothing to do once everything is fixed.
CHECK_DEADLOCK FALSE
