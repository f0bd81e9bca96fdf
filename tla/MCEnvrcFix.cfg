\* The fix that adds .envrc, with faults and other people of every kind.
SPECIFICATION FairSpec
CONSTANTS
  f1 = f1
  f2 = f2
  r1 = r1
  r2 = r2
  Runs = {r1}
  Files = {f1}
  MaxBlob = 1
  Rejected = {}
  Refusing = {}
  Kind = "envrc"
  FaultKinds <- AllFaults
  MaxFaults = 3
  OutsideKinds <- AllOutside
  MaxOutside = 3
  NoBranch = NoBranch
PROPERTY EventuallyProposed
\* Nothing to do once everything is fixed.
CHECK_DEADLOCK FALSE
