\* One invocation at a time of the workflow-pinning fix, two workflow files.
\* A file may become one no preparation accepts (3) or no plan does (4).
SPECIFICATION FairSpec
CONSTANTS
  f1 = f1
  f2 = f2
  r1 = r1
  r2 = r2
  Runs = {r1}
  Files = {f1, f2}
  MaxBlob = 4
  Rejected = {4}
  Refusing = {3}
  Kind = "pin"
  FaultKinds <- DefiniteOrLost
  MaxFaults = 3
  OutsideKinds <- UsualOutside
  MaxOutside = 3
  NoBranch = NoBranch
INVARIANT TypeOK NoHalfFix
PROPERTY ToolKeepsPullRequests AppliedMeansOpen ProposalSpec EventuallyProposed
\* Nothing to do once everything is fixed.
CHECK_DEADLOCK FALSE
