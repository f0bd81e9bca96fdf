\* Pull requests opened against either branch, and perhaps retargeted: what has
\* to be reported is asked of a head commit whose base is the one it last had
\* runs triggered for.
SPECIFICATION FairSpec
CONSTANTS
  NoText = NoText
  Shas = {"sha"}
  Aggregator = "all-required-checks-complete"
  ExpressionTexts = {"${{ github.workflow }} gate"}
  Alphabet <- Letters
  SomeShapes <- Shapes
  MaxEvents = 2
INVARIANT VerdictsTrue
PROPERTY GateHolds RequiredIsReported
CHECK_DEADLOCK FALSE
