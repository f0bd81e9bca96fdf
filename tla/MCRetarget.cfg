\* The base of an open pull request is changed to the default branch.
SPECIFICATION FairSpec
CONSTANTS
  NoText = NoText
  Shas = {"sha"}
  Aggregator = "all-required-checks-complete"
  ExpressionTexts = {"${{ github.workflow }} gate"}
  Alphabet <- Letters
  SomeShapes <- GoodShapes
  MaxEvents = 2
PROPERTY RequiredIsReportedAnyway
CHECK_DEADLOCK FALSE
