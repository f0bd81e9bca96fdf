\* Each conversion on every input of the MC module.
SPECIFICATION Spec
CONSTANTS
  NoText = NoText
  Aggregator = "all-required-checks-complete"
  ExpressionTexts = {"${{ x }}"}
  OddTexts = {"${{ x }}", "v 1"}
  Shas = {"sha0", "sha1", "sha2"}
  Alphabet <- Letters
  SomeBranches <- Branches
  Inputs <- SomeInputs
INVARIANT FiltersAsDocumented NothingHidden SecretsNeverPass RewriteIsExact LegacyCovered ExpiryExact EveryResultStored
CHECK_DEADLOCK FALSE
