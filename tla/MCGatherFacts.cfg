\* Others make up to two changes while the facts of a repository are gathered.
SPECIFICATION Spec
CONSTANTS
  Repositories <- SomeRepositories
  PageSize = 1
  MaxId = 4
  Branches = {"main", "dev"}
  Paths <- SomePaths
  MaxEdits = 2
INVARIANT VerdictsWereTrue NoRulesetMissed WorkflowsAreFiles
CHECK_DEADLOCK FALSE
