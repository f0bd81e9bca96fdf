\* An App with a token and a limit for each of two owners' repositories.
CONSTANTS
  repo1 = repo1
  repo2 = repo2
  owner1 = owner1
  owner2 = owner2
  Repos <- TwoRepos
  Installations <- TwoOwners
  InstallationOf <- ByTwoOwners
  App = TRUE
  Elsewhere = FALSE
  Buffer = 1
  MaxRetries = 1
  Margin = 2
  CallTime = 1
  Life = 4
  Limit = 3
  Window = 2
SPECIFICATION LiveSpec
INVARIANTS
  TypeOK
  TokensFresh
  BearerFits
PROPERTY
  RequestsEnd
