\* One personal token, whose limit other programs spend too.
CONSTANTS
  repo1 = repo1
  repo2 = repo2
  owner1 = owner1
  owner2 = owner2
  Repos <- OneRepo
  Installations <- OneOwner
  InstallationOf <- ByOneOwner
  App = FALSE
  Elsewhere = TRUE
  Buffer = 2
  MaxRetries = 2
  Margin = 1
  CallTime = 1
  Life = 3
  Limit = 4
  Window = 3
SPECIFICATION Spec
INVARIANTS
  RefusedOnlyUnawares
  SentAtMost
