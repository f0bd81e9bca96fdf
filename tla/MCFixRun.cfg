\* Runs one after another, with one fault of any kind and one edit.
CONSTANTS
  mends = mends
  rejects = rejects
  proposes = proposes
  N = 2
  Rules <- TheRules
  Fixable <- TheFixable
  Proposing <- TheProposing
  Rejecting <- TheRejecting
  Disabled <- TheDisabled
  FaultKinds = {"config", "read", "refused", "lost", "write", "push", "kill"}
  MaxFaults = 1
  MaxEdits = 1
SPECIFICATION Spec
INVARIANTS
  TypeOK
  SeenBeforeMended
  ReportIsFresh
  EveryFixTried
  ZeroMeansFixed
  SavedIsReported
