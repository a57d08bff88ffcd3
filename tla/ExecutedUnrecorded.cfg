SPECIFICATION FairSpec
CONSTANTS
  Proposals = {p1}
  NoProposal = NoProposal
  Members = {m1}
  Threshold = 1
  SafeReportsFailure = FALSE
  IndexerRuns = TRUE
  MaxAttempts = 2
  MaxQueued = 1
  MaxSends = 2
  MaxCrashes = 0
  MaxLosses = 0
PROPERTIES ExecutedIsRecorded
CHECK_DEADLOCK FALSE
