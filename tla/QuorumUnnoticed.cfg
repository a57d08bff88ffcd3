SPECIFICATION FairSpec
CONSTANTS
  Proposals = {p1}
  NoProposal = NoProposal
  Members = {m1, m2}
  Threshold = 2
  SafeReportsFailure = FALSE
  IndexerRuns = TRUE
  MaxAttempts = 1
  MaxQueued = 1
  MaxSends = 1
  MaxCrashes = 0
  MaxLosses = 0
PROPERTIES QuorumIsNoticed
CHECK_DEADLOCK FALSE
