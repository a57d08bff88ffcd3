SPECIFICATION FairSpec
CONSTANTS
  Proposals = {p1}
  NoProposal = NoProposal
  Members = {m1, m2}
  Threshold = 2
  SafeReportsFailure = TRUE
  IndexerRuns = TRUE
  MaxAttempts = 2
  MaxQueued = 1
  MaxSends = 1
  MaxCrashes = 1
  MaxLosses = 1
PROPERTIES StoredHashIsRecorded StuckIsRequeued
CHECK_DEADLOCK FALSE
