SPECIFICATION Spec
CONSTANTS
  Proposals = {p1, p2}
  NoProposal = NoProposal
  Members = {m1, m2}
  Threshold = 2
  SafeReportsFailure = FALSE
  IndexerRuns = TRUE
  MaxAttempts = 2
  MaxQueued = 1
  MaxSends = 2
  MaxCrashes = 1
  MaxLosses = 1
SYMMETRY Symmetry
CONSTRAINT FaultsStrikeOne
INVARIANTS GovernanceInv QuorumQueued RecordsMatchChain OneExecutedPerNonce
PROPERTIES ImplementsCouncil
CHECK_DEADLOCK FALSE
