SPECIFICATION FairSpec
CONSTANTS
  MaxTxs = 2
  MaxCrashes = 1
  MaxLosses = 1
  MaxFines = 1
  MaxRows = 1
  MaxOrders = 1
  MaxLoanIds = 1
  MaxLoanRows = 2
  MaxBankIds = 1
  NumContracts = 1
  EventsPerBlock = 1
  MaxBlocks = 3
  ChunkSize = 1
  FirstWindow = 2
  MaxBreaks = 1
  MaxStops = 1
  MaxErrors = 1
  MaxSessions = 2
  Calls = {q1, q2}
  Resets = {r1}
  Members = {m1, m2}
  Tabs = {b1, b2}
  MaxMessages = 1
  Entities = {e1, e2}
  KindOf <- TestKinds
  Requests = {a1, a2}
  MaxProposals = 2
  MaxMissed = 2
  Connections = {k1, k2}
  Signals = {s1, s2}
CONSTRAINT Faults
INVARIANTS TypeOK CaughtUp ResetEndsSessions NoGhostTabs OnChainIdRight DatabaseOutlivesWork
PROPERTIES MissedIsReplayed RestartCatchesUp CallsSettle RegistrationBackFilled ShutdownEnds
CHECK_DEADLOCK FALSE
