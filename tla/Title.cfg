SPECIFICATION Spec
CONSTANTS
  Nobody = Nobody
  Admin = Admin
  MaxTime = 2
  AdminScope = {}
  SystemGrants <- TestGrants
  Vehicles = {v1, v2}
  Users = {u1, u2}
  CodeAccounts = {}
  Dealers = {dl1}
  RTOs = {r1}
  MaxTokens = 2
  MaxXfers = 2
  XferWindow = 1
  MaxTradeCert = 1
  Mfgs = {m1}
  ScrapCentres = {s1}
  BankWallets = {w1}
  MaxBanks = 1
  MaxLoans = 1
  PoliceStations = {p1}
  Amounts = {1}
  MaxChallans = 1
  Insurers = {i1}
  MaxPolicies = 1
  MaxPolicyDuration = 2
  MaxClaims = 0
  Centres = {c1}
  MaxCerts = 1
SYMMETRY Symmetry
CONSTRAINT VehicleOrMoment
INVARIANTS TypeOK LoanFollowsTitle TitleConsistent TransferCurrent
PROPERTIES ImplementsLedger
CHECK_DEADLOCK FALSE
