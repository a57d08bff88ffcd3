SPECIFICATION Spec
CONSTANTS
  Nobody = Nobody
  Admin = Admin
  MaxTime = 2
  AdminScope = {p1, r1, s1, i1, c1, m1}
  SystemGrants <- TestGrants
  Vehicles = {v1, v2}
  Users = {u1}
  CodeAccounts = {}
  Dealers = {dl1}
  RTOs = {r1}
  MaxTokens = 2
  MaxXfers = 1
  XferWindow = 1
  MaxTradeCert = 1
  Mfgs = {m1}
  ScrapCentres = {s1}
  BankWallets = {}
  MaxBanks = 1
  MaxLoans = 1
  PoliceStations = {p1, p2}
  Amounts = {1, 2}
  MaxChallans = 2
  Insurers = {i1, i2}
  MaxPolicies = 3
  MaxPolicyDuration = 2
  MaxClaims = 1
  Centres = {c1}
  MaxCerts = 2
SYMMETRY Symmetry
CONSTRAINT OneTopic
INVARIANTS CountersExact OneCurrentDocument ScrappedIsClean
CHECK_DEADLOCK FALSE
