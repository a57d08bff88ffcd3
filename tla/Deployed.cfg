SPECIFICATION Spec
CONSTANTS
  Nobody = Nobody
  Admin = Admin
  MaxTime = 0
  AdminScope = {}
  SystemGrants <- DeployGrants
  Vehicles = {v1}
  Users = {u1, u2}
  CodeAccounts = {}
  Dealers = {dl1}
  RTOs = {r1}
  MaxTokens = 1
  MaxXfers = 1
  XferWindow = 1
  MaxTradeCert = 1
  Mfgs = {m1}
  ScrapCentres = {s1}
  BankWallets = {w1}
  MaxBanks = 1
  MaxLoans = 1
  PoliceStations = {}
  Amounts = {1}
  MaxChallans = 1
  Insurers = {i1}
  MaxPolicies = 1
  MaxPolicyDuration = 2
  MaxClaims = 1
  Centres = {c1}
  MaxCerts = 1
SYMMETRY Symmetry
INVARIANTS UsedCarLoanAttaches
CHECK_DEADLOCK FALSE
