SPECIFICATION Spec
CONSTANTS
  MaxTxs = 3
  MaxCrashes = 1
  MaxLosses = 1
  MaxFines = 1
  MaxRows = 2
  MaxOrders = 1
  MaxLoanIds = 2
  MaxLoanRows = 3
  MaxBankIds = 1
  MaxDocs = 2
  MaxDocRows = 2
  ClaimCap = 1
  MaxOwners = 2
  MaxTransfers = 1
  MaxIssues = 2
  MaxWrites = 2
  Accounts = {u1, u2}
  Nobody = nobody
  Windows = {w1, w2}
  MaxNonces = 2
  MaxOpened = 3
CONSTRAINT Faults
INVARIANTS TypeOK FinesMatchChain LoansMatchChain DocumentsMatchChain ClaimsNotAhead TitleNotAhead CertNotAhead OwnChangesAppear SessionsRestOnSignatures
PROPERTIES PaymentKept
CHECK_DEADLOCK FALSE
