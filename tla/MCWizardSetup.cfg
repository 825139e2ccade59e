SPECIFICATION Spec
CONSTANTS
  r1 = r1
  r2 = r2
  a = a
  b = b
  s = s
  bad = bad
  acc1 = acc1
  acc2 = acc2
  accF = accF
  y1 = y1
  y2 = y2
  SendAttempts = 2
  PollAttempts = 2
  FetchRounds = 2
  Requests = {r1, r2}
  Docs = {a, b, s, bad}
  Bad = {bad}
  SealedDocs = {s}
  YearOf <- MCYearOf
  Accounts = {acc1, acc2, accF}
  Shadow = {accF}
  AccountsOf <- MCAccountsOf
  MaxConnections = 2
  MaxUploads = 2
  MaxRequests = 5
  StatementOf <- MCStatementOf
  Poisonable = {b}
INVARIANTS
  TypeOK
PROPERTIES
  ImportedAreConfigured
  OkMeansImported
CHECK_DEADLOCK FALSE
