SPECIFICATION RecordsSpec
CONSTANTS
  o1 = o1
  o2 = o2
  p1 = p1
  p2 = p2
  c1 = c1
  c2 = c2
  c3 = c3
  i1 = i1
  k1 = k1
  k2 = k2
  k3 = k3
  k4 = k4
  k5 = k5
  k6 = k6
  d1 = d1
  d2 = d2
  d3 = d3
  d4 = d4
  d5 = d5
  d6 = d6
  y = y
  none = none
  dash = dash
  q1 = q1
  q2 = q2
  x1 = x1
  x2 = x2
  Orgs = {o1, o2}
  Processes = {p1, p2}
  Docs = {d1, d2, d3, d4, d5, d6}
  Content <- MCContent
  YearOf <- MCYearOf
  SealedDocs = {d2}
  Shadow = {9}
  None = none
  Placeholder = dash
  MaxIngests = 3
  Runs = {r1, r2}
  PageLimit = 2
  MaxRows = 3
  MaxVersion = 2
  MaxRuns = 3
  Requests = {q1, q2}
  Accounts = {x1, x2}
  Shares = {half, full}
  Terms <- MCTerms
  LastDay = 3
  MaxGrants = 1
  MaxRequests = 3
SYMMETRY Symmetry
INVARIANTS
  RecordsTypeOK
  OneInstrument
  NoRowLost
  SortedNeverDeadlocks
  RatesFollowSource
PROPERTIES
  FactsStand
  SiblingsLogged
  HistoryStands
CHECK_DEADLOCK FALSE
