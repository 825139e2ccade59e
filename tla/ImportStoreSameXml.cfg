SPECIFICATION Spec
CONSTANTS
  u1 = u1
  u2 = u2
  f = f
  a = a
  b = b
  c = c
  bad = bad
  k1 = k1
  k2 = k2
  v1 = v1
  v2 = v2
  y = y
  Uploads = {u1, u2}
  Fetches = {f}
  Docs = {a, b, c, bad}
  Bad = {bad}
  SealedDocs = {c}
  Years = {y}
  YearOf <- MCYearOf
  Keys = {k1, k2}
  Values = {v1, v2}
  NoValue = NoValue
  RowOf <- MCRowOf
  NoDoc = NoDoc
  MaxIngests = 3
INVARIANTS
  SecondGetsExistingId
CHECK_DEADLOCK FALSE
