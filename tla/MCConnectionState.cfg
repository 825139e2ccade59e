SPECIFICATION Spec
CONSTANTS
  Connections = {c1, c2}
  Absent = Absent
  NoReason = NoReason
  Reasons = {badToken, busy}
  DegradedThreshold = 2
  MaxFailures = 4
INVARIANTS
  TypeOK
  ThresholdInv
  HealthInv
PROPERTIES
  DisabledIsSticky
  ReauthNotMasked
CHECK_DEADLOCK TRUE
