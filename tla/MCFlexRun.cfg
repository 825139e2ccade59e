SPECIFICATION Spec
CONSTANTS
  Connections = {1, 2}
  Absent = Absent
  NoReason = NoReason
  Reasons = {err}
  DegradedThreshold = 2
  MaxFailures = 3
  CronRuns = {cron}
  ManualRuns = {manual}
  NoRun = NoRun
  MaxRuns = 2
  MaxRequests = 3
INVARIANTS
  TypeOK
  HealthIsWitnessed
  RunAccountsForAll
PROPERTIES
  ImplementsW4
  ReauthSurvivesTransient
  CronLetsGo
CHECK_DEADLOCK FALSE
