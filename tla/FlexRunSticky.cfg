SPECIFICATION Spec
CONSTANTS
  Connections = {1}
  Absent = Absent
  NoReason = NoReason
  Reasons = {err}
  DegradedThreshold = 2
  MaxFailures = 3
  CronRuns = {cron}
  ManualRuns = {manual}
  NoRun = NoRun
  MaxRuns = 2
  MaxRequests = 2
PROPERTIES
  DisabledIsSticky
CHECK_DEADLOCK FALSE
