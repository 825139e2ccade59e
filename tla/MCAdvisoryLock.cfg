SPECIFICATION Spec
CONSTANTS
  cron = cron
  m1 = m1
  m2 = m2
  q1 = q1
  q2 = q2
  own = own
  shared = shared
  s0 = s0
  s1 = s1
  s2 = s2
  flex = flex
  Runs = {cron, m1, m2}
  Crons = {cron}
  Requests = {q1, q2}
  Engines = {own, shared}
  Sessions = {s0, s1, s2}
  EngineOf <- MCEngineOf
  HomeOf <- MCHomeOf
  Keys = {flex}
  KeyOf <- MCKeyOf
  PoolSize = 1
  NoSession = NoSession
  MaxCommits = 2
  MaxStarts = 4
INVARIANTS
  TypeOK
  CountCovers
  CronAlone
  CronLeavesNothing
PROPERTIES
  RunsEnd
CHECK_DEADLOCK FALSE
