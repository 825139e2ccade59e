SPECIFICATION Spec
CONSTANTS
  Kinds = {"trm", "flex", "both"}
  Cooldown = 1
  OldAge = 1
  MaxTime = 4
  MaxJobs = 2
INVARIANTS
  TypeOK
  PrefixShown
  NothingDropped
  GreenUnlessLate
PROPERTIES
  StreamEnds
CHECK_DEADLOCK FALSE
