CONSTANTS
  p1 = p1
  p2 = p2
  p3 = p3
  p4 = p4
  Procs = {p1, p2}
  None = None
  MaxCalls = 4
  MaxCrashes = 1
  Slow = TRUE
SPECIFICATION FairSpec
PROPERTY SurvivorAcquires
CHECK_DEADLOCK FALSE
