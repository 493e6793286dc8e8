CONSTANTS
  p1 = p1
  p2 = p2
  p3 = p3
  p4 = p4
  Procs = {p1, p2, p3}
  None = None
  MaxCalls = 3
  MaxCrashes = 2
  Slow = TRUE
SPECIFICATION FairSpec
PROPERTY SurvivorAcquires
CHECK_DEADLOCK FALSE
