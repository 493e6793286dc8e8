CONSTANTS
  p1 = p1
  p2 = p2
  p3 = p3
  p4 = p4
  Procs = {p1, p2}
  None = None
  MaxCalls = 3
  MaxCrashes = 0
  Slow = FALSE
SPECIFICATION Spec
SYMMETRY Alike
INVARIANT NotLeftHeld
CHECK_DEADLOCK FALSE
