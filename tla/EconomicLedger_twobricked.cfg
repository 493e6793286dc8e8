CONSTANTS
  Periods <- Single
  Occurred = {0}
  Recorded = {1, 2, 3}
  MaxRows = 6
  MaxEntries = 2
  MaxAuthored = 0
  MaxRaw = 1
SPECIFICATION Spec
INVARIANT BrickedIsRecoverable
CHECK_DEADLOCK FALSE
