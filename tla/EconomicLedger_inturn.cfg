CONSTANTS
  Periods <- InTurn
  Occurred = {0}
  Recorded = {1, 2}
  MaxRows = 4
  MaxEntries = 1
  MaxAuthored = 0
  MaxRaw = 0
SPECIFICATION Spec
INVARIANT OpenPeriodCloses
CHECK_DEADLOCK FALSE
