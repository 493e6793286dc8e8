CONSTANTS
  Periods <- InTurn
  Occurred = {0}
  Recorded = {1, 2, 3}
  MaxRows = 4
  MaxEntries = 1
  MaxAuthored = 0
  MaxRaw = 0
SPECIFICATION Spec
INVARIANT NeighboursKeepCloses
CHECK_DEADLOCK FALSE
