CONSTANTS
  Periods <- InTurn
  Occurred = {0, 1}
  Recorded = {1, 2, 3}
  MaxRows = 6
  MaxEntries = 2
  MaxAuthored = 1
  MaxRaw = 1
SPECIFICATION Spec
INVARIANT EveryCloseStands
INVARIANT LastControlDecides
INVARIANT LateEvidenceAfterReopen
CHECK_DEADLOCK FALSE
