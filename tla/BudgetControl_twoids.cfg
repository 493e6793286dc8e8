CONSTANTS
  c1 = c1
  c2 = c2
  e1 = e1
  e2 = e2
  Controllers = {c1}
  Editors = {}
  Policies <- TwoIds
  Caps = {1, 2, 3}
  StepScale = 2
  None = None
  MaxRuns = 5
  MaxEdits = 0
  MaxFaults = 0
SPECIFICATION Spec
INVARIANT NeverRearmed
CHECK_DEADLOCK FALSE
