CONSTANTS
  c1 = c1
  c2 = c2
  e1 = e1
  e2 = e2
  Controllers = {c1}
  Editors = {e1}
  Policies <- OnePolicy
  Caps = {1, 2, 3}
  StepScale = 2
  None = None
  MaxRuns = 2
  MaxEdits = 1
  MaxFaults = 1
SPECIFICATION Spec
INVARIANT RecoveryProves
CHECK_DEADLOCK FALSE
