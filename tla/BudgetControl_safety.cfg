CONSTANTS
  c1 = c1
  c2 = c2
  e1 = e1
  e2 = e2
  Controllers = {c1}
  Editors = {e1}
  Policies <- TwoVersionsTwoIds
  Caps = {1, 2, 3}
  StepScale = 2
  None = None
  MaxRuns = 4
  MaxEdits = 1
  MaxFaults = 2
SPECIFICATION Spec
INVARIANTS EverySaveAccounted AuditExplainsCap EveryRevisionAudited RecoveryProvesAlone RearmedOnlyByHandover
PROPERTY NoLostUpdate
CHECK_DEADLOCK FALSE
