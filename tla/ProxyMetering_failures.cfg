CONSTANTS
  r1 = r1
  r2 = r2
  r3 = r3
  i1 = i1
  s1 = s1
  Requests = {r1, r2}
  Imports = {i1}
  Sessions = {s1}
  SessionOf <- Sessioned
  NoSession = NoSession
  None = None
  Unset = Unset
  Costs = {0, 1, 2}
  Pricings <- AllPricings
  Configs <- AnyBudget
  Midnights <- ShortDay
  DayMs = 2
  WindowMs = 1
  MaxTime = 1
  MaxFaults = 2
  MaxEdits = 1
  MaxRestarts = 1
SPECIFICATION Spec
SYMMETRY Alike
INVARIANTS AdmittedOnCompleteBooks OvershootOnlyInFlight
CHECK_DEADLOCK FALSE
