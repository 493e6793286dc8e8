CONSTANTS
  r1 = r1
  r2 = r2
  r3 = r3
  i1 = i1
  s1 = s1
  Requests = {r1, r2, r3}
  Imports = {}
  Sessions = {s1}
  SessionOf <- Sessioned
  NoSession = NoSession
  None = None
  Unset = Unset
  Costs = {1}
  Pricings <- Exact
  Configs <- DailyOnly
  Midnights <- TwoDays
  DayMs = 2
  WindowMs = 1
  MaxTime = 0
  MaxFaults = 1
  MaxEdits = 0
  MaxRestarts = 0
SPECIFICATION Spec
PROPERTIES NothingForwardedWhileLatched
CHECK_DEADLOCK FALSE
