CONSTANTS
  Absent = Absent
  FullCountReuse = 1
  FullReproject = 2
  MaxClock = 1
  MaxRows = 3
  MaxCorrections = 0
  MaxPrunes = 1
  MaxIntrusions = 1
  Ages = {FALSE, TRUE}
SPECIFICATION CacheSpec
INVARIANTS CompleteIsComplete
CHECK_DEADLOCK FALSE
