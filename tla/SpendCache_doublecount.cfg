CONSTANTS
  Absent = Absent
  FullCountReuse = 1
  FullReproject = 2
  MaxClock = 0
  MaxRows = 2
  MaxCorrections = 0
  MaxPrunes = 0
  MaxIntrusions = 1
  Ages = {FALSE}
SPECIFICATION CacheSpec
INVARIANTS ProjectionIsFull
CHECK_DEADLOCK FALSE
