CONSTANTS
  Absent = Absent
  FullCountReuse = 1
  FullReproject = 2
  MaxClock = 2
  MaxRows = 2
  MaxCorrections = 1
  MaxPrunes = 1
  MaxIntrusions = 1
  Ages = {FALSE, TRUE}
SPECIFICATION CacheSpec
INVARIANTS UndisturbedIsFull NeverShort
CHECK_DEADLOCK FALSE
