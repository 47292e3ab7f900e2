SPECIFICATION FairSpec
CONSTANTS
  Total = 3
  Internal = 1
  MaxNodes = 3
  f1 = f1
  s1 = s1
  Files <- OneFile
  Streams <- OneStream
  MaxFiles = 4
  MaxSize = 1
  MaxCount = 1
  SegSize = 3
  FirstRoom = 1
  Clock <- MCClock
  Programs <- MCPrograms
INVARIANTS TypeOK ViewAgrees TextShown
PROPERTIES CallReturns
CHECK_DEADLOCK FALSE
