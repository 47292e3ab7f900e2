CONSTANTS
  Values = {31}
  Files <- TwoFiles
  Targets = {1, 2}
  Code = {11, 12}
  MaxLocals = 1
  MaxArgs = 1
  SegSize = 12
  Starts <- ComAndMz
  MaxItems = 3
  Levels = {0, 2}
SPECIFICATION Spec
INVARIANTS TypeOK Balanced
PROPERTIES ImplementsFrames
CHECK_DEADLOCK FALSE
