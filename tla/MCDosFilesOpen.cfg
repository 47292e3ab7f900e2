SPECIFICATION Spec
CONSTANTS
  f1 = f1
  f2 = f2
  s1 = s1
  s2 = s2
  Files <- TwoFiles
  Streams <- TwoStreams
  MaxFiles = 5
  MaxSize = 1
  MaxCount = 1
SYMMETRY Symmetry
PROPERTIES OpenKeepsFiles
CHECK_DEADLOCK FALSE
