SPECIFICATION LoaderSpec
CONSTANTS
  Total = 32
  Internal = 8
  MaxNodes = 6
  ParaSize = 4
  BlockSize = 8
  PspSize = 8
  ArgsAt = 4
  PspFields = {0, 1, 3}
  Hack = 8
  Programs <- SomePrograms
  ArgLens <- SomeArgs
INVARIANTS LoaderTypeOK ImageIntact PspIntact Contained StackApart PspNotSentinel
PROPERTIES LoadEnds
CHECK_DEADLOCK FALSE
