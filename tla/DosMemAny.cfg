SPECIFICATION FairSpec
CONSTANTS
  Total = 3
  Internal = 1
  MaxNodes = 4
INVARIANTS TypeOK NoOverlap
PROPERTIES OomOnlyWhenFull SizesConserved ImplementsHeap CallReturns
CHECK_DEADLOCK FALSE
