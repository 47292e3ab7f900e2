SPECIFICATION Spec
CONSTANTS
  Total = 4
  Internal = 1
  MaxNodes = 4
INVARIANTS NoCrash
CHECK_DEADLOCK FALSE
