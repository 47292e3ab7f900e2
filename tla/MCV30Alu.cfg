CONSTANTS
  Words <- MCWords
  Counts <- MCCounts
SPECIFICATION Spec
INVARIANTS TypeOK WideSums CmpJumps WideCompare TestJumps Decimals WideShifts ShiftsRepeat Divisions
CHECK_DEADLOCK FALSE
