CONSTANTS
  Segs = {"es", "ss"}
  CodeSize = 4
  MaxCount = 2
  MaxPfx = 2
SPECIFICATION Spec
INVARIANTS TypeOK PrefixesPending
PROPERTIES ImplementsInsn Completes
CHECK_DEADLOCK FALSE
