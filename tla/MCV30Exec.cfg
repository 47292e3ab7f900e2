CONSTANTS
  Starts <- MCStarts
  Fill <- MCFill
SPECIFICATION Spec
INVARIANTS TypeOK BlocksMoved ScansStopped
 
