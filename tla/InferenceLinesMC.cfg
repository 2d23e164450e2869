CONSTANTS
  Alignment = 2
  LineCells = 4
  Nets <- MCSharedLine
  MaxImages = 2
SPECIFICATION Spec
INVARIANTS InputIntact
CHECK_DEADLOCK FALSE
