SPECIFICATION Spec
CONSTANTS
  a = a
  b = b
  c = c
  Order <- TwoCells
  SnapCells <- SnapPair
  Pool = 2
  Cycles = 1
  MaxFailures = 0
  DeletesWork = TRUE
INVARIANT CancelledCellsLeakNothing
CHECK_DEADLOCK FALSE
