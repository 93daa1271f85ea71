SPECIFICATION Spec
CONSTANTS
  a = a
  b = b
  c = c
  Order <- ThreeCells
  SnapCells <- SnapPair
  Pool = 2
  Cycles = 2
  MaxFailures = 1
  DeletesWork = FALSE
INVARIANTS
  MeasuredVersionAlive
  GuardedVersionsReclaimed
  VersionsBounded
PROPERTIES
  FailFastStops
  CellsSampled
  RunEnds
CHECK_DEADLOCK FALSE
