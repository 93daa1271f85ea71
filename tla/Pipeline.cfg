SPECIFICATION Spec
CONSTANTS
  FirstArgs <- MCFirstArgs
  LaterArgs <- MCLaterArgs
  ProbeArgs <- MCProbeArgs
  BuildLangs <- MCBuildLangs
  Leftover <- MCLeftover
  RowsPerCell = 2
  MaxCells = 3
  MaxCommands = 3
  MaxEdits = 1
INVARIANTS
  MeasuredCode
  FreshUnlessSkipped
  SelectionsSound
  DatasetTruthful
  TeardownComplete
  WholeCellsThenOnePart
PROPERTIES
  KeepsWholeCells
CHECK_DEADLOCK FALSE
