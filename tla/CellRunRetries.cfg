SPECIFICATION Spec
CONSTANTS
  Cold = 2
  Warm = 2
  MaxColdForceAttempts = 2
  MaxCycleAttempts = 2
  MaxCellAttempts = 2
  Redelivery = FALSE
INVARIANTS
  CompletedPrefix
  MarkersTruthful
  OneSandboxPerCycle
  CpuOfTheSandbox
  SilentHandlerStopped
PROPERTIES
  SamplesTheCell
  Terminates
CHECK_DEADLOCK FALSE
