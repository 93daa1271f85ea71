SPECIFICATION Spec
CONSTANTS
  Cold = 2
  Warm = 2
  MaxColdForceAttempts = 2
  MaxCycleAttempts = 2
  MaxCellAttempts = 2
  Redelivery = TRUE
INVARIANT OneSandboxPerCycle
CHECK_DEADLOCK FALSE
