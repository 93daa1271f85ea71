SPECIFICATION Spec
CONSTANTS
  Assets = {a1, a2, a3}
  Keep = 2
  MaxTasks = 4
INVARIANTS
  SiteSound
  TaskTruthful
CHECK_DEADLOCK FALSE
