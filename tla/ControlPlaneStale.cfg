\* Reads may be old and calls fail.
CONSTANTS
  Worlds <- StaleWorlds
  RoleTries = 2
  MaxLog = 6
  MaxLate = 1
SPECIFICATION Spec
PROPERTIES ReadyMeansLanded
CHECK_DEADLOCK FALSE
