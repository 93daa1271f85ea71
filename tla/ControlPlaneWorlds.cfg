\* Reads that may be old, a late role and failing updates; and apart from these
\* calls that fail, are late or repeated.
CONSTANTS
  Worlds <- PassingWorlds
  RoleTries = 2
  MaxLog = 5
  MaxLate = 1
SPECIFICATION Spec
INVARIANTS NeverRefused DeployFailsForAReason DeployedConfigKept FreshVersions
PROPERTIES ReadyMeansLanded
CHECK_DEADLOCK FALSE
