SPECIFICATION Spec
CONSTANTS
  ColdSamples = 2
  WarmPerSample = 2
  MaxColdForceAttempts = 2
  MaxUnitAttempts = 3
  NumSizes = 2
  MaxProbes = 2
  MaxFaults = 2
INVARIANTS
  SamplesSound
  NothingForgotten
  SamplesItsOwn
  FilesComplete
  TeardownReclaims
PROPERTIES
  ProbeEnds
CHECK_DEADLOCK FALSE
