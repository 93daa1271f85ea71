\* Five intervals, two callers dropped, an executor up to one and a half
\* intervals late.
CONSTANTS
  a = a
  b = b
  c = c
  Callers <- ThreeCallers
  Interval = 2
  Lag = 3
  MaxTime = 10
  MaxDropped = 2
SYMMETRY Symmetry
SPECIFICATION Spec
INVARIANTS SlotsSpaced BurstsBounded WaitBounded
CHECK_DEADLOCK FALSE
