\* The process ends.
SPECIFICATION Spec
CONSTANTS
  Requests = {r1, r2}
  Deliveries = {g1, g2}
  Levels <- mcLevels
  Info = 1
  Error = 3
  Capacity = 1
  Intervals <- mcIntervals
INVARIANT ShutdownWaits
CHECK_DEADLOCK FALSE
