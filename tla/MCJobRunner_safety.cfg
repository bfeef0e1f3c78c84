SPECIFICATION Spec
CONSTANTS
  w1 = w1
  w2 = w2
  j1 = j1
  a = a
  b = b
  None = None
  Workers = {w1, w2}
  Jobs = {j1}
  Occurrences = {a, b}
  JobOf <- OneJob
  DueAt <- TwoDue
  Shadow <- NoShadow
  MaxAttempts <- TwoAttempts
  Manual = {b}
  Mode <- AllEnabled
  LeaseTime = 1
  BackoffUnit = 1
  BackoffCap = 2
  Retention = 2
  Lookback = 2
  JobTimeout = 1
  MaxPerTick = 2
  MaxClock = 3
  MaxFaults = 1
SYMMETRY WorkerSymmetry
INVARIANTS
  AtMostOneRunningPerJob
  AlertedExactlyOnce
  PartialFailureIsReported
PROPERTIES
  OnlyHolderSettles
  Implements
CHECK_DEADLOCK FALSE
