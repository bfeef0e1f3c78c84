SPECIFICATION FairSpec
CONSTANTS
  w1 = w1
  w2 = w2
  j1 = j1
  a = a
  b = b
  None = None
  Workers = {w1, w2}
  Jobs = {j1}
  Occurrences = {a, b}
  JobOf <- OneJob
  DueAt <- TwoDue
  Shadow <- NoShadow
  MaxAttempts <- TwoAttempts
  Manual = {}
  Mode <- AllEnabled
  LeaseTime = 1
  BackoffUnit = 1
  BackoffCap = 2
  Retention = 2
  Lookback = 2
  JobTimeout = 0
  MaxPerTick = 1
  MaxClock = 16
  MaxFaults = 1
PROPERTIES
  EveryOccurrenceSettles
CHECK_DEADLOCK FALSE
