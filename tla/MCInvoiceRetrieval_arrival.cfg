SPECIFICATION FairSpec
CONSTANTS
  r1 = r1
  r2 = r2
  Runs = {r1}
  ShadowRuns = {}
  ManualRuns = {}
  Invoices = {1, 2, 3}
  DirectionCount = 2
  DirectionOf <- BothDirections
  InitialMark <- SyncedBefore
  Failing = {1}
  PageSize = 1
  Limit = 2
  MaxPages = 3
  MaxWindow = 1
  FirstLookback = 1
  MaxClock = 3
  MaxFaults = 1
PROPERTIES
  EveryInvoiceArrives
CHECK_DEADLOCK FALSE
