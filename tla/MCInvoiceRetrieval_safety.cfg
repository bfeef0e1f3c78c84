SPECIFICATION Spec
CONSTANTS
  r1 = r1
  r2 = r2
  Runs = {r1, r2}
  ShadowRuns = {}
  ManualRuns = {r2}
  Invoices = {1, 2, 3}
  DirectionCount = 1
  DirectionOf <- Sales
  InitialMark <- NeverSynced
  Failing = {}
  PageSize = 1
  Limit = 2
  MaxPages = 3
  MaxWindow = 1
  FirstLookback = 1
  MaxClock = 3
  MaxFaults = 1
INVARIANTS
  NothingSkipped
  WindowIsComplete
PROPERTIES
  MarkNeverMovesBack
CHECK_DEADLOCK FALSE
