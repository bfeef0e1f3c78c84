SPECIFICATION FairSpec
CONSTANTS
  r1 = r1
  r2 = r2
  d1 = d1
  d2 = d2
  n1 = n1
  n2 = n2
  m1 = m1
  None = None
  Callers = {r1, r2}
  Nips = {n1, n2}
  Limits = {1, 2}
  Documents = {d1, d2}
  NipOf <- TwoNips
  Backlog = {d1}
  Messages = {m1}
  Attached <- OneMail
  PoolSize = 3
  MaxFaults = 1
INVARIANTS
  BooksBalance
  OnlyFaultsStrand
  ForeignKeysHold
  SeenIsStored
PROPERTIES
  GrowsWithinCap
  ClaimEnds
CHECK_DEADLOCK FALSE
