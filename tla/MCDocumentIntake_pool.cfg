SPECIFICATION FairSpec
CONSTANTS
  r1 = r1
  r2 = r2
  d1 = d1
  d2 = d2
  n1 = n1
  n2 = n2
  m1 = m1
  None = None
  Callers = {r1, r2}
  Nips = {n1, n2}
  Limits = {2}
  PoolSize = 2
  Documents = {d1, d2}
  NipOf <- TwoNips
  Backlog = {d1}
  Messages = {m1}
  Attached <- OneMail
  MaxFaults = 0
PROPERTIES
  CreationEnds
CHECK_DEADLOCK FALSE
