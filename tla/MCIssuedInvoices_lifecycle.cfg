SPECIFICATION FairSpec
CONSTANTS
  i1 = i1
  i2 = i2
  q1 = q1
  q2 = q2
  q3 = q3
  m1 = m1
  m2 = m2
  Invoices = {i1}
  Requests = {q1}
  InvoiceOf <- Clicks
  Monitors = {m1, m2}
  Deadlines = {3}
  Near = 1
  Far = 2
  MaxClock = 4
  MaxFaults = 1
INVARIANTS
  UploadedIsAccepted
  OffIsTruthful
  ExportedIsAccepted
  AlertedOncePerTier
PROPERTIES
  OverdueIsAnnounced
  AcceptedIsClosed
CHECK_DEADLOCK FALSE
