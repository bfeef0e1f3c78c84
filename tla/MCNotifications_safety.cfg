SPECIFICATION FairSpec
CONSTANTS
    w1 = w1 w2 = w2 i1 = i1
    Slots = {w1, w2}
    Hosts = {"worker", "portal"}
    HostOf <- MCHostOf
    Worker = "worker"
    Kinds <- MCKinds
    Invoices = {i1}
    Deadline <- MCDeadline
    OneHour = 1
    FourHours = 2
    None = None
    MaxFaults = 1
    MaxTime = 1
INVARIANTS
    RecordedIsSent
    RepeatsAreExcused
PROPERTIES
    EveryOverdueIsWarned
