SPECIFICATION Spec
CONSTANTS
    p1 = p1 p2 = p2 l1 = l1 l2 = l2 c1 = c1 c2 = c2 s1 = s1 m1 = m1 m2 = m2
    Procs = {p1, p2}
    Owner = owner
    Members = {m1, m2}
    Copies = {c1, c2}
    Addresses = {home, away}
    Home = home
    Links = {l1, l2}
    TTL = 1
    Latency = 0
    MaxOps = 3
    MaxTime = 1
    Subs = {s1}
    Plans = {"start", "pro"}
    TeamPlans = {"pro"}
    Cap <- MCCap
    Trial = "pro"
    None = None
    FirstPlan = "pro"
    Providers = {"stripe"}
    Licences = {}
    MaxDay = 0
    MaxUpdates = 1
SYMMETRY Symmetry
\* A bounded number of requests: when they are over, the system stops.
CHECK_DEADLOCK FALSE
INVARIANTS
    SessionsFollowPassword
    VerifyLinkWorksOnce
PROPERTIES
    StaleAccessIsBounded
