SPECIFICATION Spec
CONSTANTS
    s1 = s1 s2 = s2 t1 = t1 t2 = t2
    Subs = {s1, s2}
    Plans = {"start", "pro"}
    Cap <- MCCap
    Trial = "pro"
    FirstPlan = "pro"
    None = None
    Providers = {"stripe", "licence"}
    Licences <- MCLicences
    MaxDay = 1
    MaxUpdates = 3
    Parts = 2
    PollAttempts = 2
    Clients = {"c1"}
    Tokens = {t1, t2}
    Bundle = Bundle
    MaxAge = 1
    MaxClock = 1
    MaxFiles = 2
    MaxLogins = 2
    Limit = 3
SYMMETRY Symmetry
\* A bounded number of requests and of changes at Stripe.
CHECK_DEADLOCK FALSE
INVARIANTS
    LastSavedIsStored
    KeysFitTheirUse
    SessionsAreEnded
    VerdictIsTheGateways
    GrantWasSold
