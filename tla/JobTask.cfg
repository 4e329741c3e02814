SPECIFICATION FairSpec
CONSTANTS
    p1 = p1
    p2 = p2
    p3 = p3
    r1 = r1
    r2 = r2
    r3 = r3
    u1 = u1
    u2 = u2
    k1 = k1
    k2 = k2
    k3 = k3
    NoCall = NoCall
    Null = Null
    Calls = {p1, p2, p3}
    Proxied = {p1, p2, p3}
    UserOf <- MCUserOf
    KeyOf <- MCKeyOf
    Units <- MCUnits
    UserLimit = 4
    GlobalLimit = 4
    TaskLimit = 2
    MaxDay = 0
    MaxGen = 2
    MaxAttempt = 1
INVARIANTS AttemptWithinBudget MeterMatchesRows OneInFlight
PROPERTY ReservationEnds
CHECK_DEADLOCK FALSE
