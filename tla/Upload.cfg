SPECIFICATION Spec
CONSTANTS
    u1 = u1
    t1 = t1
    Users <- MCUsers
    Timers <- MCTimers
    MaxAttempts = 2
    MaxFaults = 1
INVARIANTS TypeOK EndsBilledOnce PublishedKept
PROPERTY FinalStays
CHECK_DEADLOCK FALSE
