SPECIFICATION Spec
CONSTANTS
    u1 = u1
    t1 = t1
    Users <- MCUsers
    Timers <- MCTimers
    MaxAttempts = 2
    MaxFaults = 0
PROPERTY StaleLeaves
CHECK_DEADLOCK FALSE
