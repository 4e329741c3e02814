SPECIFICATION FairSpec
CONSTANTS
    a1 = a1
    f1 = f1
    g1 = g1
    NoTx = NoTx
    AsyncSlots <- MCAsync
    FullSlots <- MCFull
    Grants <- MCGrants
    Limits <- MCLimits
    MaxPool = 1
    MaxMonth = 1
    MaxReserve = 2
    MaxCharge = 1
    MaxUsed = 3
    MaxCrashes = 1
    Straddle = FALSE
INVARIANTS TypeOK ReservationsBacked NoFreeMinutes CounterExplained
PROPERTIES PoolNeverUndersettled WindowRollsOver OpenGrantSettles
