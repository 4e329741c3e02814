SPECIFICATION Spec
CONSTANTS
    a1 = a1
    f1 = f1
    g1 = g1
    NoTx = NoTx
    AsyncSlots <- MCAsync
    FullSlots = {}
    Grants <- MCGrants
    Limits <- MCLimits
    MaxPool = 1
    MaxMonth = 2
    MaxReserve = 2
    MaxCharge = 1
    MaxUsed = 3
    MaxCrashes = 1
    Straddle = FALSE
PROPERTY InitSettlesPool
