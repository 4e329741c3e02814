SPECIFICATION Spec
CONSTANTS
    p1 = p1
    p2 = p2
    p3 = p3
    r1 = r1
    r2 = r2
    r3 = r3
    u1 = u1
    u2 = u2
    k1 = k1
    k2 = k2
    k3 = k3
    NoCall = NoCall
    Null = Null
    Calls = {p3, r1, r3}
    Proxied = {p3}
    UserOf <- MCUserOf
    KeyOf <- MCKeyOf
    Units <- MCUnits
    UserLimit = 2
    GlobalLimit = 3
    TaskLimit = 2
    MaxDay = 1
    MaxGen = 1
    MaxAttempt = 0
INVARIANTS TypeOK BudgetHeld SpentWithinBudget
CHECK_DEADLOCK FALSE
