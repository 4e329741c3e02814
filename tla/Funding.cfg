SPECIFICATION Spec
CONSTANTS
    a = a
    b = b
    Orders = {a, b}
    Purchases = {b}
    Amount <- MCAmount
    Legacy = 2
    MaxAdjust = 1
    InFlight = FALSE
INVARIANTS FundingSound ValueAccounted LegacySpentFirst DebtFreezes
CHECK_DEADLOCK FALSE
