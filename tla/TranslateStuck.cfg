SPECIFICATION Spec
CONSTANTS
    ws = ws  api = api  user = user
    Ticks <- MCTicks  Users <- MCUsers
    MaxRows = 2  MaxGens = 2  MaxAttempts = 2  MaxFaults = 1
SYMMETRY EitherTick
INVARIANT StartableRow
CHECK_DEADLOCK FALSE
