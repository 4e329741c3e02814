SPECIFICATION Spec
CONSTANTS
    None = None
    Users = {u1, u2}
    Families = {f1, f2}
    user0 = u1
    family0 = f1
    Tabs = {t1, t2}
    Ops = {o1, o2}
    Changeable = {u1}
    MaxVersion = 2
    MaxGen = 1
    MaxFaults = 1
    Abandon = FALSE
SYMMETRY Symmetric
INVARIANTS TypeOK NeverAsAnother ReuseOnlyAfterLoss EndedOrPending OldPasswordOut
