SPECIFICATION FairSpec
CONSTANTS
    w1 = w1
    w2 = w2
    pay = pay
    pend = pend
    fin = fin
    NoEvent = NoEvent
    Dispute = Dispute
    Workers = {w1, w2}
    Paid = {pay}
    Pending = {pend}
    Ending = {fin}
    At <- MCAt
    Amount = 1
    MaxFaults = 1
INVARIANTS TypeOK TerminalPrevails AckedHasEffect
PROPERTIES PromiseKept DisputeEnds
CHECK_DEADLOCK FALSE
