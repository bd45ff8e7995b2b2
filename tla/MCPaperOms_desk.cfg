SPECIFICATION Spec
CONSTANTS
    r1 = r1
    r2 = r2
    r3 = r3
    r4 = r4
    k1 = k1
    k2 = k2
    k3 = k3
    Requests <- DeskRequests
    Keys = {k1, k2, k3}
    KeyOf <- DeskKeyOf
    Buys = {k1, k2}
    Mark = 2
    PriceOf <- DeskPriceOf
    StartingCash = 3
    MaxFaults = 1
INVARIANTS
    PositionMatchesExecutions
    SpendingCovered
PROPERTIES
    DeskIsIdempotent
CHECK_DEADLOCK FALSE
