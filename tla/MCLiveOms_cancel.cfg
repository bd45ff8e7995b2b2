SPECIFICATION Spec
CONSTANTS
    r1 = r1
    r2 = r2
    r3 = r3
    k1 = k1
    k2 = k2
    c1 = c1
    Requests <- PairRequests
    Keys = {k1, k2}
    KeyOf <- PairKeyOf
    Buys = {k1}
    Qty = 2
    Cancels = {c1}
    Pauses = {"suspended"}
    Ends = {"canceled", "rejected"}
    MaxFaults = 1
INVARIANTS
    BooksWithinBroker
    StatusMatchesLedger
    PositionMatchesLedger
CHECK_DEADLOCK FALSE
