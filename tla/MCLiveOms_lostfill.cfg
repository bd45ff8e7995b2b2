SPECIFICATION Spec
CONSTANTS
    r1 = r1
    r2 = r2
    r3 = r3
    k1 = k1
    k2 = k2
    c1 = c1
    Requests <- RetryRequests
    Keys = {k1, k2}
    KeyOf <- RetryKeyOf
    Buys = {k1}
    Qty = 2
    Cancels = {c1}
    Pauses <- Paused
    Ends <- Closed
    MaxFaults = 1
INVARIANTS
    NoLostFill
CHECK_DEADLOCK FALSE
