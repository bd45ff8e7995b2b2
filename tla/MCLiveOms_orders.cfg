SPECIFICATION FairSpec
CONSTANTS
    r1 = r1
    r2 = r2
    r3 = r3
    k1 = k1
    k2 = k2
    c1 = c1
    Requests <- RetryRequests
    Keys = {k1, k2}
    KeyOf <- RetryKeyOf
    Buys = {k1}
    Qty = 2
    Cancels = {}
    Pauses <- Paused
    Ends <- Closed
    MaxFaults = 2
INVARIANTS
    OneExposurePerKey
    RepliesAgree
    NoLostFill
PROPERTIES
    OrdersFollowLifecycle
    FillsReachTheLedger
    OpenOrdersClose
CHECK_DEADLOCK FALSE
