SPECIFICATION FairSpec
CONSTANTS
    r1 = r1
    r2 = r2
    r3 = r3
    k1 = k1
    k2 = k2
    w1 = w1
    w2 = w2
    Jobs <- RetryJobs
    Keys = {k1}
    KeyOf <- RetryKeyOf
    Workers = {w1}
    Count = 2
    Racing = FALSE
    MaxFaults = 1
PROPERTIES
    PromisedRunsEnd
CHECK_DEADLOCK FALSE
