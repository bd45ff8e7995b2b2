SPECIFICATION FairSpec
CONSTANTS
    r1 = r1
    r2 = r2
    t1 = t1
    t2 = t2
    w1 = w1
    w2 = w2
    p1 = p1
    Jobs = {r1, r2}
    Tickers = {t1, t2}
    TickerOf <- TwoTickers
    Workers = {w1, w2}
    Count = 1
    Calls = 2
    Providers = {p1}
    Cost <- Rates
    Cap = 2
    Limit = 1
    MaxFaults = 1
INVARIANTS
    OverspendBounded
    PromisedRunsAreHeld
PROPERTIES
    FinishedRunsStay
    RunsEnd
CHECK_DEADLOCK FALSE
