SPECIFICATION DeskSpec
CONSTANTS
    h1 = h1
    h2 = h2
    t1 = t1
    t2 = t2
    NoToken = NoToken
    Handlers <- MCHandlers
    Tokens <- MCTokens
    MinPaperDays = 2
    MaxDay = 2
    r1 = r1
    r2 = r2
    r3 = r3
    None = None
    Calls <- MCCalls
    Legs = 2
    MaxFaults = 2
SYMMETRY Symmetry
INVARIANTS
    LiveWasEarned
    TokensOnce
    LegsExposedOnce
CHECK_DEADLOCK FALSE
