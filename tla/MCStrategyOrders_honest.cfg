SPECIFICATION LegsSpec
CONSTANTS
    r1 = r1
    r2 = r2
    r3 = r3
    None = None
    Calls <- MCCalls
    Legs = 2
    MaxFaults = 2
SYMMETRY Symmetry
INVARIANTS
    ResultsHonest
CHECK_DEADLOCK FALSE
