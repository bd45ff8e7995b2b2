\* One subscription whose events arrive in any order.
SPECIFICATION Spec
CONSTANTS
    u1 = u1
    u2 = u2
    h1 = h1
    h2 = h2
    Upgrades = {u1}
    PlanOf <- BothPlans
    Handlers = {h1, h2}
    MaxEvents = 3
    MaxFaults = 0
INVARIANTS
    Mirrors
CHECK_DEADLOCK FALSE
