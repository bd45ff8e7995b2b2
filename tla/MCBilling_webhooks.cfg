\* Two upgrades, two webhook handlers, every order of delivery.
SPECIFICATION Spec
CONSTANTS
    u1 = u1
    u2 = u2
    h1 = h1
    h2 = h2
    Upgrades = {u1, u2}
    PlanOf <- BothPlans
    Handlers = {h1, h2}
    MaxEvents = 3
    MaxFaults = 1
INVARIANTS
    AppliedOnce
    OrderlyMirrors
PROPERTIES
    EventsRecorded
\* The bounds on events leave nothing to do once all are recorded.
CHECK_DEADLOCK FALSE
