SPECIFICATION Spec
CONSTANTS
    MaxSends = 3
    MaxStops = 1
    MaxTries = 2
    SeenKept = 2
    MaxFaults = 2
INVARIANTS
    RunsOnce
    InOrder
    AtRest
PROPERTIES
    TakenBack
    Settled
CHECK_DEADLOCK FALSE
