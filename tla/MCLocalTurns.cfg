SPECIFICATION Spec
CONSTANTS
    MaxSends = 2
    MaxStops = 1
    MaxFaults = 1
    MaxRebuilds = 1
    MaxCompacts = 2
    MaxDeletes = 1
    RateRetries = 1
    StreamRetries = 1
    AuthRetries = 1
INVARIANTS
    NothingForgotten
    RunningIsReal
    ReplayedIsUnanswered
PROPERTIES
    OnlyStopPops
    EverySendEnds
CHECK_DEADLOCK FALSE
