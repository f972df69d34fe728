SPECIFICATION Spec
CONSTANTS
    Newest = 4
    Held <- MCHeld
    PrevRetained = 2
    MaxFailedBoots = 2
    MaxMishaps = 2
INVARIANTS
    Guarded
PROPERTIES
    ConfirmedIsKept
    PausedAfterRollback
    LeavesBadRelease
CHECK_DEADLOCK FALSE
