SPECIFICATION Spec
CONSTANTS
    Absent = Absent
    Kinds <- MCKinds
    MaxGen = 2
    MaxSlot = 1
    MaxEdits = 1
    MaxUpsets = 1
    MaxRev = 4
    LateTools = FALSE
INVARIANTS
    RunsOncePerSlot
    NotForgotten
PROPERTIES
    NothingRunsWhenOff
    DurableBeforeDispatch
    SavedMeansWritten
CHECK_DEADLOCK FALSE
