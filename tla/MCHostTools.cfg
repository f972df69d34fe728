SPECIFICATION Spec
CONSTANTS
    c1 = c1
    c2 = c2
    Clients <- MCTwoClients
    MaxCalls = 1
    CallLimit = 2
    MaxConn = 2
    MaxCrashes = 0
    MaxQuits = 0
    MaxControls = 1
INVARIANTS
    JournalAgrees ControllerHasSeat CanceledIsAborted
PROPERTIES
    OnlySeatHolderRuns
SYMMETRY Symmetry
CHECK_DEADLOCK FALSE
