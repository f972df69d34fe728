SPECIFICATION Spec
CONSTANTS
    c1 = c1
    c2 = c2
    Clients <- MCOneClient
    MaxCalls = 2
    CallLimit = 2
    MaxConn = 2
    MaxCrashes = 1
    MaxQuits = 1
    MaxControls = 0
INVARIANTS
    NeverHangs NothingIssuedIsLost
CHECK_DEADLOCK FALSE
