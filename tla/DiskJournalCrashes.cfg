SPECIFICATION Spec
CONSTANTS
    r1 = r1
    Requests <- MCRequests
    NoRequest = NoRequest
    CheckpointMessages = 1
    Events <- MCEvents
    MaxSeq = 2
    MaxEpoch = 3
    MaxChain = 3
    MaxFailures = 1
INVARIANTS
    OneHistory ShownBoundarySurvives RewindReachesReuse
PROPERTIES
    AckedSeqIsFinal ImplementsHistory
CHECK_DEADLOCK FALSE
