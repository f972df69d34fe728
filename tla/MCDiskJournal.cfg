SPECIFICATION Spec
CONSTANTS
    r1 = r1
    Requests <- MCRequests
    NoRequest = NoRequest
    CheckpointMessages = 1
    Events <- MCMoreEvents
    MaxSeq = 3
    MaxEpoch = 2
    MaxChain = 2
    MaxFailures = 0
INVARIANTS
    TypeOK NoHoleAboveShed CheckpointIsLive
PROPERTIES
    CheckpointOutlivesEviction
CHECK_DEADLOCK FALSE
