SPECIFICATION FairSpec
CONSTANTS
    Requests <- MCRequests
    NoRequest = NoRequest
    CheckpointMessages = 5
    MaxSeq = 3
    MaxEpoch = 3
    MaxChain = 2
    MaxLeaves = 1
INVARIANT
    NothingSkippedWhenRewound
PROPERTY
    CatchesUp
CHECK_DEADLOCK FALSE
