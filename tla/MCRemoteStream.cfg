SPECIFICATION Spec
CONSTANTS
    Requests <- MCRequests
    NoRequest = NoRequest
    CheckpointMessages = 5
    MaxSeq = 4
    MaxEpoch = 2
    MaxChain = 2
    MaxLeaves = 1
INVARIANTS
    InOrderOnce SavedCursorCovered StreamedOnce
PROPERTIES
    AckedIsSaved
CHECK_DEADLOCK FALSE
