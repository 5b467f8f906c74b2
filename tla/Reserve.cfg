SPECIFICATION Spec
CONSTANTS
    o0 = o0
    o1 = o1
    None = None
    Object = {o0}
    Path <- ReservePaths
    Rank <- ReserveRank
    InitialTree <- ReserveTree
    InitialUploads <- Nothing
    InitialHolds <- Nothing
    Calls <- ReserveCalls
    InitialLeaves = 2
    MaxLeaves = 2
    MaxPaths = 2
    MaxPending = 1
    RetainedEpochs = 1
    RetainedReceipts = 1
    MaxLeafId = 4
    MaxToken = 4
    MaxVersion = 2
    MaxSequence = 2
    MaxAttempt = 1
    MaxCalls = 1
INVARIANTS
    TypeOK ExclusiveAuthority ActivatedLeaseHasView RetainedPathsBounded ReadOnlyIsImmutable
PROPERTY KeepsPromise
CHECK_DEADLOCK FALSE
