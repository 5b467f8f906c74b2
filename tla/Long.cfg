SPECIFICATION Spec
CONSTANTS
    o0 = o0
    o1 = o1
    None = None
    Object = {o0}
    Path <- TurnPaths
    Rank <- TurnRank
    InitialTree <- TurnTree
    InitialUploads <- LongUploads
    InitialHolds <- SweepHolds
    Calls <- LongCalls
    InitialLeaves = 1
    MaxLeaves = 2
    MaxPaths = 1
    MaxPending = 2
    RetainedEpochs = 1
    RetainedReceipts = 1
    MaxLeafId = 2
    MaxToken = 4
    MaxVersion = 5
    MaxSequence = 6
    MaxAttempt = 1
    MaxCalls = 1
INVARIANTS
    HistoryBounded BasesAreRetained
PROPERTY PruningRestoresAdmission
CHECK_DEADLOCK FALSE
