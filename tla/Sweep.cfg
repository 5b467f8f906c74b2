SPECIFICATION Spec
CONSTANTS
    o0 = o0
    o1 = o1
    None = None
    Object = {o0}
    Path <- TurnPaths
    Rank <- TurnRank
    InitialTree <- TurnTree
    InitialUploads <- Nothing
    InitialHolds <- SweepHolds
    Calls <- SweepCalls
    InitialLeaves = 1
    MaxLeaves = 2
    MaxPaths = 1
    MaxPending = 1
    RetainedEpochs = 1
    RetainedReceipts = 1
    MaxLeafId = 2
    MaxToken = 5
    MaxVersion = 3
    MaxSequence = 3
    MaxAttempt = 1
    MaxCalls = 2
INVARIANTS
    PinnedBytesPresent
CHECK_DEADLOCK FALSE
