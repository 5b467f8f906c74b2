SPECIFICATION Spec
CONSTANTS
    o0 = o0
    o1 = o1
    None = None
    Object = {o0, o1}
    Path <- MergePaths
    Rank <- MergeRank
    InitialTree <- MergeTree
    InitialUploads <- MergeUploads
    InitialHolds <- MergeHolds
    Calls <- MergeCalls
    InitialLeaves = 1
    MaxLeaves = 2
    MaxPaths = 2
    MaxPending = 2
    RetainedEpochs = 2
    RetainedReceipts = 2
    MaxLeafId = 2
    MaxToken = 4
    MaxVersion = 3
    MaxSequence = 4
    MaxAttempt = 1
    MaxCalls = 1
INVARIANTS
    EpochsAreNamespaces NoLostUpdate HistoryBounded
CHECK_DEADLOCK FALSE
