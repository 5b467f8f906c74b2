SPECIFICATION Spec
CONSTANTS
    o0 = o0
    o1 = o1
    None = None
    Object = {o0}
    Path <- RacePaths
    Rank <- RaceRank
    InitialTree <- RaceTree
    InitialUploads <- Nothing
    InitialHolds <- RaceHolds
    Calls <- RaceCalls
    InitialLeaves = 2
    MaxLeaves = 2
    MaxPaths = 2
    MaxPending = 2
    RetainedEpochs = 2
    RetainedReceipts = 2
    MaxLeafId = 3
    MaxToken = 3
    MaxVersion = 3
    MaxSequence = 2
    MaxAttempt = 2
    MaxCalls = 2
INVARIANTS
    CandidatesOK NoLostUpdate PublishedOnce BatchIsAtomic
PROPERTY KeepsPromise
CHECK_DEADLOCK FALSE
