SPECIFICATION Spec
CONSTANTS
    o0 = o0
    o1 = o1
    None = None
    Object = {o0}
    Path <- TurnPaths
    Rank <- TurnRank
    InitialTree <- TurnTree
    InitialUploads <- TurnUploads
    InitialHolds <- TurnHolds
    Calls <- TurnCalls
    InitialLeaves = 2
    MaxLeaves = 2
    MaxPaths = 2
    MaxPending = 2
    RetainedEpochs = 2
    RetainedReceipts = 2
    MaxLeafId = 3
    MaxToken = 5
    MaxVersion = 4
    MaxSequence = 3
    MaxAttempt = 1
    MaxCalls = 1
INVARIANTS
    LeaseOriginIsTip CaptureIsFenced
PROPERTY KeepsPromise
CHECK_DEADLOCK FALSE
