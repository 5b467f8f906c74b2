SPECIFICATION Spec
CONSTANTS
    Leaf = {l1, l2}
    Value = {"x", "y"}
    Initial = "x"
    None = None
    MaxRequests = 3
    MaxAttempts = 3
    MaxCrashes = 1
    MaxRevokes = 1
SYMMETRY Leaves
INVARIANTS
    ReconciledRecords
    AcksFollowPublication
PROPERTY PublishedWasChecked
CHECK_DEADLOCK FALSE
