SPECIFICATION Spec
CONSTANTS
    Candidate = {k}
    Proc = {p, q}
    None = None
    MaxForks = 2
    MaxFailures = 2
INVARIANTS
    LeavesAgree
    RunningCheckKeepsLeaf
PROPERTY CommandsEnd
CHECK_DEADLOCK FALSE
