SPECIFICATION Spec
CONSTANTS
    Path = {"d", "d/f", "d/g"}
    Value = {"x", "y"}
    None = None
    Other = Other
    Under <- MCUnder
    Tree <- MCTree
    Pending <- MCPending
    Requests <- MCRequests
    Choices <- MCChoices
    Torn = {"clone", "cleanup"}
    Budgets <- MCBudgets
INVARIANTS
    TypeOK
    EditsSurvive
    CleanIsOrigin
    NoLeakedReservation
CHECK_DEADLOCK FALSE
