SPECIFICATION Spec
CONSTANTS
    None = None
    Author <- Authors
    Collaborator = {"owner"}
    PR <- Requests
    AuthorOf <- Authored
    Fork = {1}
    Commit <- Commits
    OwnerOf <- Owners
    Carries <- Carried
    Comments <- Talk
    Budgets <- Sizes
INVARIANTS
    GreenCheckIsEligible GreenCommitIsEligible CommandsInOrder
CHECK_DEADLOCK FALSE
