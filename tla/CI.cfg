SPECIFICATION FairSpec
CONSTANTS
    None = None
    Source <- Sources
    Malformed = {3}
    Workflow = {"ci.yml"}
    Artifact = {"index.js"}
    Render <- Outputs
    MaxEdits = 2
    Schedules <- Groups
INVARIANTS
    AcceptedIsGenerated GreenCommitIsGenerated StepsHaveTheirInputs EvidenceIsSaved
PROPERTY EveryJobReports
CHECK_DEADLOCK FALSE
