SPECIFICATION ProgressSpec
CONSTANTS
    Tasks = {1, 2}
    Issues = {1}
    IssueOf <- OneIssue
    MaxConcurrency = 1
    MaxCrashes = 0
    MaxRequests = 0
    FreshReads = TRUE
    LosesFailures = FALSE
PROPERTIES
    EveryTurnEnds
    EveryLockIsReleased
