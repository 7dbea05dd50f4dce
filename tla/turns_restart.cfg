SPECIFICATION Spec
CONSTANTS
    Tasks = {1, 2}
    Issues = {1}
    IssueOf <- OneIssue
    MaxConcurrency = 1
    MaxCrashes = 1
    MaxRequests = 1
    FreshReads = TRUE
    LosesFailures = TRUE
INVARIANTS
    TypeOK
    WorkspaceExclusive
    ContainerHoldsLock
    TurnsInOrder
PROPERTIES
    StartsUnderLock
    LogsBeforeRemoval
