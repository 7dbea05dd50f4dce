SPECIFICATION Spec
CONSTANTS
    Tasks = {1}
    Issues = {1}
    IssueOf <- SingleTurn
    MaxConcurrency = 1
    MaxCrashes = 0
    MaxRequests = 1
    FreshReads = FALSE
    LosesFailures = FALSE
PROPERTIES
    CancelledStays
