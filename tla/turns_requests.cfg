SPECIFICATION Spec
CONSTANTS
    Tasks = {1, 2}
    Issues = {1}
    IssueOf <- OneIssue
    MaxConcurrency = 1
    MaxCrashes = 0
    MaxRequests = 2
    FreshReads = TRUE
    LosesFailures = FALSE
INVARIANTS
    OwnershipInvariant
PROPERTIES
    CancelledStays
