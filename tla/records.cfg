SPECIFICATION RecordsSpec
CONSTANTS
    Issues = {1}
    Requests = {"a", "b"}
    Kinds = {"delete", "workspace", "cleanup"}
    Broken = {}
    MaxTasks = 3
    Batch = 1
INVARIANTS
    RemovalIsSafe
    LimitsKept
PROPERTIES
    HistoryReadable
CHECK_DEADLOCK FALSE
