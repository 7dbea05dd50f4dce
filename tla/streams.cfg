SPECIFICATION StreamSpec
CONSTANTS
    Events <- ToolEvents
    MaxEvents = 6
    MaxFaults = 1
INVARIANTS
    ReceiptsArePrefix
    IngestFollowsWriter
    FlushIsComplete
    
    TranslatedRowsSettle
    
CHECK_DEADLOCK FALSE
