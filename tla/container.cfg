SPECIFICATION ContainerSpec
CONSTANTS
    GateCheck = "sched"
    NoTask = "none"
    Tasks = {"t1", "t2"}
    V1Tasks = {"t1"}
    Admins = {"a1"}
    KitStates = {"ok", "gone", "broken", "v1only", "bare"}
    DeclaresV2 = TRUE
    MaxKits = 2
    MaxStarts = 3
INVARIANTS
    
    
    DeliveryConfirmed
    
PROPERTIES
    ReadinessHolds
    NothingTakenBack
CHECK_DEADLOCK FALSE
