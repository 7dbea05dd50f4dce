SPECIFICATION AdmissionSpec
CONSTANTS
    a1 = a1
    a2 = a2
    b1 = b1
    b2 = b2
    c1 = c1
    c2 = c2
    None = None
    Issues = {a1, a2}
    Requests = {b1, b2}
    NoReq = None
    MaxTasks = 2
    MaxTime = 2
    SlotMax = 1
    MaxMoves = 1
    Legacy = FALSE
    Kits = {"ok"}
SYMMETRY Interchangeable
INVARIANTS
    BookingsKept
    NoWaitCycle
    BookingsInTurnOrder
    
PROPERTIES
    FrozenIdentityHolds
CHECK_DEADLOCK FALSE
