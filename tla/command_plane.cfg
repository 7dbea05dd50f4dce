SPECIFICATION Spec
CONSTANTS
    Ids = {c1, c2}
    MaxPuts = 1
    MaxRestarts = 1
SYMMETRY IdSymmetry
INVARIANTS
    
    NativeAtMostOnce
    StrictOrder
PROPERTIES
    FinalStays
    
CHECK_DEADLOCK FALSE
