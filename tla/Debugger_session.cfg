SPECIFICATION Spec
CONSTANTS
    MaxStarts = 2
    MaxPending = 2
    MaxDepth = 2
    Hasty = FALSE
INVARIANTS
    TypeOK
    NothingLeftBehind
    
    
    ViewIsCurrent
