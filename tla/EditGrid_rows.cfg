SPECIFICATION Spec
CONSTANTS
    Keys = {k1, k2, k3}
    NoKey = NoKey
    Empty = Empty
    MaxAdded = 2
    Careless = FALSE
SYMMETRY KeySymmetry
INVARIANTS
    TypeOK
    OneAsterisk
    DatasetWhileNeeded
    PendingKeepsStore
    
