SPECIFICATION Spec
CONSTANTS
    Keys = {k1, k2}
    NoKey = NoKey
    Empty = Empty
    MaxAdded = 2
    Careless = TRUE
SYMMETRY KeySymmetry
INVARIANTS
    EachRowItsOwn
