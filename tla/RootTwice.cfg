CONSTANTS
    n1 = n1
    n2 = n2
    Names = {n1, n2}
    Settings <- TwoSettings
    Values = {v1}
    NoValue = NoValue
    Callers = {c1, c2}
    MaxRows = 4
SPECIFICATION Spec
SYMMETRY Symmetry
INVARIANT
    OnePerParent
