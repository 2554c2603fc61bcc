CONSTANTS
    Names = {n1, n2}
    Columns = {k1, k2}
    MaxValue = 1
    Admins = {t1, t2}
    MaxMetrics = 2
SPECIFICATION Spec
INVARIANTS
    DefinitionIsKept
PROPERTIES
    OnlyStaleUndeletes
    OnlySwitchActivates
SYMMETRY Symmetry
