CONSTANTS
    Conns = {c1, c2}
    Users = {u1}
    NoUser = NoUser
    MaxLines = 0
    MaxStarts = 2
SPECIFICATION Spec
INVARIANTS
    TypeOK
    OneAcceptor
    OneClientAfterStop
SYMMETRY Symmetry
CHECK_DEADLOCK FALSE
