CONSTANTS
    MaxDay = 2
    MaxLines = 3
    MaxOpenings = 4
SPECIFICATION Spec
INVARIANTS
    LinesInTheirDay
    TornLineIsLast
    PanicNeedsFailedRotation
CHECK_DEADLOCK FALSE
