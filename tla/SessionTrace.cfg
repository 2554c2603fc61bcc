CONSTANTS
    s1 = s1
    s2 = s2
    g1 = g1
    g2 = g2
    Sessions <- MCSessions
    Callers <- MCCallers
    Users <- MCUsers
    NSinks = 2
    QueueSize = 2
    MaxEventsPerSess = 2
SPECIFICATION Spec
INVARIANTS
    AtMostOnce
    HandlerOrder
PROPERTIES
    NoWriteAfterClose
    ImplementsTraceLog
CHECK_DEADLOCK FALSE
