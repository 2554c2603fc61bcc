CONSTANTS
    s1 = s1
    g1 = g1
    g2 = g2
    Sessions <- MCSessions
    Callers <- MCCallers
    Users <- MCUsers
    NSinks = 2
    QueueSize = 2
    MaxEventsPerSess = 3
SPECIFICATION AppFairSpec
INVARIANTS
    AppTypeOK
    NoneLeftAtExit
PROPERTIES
    SignalEndsProgram
    QueuedIsWritten
CHECK_DEADLOCK FALSE
