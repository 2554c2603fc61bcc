CONSTANTS
    Conns = {c1}
    Users = {u1, u2}
    NoUser = NoUser
    MaxLines = 3
SPECIFICATION FairSessionSpec
INVARIANTS
    GreetingFirst
    OkIsEarned
    AnswersInTurn
    TraceTellsTheTruth
PROPERTY
    RequestIsAnswered
CHECK_DEADLOCK FALSE
