SPECIFICATION Spec
CONSTANTS
    Gnbs = {"g1"}
    Ues = {"u1"}
    Serving <- OneServing
    Reqs <- OneReqs
    Workers = 2
    MaxConn = 2
    MaxPsr = 2
    MaxUpsets = 2
    QueueMax = 2
INVARIANTS
    TypeOK
    AnsweredOnceAfterBuild
PROPERTIES
    PsrAnswered
    DisconnectEnds
    LinkLossSeen
CHECK_DEADLOCK FALSE
