SPECIFICATION Spec
CONSTANTS
    Gnbs = {"g1"}
    Ues = {"u1"}
    Serving <- OneServing
    Reqs <- OneReqs
    Workers = 2
    MaxConn = 2
    MaxPsr = 2
    MaxUpsets = 2
    QueueMax = 2
INVARIANT
    EnqueuedHasConsumer
CHECK_DEADLOCK FALSE
