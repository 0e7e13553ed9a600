SPECIFICATION Spec
CONSTANTS
    Keys = {"s1"}
    N1 = 2
    UpfSeq = 1
    MaxRequests = 3
    MaxReports = 1
    MaxRepeats = 2
INVARIANTS TypeOK SessionBacked PlaneOwned LeakHasCause
PROPERTIES MutexReturned
CHECK_DEADLOCK FALSE
