SPECIFICATION Spec
CONSTANTS
    Ues = {"u1"}
    MayRefuse = FALSE
    MaxConn = 3
    MaxVectors = 3
    MaxResend = 0
    MaxUpsets = 0
INVARIANT AttemptKeepsIds
CHECK_DEADLOCK FALSE
