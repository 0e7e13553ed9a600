SPECIFICATION Spec
CONSTANTS
    Ues = {"u1"}
    MayRefuse = TRUE
    MaxConn = 3
    MaxVectors = 3
    MaxResend = 1
    MaxUpsets = 1
INVARIANTS TypeOK DownlinkFindsUe KeysAgree
PROPERTIES  AttemptEnds
CHECK_DEADLOCK FALSE
