SPECIFICATION Spec
CONSTANTS
    MaxAuthRetries = 2
    Writes = {TRUE}
    Silence = FALSE
INVARIANTS
    TypeOK
    TimerOfState
    AcceptAfterAuthentication
    RMAgrees
    ConnectedHasLink
PROPERTY
    RegisteredByAccept
