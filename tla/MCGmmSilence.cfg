SPECIFICATION FairSpec
CONSTANTS
    MaxAuthRetries = 1
    Writes = {TRUE}
    Silence = TRUE
CHECK_DEADLOCK FALSE
PROPERTY
    SilenceEnds
