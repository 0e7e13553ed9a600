SPECIFICATION Spec
CONSTANTS
    Names <- MCNames
    UEs <- MCUEs
    Duration <- MCDuration
    Interval <- MCInterval
    MaxRetx <- MCMaxRetx
    MaxStarts = 3
    MaxLag = 1
CHECK_DEADLOCK FALSE
PROPERTY
    RestartCancelsPrevious
