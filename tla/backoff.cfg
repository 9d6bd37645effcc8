SPECIFICATION Spec
CONSTANTS
    Rto = 20000
    MaxRetries = 20
    Jitter = {85, 115}
    Lateness = {14000, 15600}
INVARIANTS
    RoundsBeforeDeadline
    OutlastsSilence
CHECK_DEADLOCK FALSE
