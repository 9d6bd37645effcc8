SPECIFICATION MCSpec
CONSTANTS
    a = a
    b = b
    long = long
    short = short
    None = None
    Endpoint = {a, b}
    MsgId = {1, 2}
    Text = {long, short}
    Size <- MCSize
    MaxChunk = 1200
    MaxRetries = 2
    CompletedCap = 1
    Persistent = TRUE
    MaxLoss = 0
    MaxDelivered = 4
INVARIANTS
    TypeOK
    CacheConsistent
    AtMostOnce
    MessageIntegrity
    AckedMeansDelivered
    NoKeyError
CHECK_DEADLOCK FALSE
