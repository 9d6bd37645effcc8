SPECIFICATION FairUdpSpec
CONSTANTS
    c1 = c1
    c2 = c2
    s = s
    None = None
    Client = {c1}
    Server = s
    Turns = 2
    PromptChunks <- TwoEach
    ReplyChunks = 1
    Endpoint <- MCEndpoint
    MsgId <- MCMsgId
    Text <- MCText
    Size <- MCSize
    MaxChunk = 1200
    MaxRetries = 1
    CompletedCap = 4
    Persistent = TRUE
    MaxLoss = 0
    Timely = FALSE
    SlowBackend = FALSE
    BackendFails = TRUE
INVARIANTS
    UdpTypeOK
    ServedOnce
    WaitingMeansDelivered
    RepliesGenuine
PROPERTIES
    ClientsFinish
    ServerGoesOn
