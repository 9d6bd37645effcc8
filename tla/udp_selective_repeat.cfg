SPECIFICATION UdpSpec
CONSTANTS
    c1 = c1
    c2 = c2
    s = s
    None = None
    Client = {c1}
    Server = s
    Turns = 2
    PromptChunks <- TwoEach
    ReplyChunks = 1
    Endpoint <- MCEndpoint
    MsgId <- MCMsgId
    Text <- MCText
    Size <- MCSize
    MaxChunk = 1200
    MaxRetries = 2
    CompletedCap = 4
    Persistent = FALSE
    MaxLoss = 1
    Timely = TRUE
    SlowBackend = FALSE
    BackendFails = FALSE
INVARIANTS
    LossCostsOneRetransmission
