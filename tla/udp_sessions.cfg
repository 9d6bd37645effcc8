SPECIFICATION UdpSpec
CONSTANTS
    c1 = c1
    c2 = c2
    s = s
    None = None
    Client = {c1, c2}
    Server = s
    Turns = 1
    PromptChunks <- TwoThree
    ReplyChunks = 2
    Endpoint <- MCEndpoint
    MsgId <- MCMsgId
    Text <- MCText
    Size <- MCSize
    MaxChunk = 1200
    MaxRetries = 1
    CompletedCap = 4
    Persistent = TRUE
    MaxLoss = 0
    Timely = FALSE
    SlowBackend = FALSE
    BackendFails = FALSE
INVARIANTS
    ClientsSurvive
