SPECIFICATION FairUdpSpec
CONSTANTS
    c1 = c1
    c2 = c2
    s = s
    None = None
    Client = {c1}
    Server = s
    Turns = 2
    PromptChunks <- TwoEach
    ReplyChunks = 2
    Endpoint <- MCEndpoint
    MsgId <- MCMsgId
    Text <- MCText
    Size <- MCSize
    MaxChunk = 1200
    MaxRetries = 3
    CompletedCap = 4
    Persistent = FALSE
    MaxLoss = 2
    Timely = TRUE
    SlowBackend = FALSE
    BackendFails = FALSE
PROPERTIES
    ImplementsChat
    EveryTurnAnswered
