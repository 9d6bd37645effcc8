SPECIFICATION FairSessionSpec
CONSTANTS
    None = None
    Ring <- MCRing
    Item <- MCItem
    Capacity = 3
    PoolSize = 5
    Size <- MCSize
    Turns = 4
    Settings <- MCSettings
INVARIANTS
    SessionTypeOK
    CursorsInBounds
    ReplyMatchesRequest
    PayloadsIntact
    SeqEchoed
    SessionWakeups
PROPERTIES
    ImplementsChat
    IsFifo
    SessionEnds
