SPECIFICATION MCSpec
CONSTANTS
    None = None
    c1 = c1
    c2 = c2
    s1 = s1
    s2 = s2
    Client = {c1, c2}
    Server = {s1, s2}
    Platforms = {"windows", "linux"}
    Turns = 1
INVARIANTS
    LifecycleTypeOK
    HandshakeMeansServer
    OwnConversation
    DescriptorsGenuine
PROPERTIES
    EveryoneEnds
CHECK_DEADLOCK FALSE
