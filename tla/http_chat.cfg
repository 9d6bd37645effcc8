SPECIFICATION Spec
CONSTANTS
    None = None
    Client = {c1, c2}
    Turns = 2
    BackendFails = TRUE
INVARIANTS
    TypeOK
    PairsAdjacent
    OutOfOrderMeansFailed
PROPERTIES
    HandlersEnd
