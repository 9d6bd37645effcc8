SPECIFICATION BenchSpec
CONSTANTS
    Api = {"ollama", "claude", "groq"}
    Turns = 3
    Runs = 2
INVARIANTS
    TypeOK
    ConversationShown
    RolesAlternate
    OneRunPerLabel
PROPERTIES
    OthersKept
