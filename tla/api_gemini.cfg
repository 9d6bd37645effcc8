SPECIFICATION Spec
CONSTANTS
    Api = {"gemini"}
    Turns = 2
INVARIANTS
    RepliesKept
