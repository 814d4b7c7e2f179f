\* Two chats at once, a vault with room for two rows, one change of the settings.
SPECIFICATION Spec
CONSTANTS
    Chatters = {c1, c2}
    Prompts <- MCPrompts
    MaxRows = 2
    MaxChats = 2
    MaxSaves = 1
    MaxDeltas = 2
SYMMETRY Symmetry
CHECK_DEADLOCK FALSE
INVARIANTS
    OnlyTokensSent
    ShowsOwn
