\* One choice, both line ends, up to two characters of the last blank line missing.
SPECIFICATION SseSpec
CONSTANTS
    Scripts <- OneChoice
    Endings <- MCEndings
    Tails = {0, 1, 2}
    BodyLen = 2
    Body <- MCBody
    Mapping <- MCMapping
    ChoiceIds = {0}
CHECK_DEADLOCK FALSE
INVARIANTS
    ReadsRestoredText
    TailBounded
    EventsInOrder
