\* Three requests under two ids, one message the child sends unasked, pipes that
\* hold one message; the child numbers its own requests otherwise.
SPECIFICATION FairSpec
CONSTANTS
    Ids <- MCIds
    ChildIds = {"s"}
    Contents <- MCContents
    Sizes = {"fits", "large"}
    PipeCap = 1
    MaxAsked = 3
    MaxExtra = 1
CHECK_DEADLOCK FALSE
INVARIANTS
    TypeOK
    OnlySanitized
    PendingIsAsked
PROPERTIES
    AnswersArrive
