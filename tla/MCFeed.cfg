SPECIFICATION FairSpec
CONSTANTS
    MaxTokens = 4
    HasTimeout = TRUE
    Responses <- AllResponses
    Faults = {"network", "database", "shutdown"}
INVARIANTS
    TypeOK
    WholeFeedOnly
    BadIsLast
    NilIsRecorded
    HeldOnlyIfRefused
PROPERTIES
    FeedEnds
CHECK_DEADLOCK FALSE
