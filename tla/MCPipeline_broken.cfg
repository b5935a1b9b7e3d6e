SPECIFICATION Spec
CONSTANTS
    MaxItems = 2
    BatchSize = 2
    Feeds <- BrokenFeed
INVARIANTS
    DecodeErrorKeepsBatches
CHECK_DEADLOCK FALSE
