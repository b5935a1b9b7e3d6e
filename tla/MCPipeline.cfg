SPECIFICATION FairSpec
CONSTANTS
    MaxItems = 4
    BatchSize = 2
    Feeds <- AnyFeeds
INVARIANTS
    TypeOK
    StoredIsPrefix
    SuccessIsComplete
    StatusIsRootCause
    BatchShape
    NeverOvercounts
PROPERTIES
    ImplementsImport
    Termination
CHECK_DEADLOCK FALSE
