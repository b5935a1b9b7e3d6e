SPECIFICATION FairSpec
CONSTANTS
    None = None
    i1 = i1
    i2 = i2
    Products = {1, 2, 3}
    Importers = {i1, i2}
    Feeds <- AllFeeds
    Earlier = {{}, {1, 2, 3}}
    BatchSize = 2
    MaxClock = 2
    Faults = {"feed", "database"}
INVARIANTS
    TypeOK
PROPERTIES
    SyncOnSuccess
    ShippingsStored
    VersionsGrow
    DeletesOnlyOutdated
    DeletedIsExact
    ImportsEnd
CHECK_DEADLOCK FALSE
