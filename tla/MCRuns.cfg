SPECIFICATION FairSpec
CONSTANTS
    w1 = w1
    w2 = w2
    a = a
    b = b
    Workers = {w1, w2}
    Shops = {a, b}
    MaxBegins = 3
    Faults = {"crash", "shutdown", "database"}
INVARIANTS
    TypeOK
    OwnRunIsRunning
    ShopsHaveRuns
    FirstStartIsExclusive
PROPERTIES
    FinishedIsFinal
    OrphanIsForever
    ParseReturns
CHECK_DEADLOCK FALSE
