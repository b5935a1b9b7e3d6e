SPECIFICATION FairSpec
CONSTANTS
    r1 = r1
    r2 = r2
    c1 = c1
    c2 = c2
    None = None
    Replicas = {r1, r2}
    Commands = {c1, c2}
    Faults = {"signal", "crash", "connection", "broker", "unroutable"}
INVARIANTS
    TypeOK
    SettledAsHandled
    NothingForgotten
    NoConcurrentHandling
PROPERTIES
    SettlesIfServed
CHECK_DEADLOCK FALSE
