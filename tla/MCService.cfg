SPECIFICATION Spec
CONSTANTS
    r1 = r1
    r2 = r2
    c1 = c1
    c2 = c2
    a = a
    b = b
    None = None
    Replicas = {r1, r2}
    Commands = {c1, c2}
    Shops = {a, b}
    Bodies <- AnyBodies
    MaxBreaks = 1
SYMMETRY Symmetry
INVARIANTS
    TypeOK
    AckedHaveRuns
    DuplicatesNeedBreaks
    AtMostOneRunning
PROPERTIES
    ImplementsRuns
    OrphanBlocksShop
    OrphanedShopRefuses
CHECK_DEADLOCK FALSE
