SPECIFICATION FairSpec
CONSTANTS
    r1 = r1
    c1 = c1
    None = None
    Replicas = {r1}
    Commands = {c1}
    Faults = {"signal"}
PROPERTIES
    ShutdownCompletes
CHECK_DEADLOCK FALSE
