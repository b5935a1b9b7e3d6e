SPECIFICATION Spec
CONSTANTS
    w1 = w1
    a = a
    Workers = {w1}
    Shops = {a}
    MaxBegins = 2
    Faults = {"shutdown"}
INVARIANTS
    NoOrphan
CHECK_DEADLOCK FALSE
