SPECIFICATION Spec
CONSTANTS
    w1 = w1
    w2 = w2
    a = a
    Workers = {w1, w2}
    Shops = {a}
    MaxBegins = 3
    Faults = {}
INVARIANTS
    AtMostOneRunning
CHECK_DEADLOCK FALSE
