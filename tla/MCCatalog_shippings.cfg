SPECIFICATION Spec
CONSTANTS
    None = None
    i1 = i1
    i2 = i2
    Products = {1, 2}
    Importers = {i1, i2}
    Feeds <- SmallFeeds
    Earlier = {{}}
    BatchSize = 2
    MaxClock = 2
    Faults = {}
PROPERTIES
    ShippingsFollowProduct
CHECK_DEADLOCK FALSE
