SPECIFICATION Spec

CONSTANTS
    a = a
    b = b
    c = c
    e = e
    x = x
    y = y
    z = z
    n1 = n1
    n2 = n2
    d1 = d1
    d2 = d2
    Requests = {a, b, c}
    Resources = {x, y, z}
    ResourceOf <- AllDifferent
    Namespaces = {n1, n2}
    NamespaceOf <- OnePlace
    NoRun = NoRun
    Limit = 1
    Drains = {d1}
    Stores = {"postgres"}
    ListLimit = 1
    ScanLimit = 2
    Bounds <- QueueBounds
    DedupeLimit = 2

PROPERTIES
    CapacityReachesQueue
    DeadRunsAreSwept

\* Every run may be over and every bound used up.
CHECK_DEADLOCK FALSE
