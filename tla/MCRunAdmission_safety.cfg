SPECIFICATION Spec

CONSTANTS
    a = a
    b = b
    c = c
    e = e
    x = x
    y = y
    z = z
    n1 = n1
    n2 = n2
    d1 = d1
    d2 = d2
    Requests = {a, b}
    Resources = {x, y, z}
    ResourceOf <- AboutWhat
    Namespaces = {n1, n2}
    NamespaceOf <- Where
    NoRun = NoRun
    Limit = 1
    Drains = {d1, d2}
    Stores = {"postgres", "file"}
    ListLimit = 2
    ScanLimit = 1
    Bounds <- SafetyBounds
    DedupeLimit = 1

INVARIANTS
    TypeOK
    StartedOnce
    
PROPERTY
    CancelledIsNotRequeued
SYMMETRY
    Alike

\* Every run may be over and every bound used up.
CHECK_DEADLOCK FALSE
