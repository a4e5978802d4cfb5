SPECIFICATION DetectionSpec
CONSTANTS
    p1 = p1
    p2 = p2
    w1 = w1
    w2 = w2
    dep = dep
    Workloads = {w1, w2}
    Pods <- MCPods
    Owner <- MCOwner
    NameKey <- MCNameKey
    Setups <- MCSetups
    Cooldown = 1
    SweepCooldown = 1
    AlertCooldown = 1
    Window = 1
    CacheTime = 1
    Limit = 2
    MinGroup = 2
    Alerts <- MCAlerts
    Hooks = {"h1", "h2"}
    MaxFaults = 1
    MaxResets = 1
INVARIANTS
    AttemptsBounded
    AlertsAnswered
PROPERTIES
    SickIsReported
CHECK_DEADLOCK FALSE
