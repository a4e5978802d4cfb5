SPECIFICATION Spec

CONSTANTS
    i1 = i1
    i2 = i2
    i3 = i3
    r1 = r1
    x1 = x1
    Incidents = {i1, i2, i3}
    Runs = {r1}
    NoRun = NoRun
    RunOf <- MixedRunOf
    Resources = {x1}
    ResourceOf <- OneResource
    Actions = {"restart", "git_patch"}
    Operators = {o1}
    TTL = 1
    PruneAge = 0
    MaxTime = 2
    MaxCycles = 2
    MaxAsks = 2
    NoEntry = NoEntry
    Idle = Idle

INVARIANTS
    RunAsksAreOrderedOnce
    OneDecisionPerCycle
    CommandsFollowApproval
    OneLivePendingPerRun
    StoredActionWasShown
PROPERTIES
    RunAskNeverLost
    ImplementsLifecycle
SYMMETRY
    Alike

\* The clock, the cycles and the asks may be used up.
CHECK_DEADLOCK FALSE
