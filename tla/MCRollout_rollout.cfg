SPECIFICATION Spec
CONSTANTS
    app = app
    worker = worker
    Workloads = {app, worker}
    Deploys = {1, 2}
    Setups <- MCSetups
    BuildPolls = 1
    WaitPolls = 1
    RestartPolls = 1
    WatchPolls = 2
INVARIANTS
    TypeOK
    VerdictsAreTrue
PROPERTY DeploysAreTold
CHECK_DEADLOCK FALSE
