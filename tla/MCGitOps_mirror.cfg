\* Three requests in the five scenarios of MCGitOps: a patch, a registration and a
\* revert in one working tree with a developer who pushes, or direct deployments
\* and an undeploy; one restart of the agent, two polls of Argo CD.
SPECIFICATION Spec
CONSTANTS
    r1 = r1
    r2 = r2
    r3 = r3
    m1 = m1
    m2 = m2
    Requests = {r1, r2, r3}
    Manifests = {m1, m2}
    Developer = dev
    Scenarios <- MCScenarios
    MaxPolls = 2
    MaxRestarts = 1
INVARIANTS
    TypeOK
PROPERTIES
    ChangesLandAndStay
    RequestsEnd
\* The requests are served and nobody asks for more: the model stops there.
CHECK_DEADLOCK FALSE
