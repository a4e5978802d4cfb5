\* Two calls of the tool, so that two jobs of the incident may overlap; two
\* attempts, two requests for a pull request with two files, a poll before each deadline
\* and one restart.
SPECIFICATION Spec
CONSTANTS
    MaxCalls = 2
    MaxAttempts = 2
    MaxRequests = 2
    MaxPolls = 1
    MaxRestarts = 1
    MaxCancels = 1
    f1 = f1
    f2 = f2
    Files = {f1, f2}
    Patches <- MCPatches
INVARIANTS
    TypeOK
    OpenedPatchIsIntact
PROPERTIES
    WorkEnds
\* The calls are used up and everything has ended: the model stops there.
CHECK_DEADLOCK FALSE
