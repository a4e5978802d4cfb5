\* Every action, mode and setting; a POST times out before or after the
\* executor does; two executions of the plan, so that one is a retry or a resume.
SPECIFICATION Spec
CONSTANTS
    MaxExecutions = 2
    PostTimeout = 3
    RolloutTimeouts = {1, 3}
    RestartWait = 1
    DefaultWait = 2
    ImageWait = 3
INVARIANTS
    TypeOK
    NonIdempotentSentOnce
    SuccessIsWhole
PROPERTIES
    ExecutionsEnd
\* The run ends, fails, or waits for its human: the model stops there.
CHECK_DEADLOCK FALSE
