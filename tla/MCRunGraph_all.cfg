SPECIFICATION Spec

CONSTANTS
    Envs <- AllEnvs
    PlansFor <- AllPlansFor
    NoPlan = NoPlan
    MaxIterations = 2
    MaxAgentTurns = 1
    RecursionLimit = 32
    MaxResumes = 2

INVARIANTS
    TypeOK
    UnattendedActsAreCleared
    EndedRunIsSettled

PROPERTY
    WaitingIsRespected
