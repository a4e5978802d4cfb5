SPECIFICATION Spec

CONSTANTS
    Envs <- BaseEnv
    PlansFor <- AllPlansFor
    NoPlan = NoPlan
    MaxIterations = 2
    MaxAgentTurns = 2
    RecursionLimit = 50
    MaxResumes = 0

INVARIANT
    ToolsMatchThePlan
