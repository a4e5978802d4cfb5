SPECIFICATION KnowledgeSpec
CONSTANTS
    r1 = r1
    r2 = r2
    Runs = {r1, r2}
    Workloads = {"shop", "cart"}
    KeyOrder <- MCKeyOrder
    Alike <- MCAlike
    Containing <- MCContaining
    AskLimit = 4
    Setups <- MCSetups
INVARIANTS
    KnowledgeTypes
    KnowledgeIsSound
    AnswersEndAsking
PROPERTY SimilarAreMerged
CHECK_DEADLOCK FALSE
