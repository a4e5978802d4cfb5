SPECIFICATION Spec
CONSTANTS
    w1 = w1
    w2 = w2
    h1 = h1
    h2 = h2
    n1 = n1
    n2 = n2
    Targets = {w1, w2}
    Handlers = {h1, h2}
    Notices = {n1, n2}
    Setups <- MCSetups
    MaxMessages = 3
    MaxRuns = 2
INVARIANTS
    TypeOK
    OneAnswerPerPrompt
    InvestigationsAreReal
SYMMETRY Symmetry
CHECK_DEADLOCK FALSE
