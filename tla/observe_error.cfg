SPECIFICATION Spec
CONSTANTS
    None = None
    Texts = {"a", "b"}
    Canon <- CanonA
    Procs = {p1}
    Near <- SelfNear
    K = 1
    MaxIterations = 2
    MaxTokens = 100
    MaxToolCalls = 100
    MaxSuccessors = 0
    MaxCallsPerTurn = 1
    Tools = {"write"}
    Finishes <- Act
    Usages = {1}
    Faults = {"embed"}
    Maintenance = {}
    Wakings <- Chat
    MaxWakes = 1
INVARIANTS
    ErrorsCloseTheRecord
