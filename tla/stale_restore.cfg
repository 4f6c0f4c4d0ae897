SPECIFICATION Spec
CONSTANTS
    None = None
    Texts = {"a", "b"}
    Canon <- CanonA
    Procs = {p1, p2}
    Near <- SelfNear
    K = 1
    MaxIterations = 2
    MaxTokens = 100
    MaxToolCalls = 100
    MaxSuccessors = 0
    MaxCallsPerTurn = 0
    Tools = {}
    Finishes <- Act
    Usages = {1}
    Faults = {}
    Maintenance = {"rebuild", "beside"}
    Wakings <- Schedule
    MaxWakes = 2
SYMMETRY ProcSymmetry
PROPERTIES
    RestoresTheState
