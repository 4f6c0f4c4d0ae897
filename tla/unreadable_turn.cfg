SPECIFICATION Spec
CONSTANTS
    None = None
    Texts = {"a", "b"}
    Canon <- CanonA
    Procs = {p1}
    Near <- SelfNear
    K = 1
    MaxIterations = 1
    MaxTokens = 100
    MaxToolCalls = 100
    MaxSuccessors = 0
    MaxCallsPerTurn = 1
    Tools = {"write", "misshapen"}
    Finishes <- Act
    Usages = {1}
    Faults = {}
    Maintenance = {"rebuild"}
    Wakings <- Schedule
    MaxWakes = 2
INVARIANTS
    LiveIsDerived
