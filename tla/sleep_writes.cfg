SPECIFICATION Spec
CONSTANTS
    None = None
    Texts = {"a", "b"}
    Canon <- CanonA
    Procs = {p1}
    Near <- SelfNear
    K = 1
    MaxIterations = 2
    MaxTokens = 100
    MaxToolCalls = 100
    MaxSuccessors = 0
    MaxCallsPerTurn = 1
    Tools = {"write"}
    Finishes <- ActOrSleep
    Usages = {1}
    Faults = {}
    Maintenance = {}
    Wakings <- Schedule
    MaxWakes = 1
INVARIANTS
    SleepWritesNothing
