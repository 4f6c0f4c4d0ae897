SPECIFICATION Spec
CONSTANTS
    None = None
    Texts = {"a", "b"}
    Canon <- CanonABlank
    Procs = {p1}
    Near <- SelfNear
    K = 1
    MaxIterations = 2
    MaxTokens = 100
    MaxToolCalls = 100
    MaxSuccessors = 0
    MaxCallsPerTurn = 1
    Tools = {"write", "supersede"}
    Finishes = {}
    Usages = {1}
    Faults = {"llm"}
    Maintenance = {"rebuild"}
    Wakings <- ChatAndReflect
    MaxWakes = 2
INVARIANTS
    LiveIsDerived
    StateRegenerable
    RetrievedResolve
    RecallIsFlat
