SPECIFICATION FairSpec
CONSTANTS
    None = None
    Texts = {"a", "b"}
    Canon <- CanonA
    Procs = {p1}
    Near <- SelfNear
    K = 1
    MaxIterations = 3
    MaxTokens = 3
    MaxToolCalls = 2
    MaxSuccessors = 1
    MaxCallsPerTurn = 2
    Tools = {"write", "misshapen", "falsy"}
    Finishes <- ActOrSleepAgain
    Usages = {1, 2}
    Faults = {"llm", "clock", "embed", "dim"}
    Maintenance = {"topup"}
    Wakings <- Schedule
    MaxWakes = 1
INVARIANTS
    OneAllowance
    RecordTellsDecision
PROPERTIES
    RunsEnd
    WakesGetClosed
