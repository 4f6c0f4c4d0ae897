SPECIFICATION Spec
CONSTANTS
    None = None
    Texts = {"a", "b"}
    Canon <- CanonA
    Procs = {p1, p2}
    Near <- SelfNear
    K = 1
    MaxIterations = 1
    MaxTokens = 100
    MaxToolCalls = 100
    MaxSuccessors = 0
    MaxCallsPerTurn = 1
    Tools = {"write", "supersede", "search"}
    Finishes = {}
    Usages = {1}
    Faults = {"crash","lock"}
    Maintenance = {}
    Wakings <- Schedule
    MaxWakes = 2
SYMMETRY ProcSymmetry
INVARIANTS
    Provenance
    ForwardSupersession
    OwnsOpenWake
    TwinsNeedTwoProcesses
PROPERTIES
    HistoryIsAppendOnly
