SPECIFICATION Spec
CONSTANTS
    None = None
    Texts = {"a", "b"}
    Canon <- CanonAB
    Procs = {p1}
    Near <- AllNear
    K = 1
    MaxIterations = 1
    MaxTokens = 100
    MaxToolCalls = 100
    MaxSuccessors = 0
    MaxCallsPerTurn = 2
    Tools = {"write", "supersede"}
    Finishes = {}
    Usages = {1}
    Faults = {"crash", "embed"}
    Maintenance = {"rebuild"}
    Wakings <- Due
    MaxWakes = 2
INVARIANTS
    TypeOK
    Provenance
    ForwardSupersession
    RebuildIsDerived
    RecallIsFlat
    TwinsNeedTwoProcesses
PROPERTIES
    RowsAreFinal
    ImplementsLedger
