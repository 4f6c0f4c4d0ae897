SPECIFICATION FairSpec
CONSTANTS
    None = None
    Blank = Blank
    x = x
    y = y
    Letters = {x, y}
    MaxEntries = 2
    MaxChars = 2
    Items <- MCItems
    MaxItems = 3
    Retries = 2
    CompleteTimeout = 2
    EmbedTimeout = 1
    MaxIterations = 2
    MaxWall = 3
    MaxCalls = 2
INVARIANTS
    TypeOK
    PromptIsBounded
    RestoresWhatWasShown
    OverrunIsBounded
PROPERTIES
    StateIsTheAnswer
    WakeEnds
