SPECIFICATION FairSpec
CONSTANTS
    None = None
    Timers = {t1, t2}
    Users = {u}
    Cooldown = 2
    Interval = 4
    Threshold = 1
    MaxSuccessors = 1
    Period = 1
    Longest = 1
    Horizon = 1
INVARIANTS
    TypeOK
    DueQuestionTaken
PROPERTIES
    CooldownKept
    ReflectionComes
