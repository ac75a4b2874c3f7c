SPECIFICATION FairSpec
CONSTANTS
    None = None
    h1 = h1
    h2 = h2
    Handlers = {h1}
    Operations = {"start", "pause", "resume", "finish", "autofinish", "autoresume", "create", "update", "delete", "restore", "schedule"}
    Contexts = {"personal", "org"}
    ShiftBound = 2
    PauseBound = 2
    LastTick = 2
    PauseLists <- NoneOrOne
    Windows = {1}
    Skew = 0
    MaxDuration = 2
    PauseLimit = 2
    MaxPause = 1
    AutoFinish = TRUE
INVARIANTS
    TypeOK
    OneOpenShift
    EndIffFinished
    PausedIffOnePauseOpen
    OverlapWithinSkew
PROPERTY EndsWithSchedule
