SPECIFICATION Spec
CONSTANTS
    None = None
    h1 = h1
    h2 = h2
    Handlers = {h1, h2}
    Operations = {"start", "finish", "autofinish"}
    Contexts = {"personal", "org"}
    ShiftBound = 2
    PauseBound = 1
    LastTick = 1
    PauseLists <- NoneOrOne
    Windows = {1}
    Skew = 1
    MaxDuration = 2
    PauseLimit = 2
    MaxPause = 0
    AutoFinish = TRUE
SYMMETRY Symmetry
INVARIANT OneOpenShift
