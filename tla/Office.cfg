SPECIFICATION FairSpec
CONSTANTS
    None = None
    h1 = h1
    h2 = h2
    q1 = q1
    r1 = r1
    l1 = l1
    l2 = l2
    s1 = s1
    s2 = s2
    f1 = f1
    f2 = f2
    Handlers = {h1, h2}
    Questions = {q1}
    Thresholds = {0, 100}
    Tries = {2}
    LastId = 1
    LastNumber = 2
    ScheduledEnd = 0
    RequestDays = 0
    LastDay = 1
    LastRequest = 2
    Day = 4
    Week = 2
    Times <- ByDayOrNight
    Gaps <- BackOrForward
    Transition = 4
    Early = 1
    LastMoment = 5
    MaxScheduleEdits = 1
    Roles = {r1}
    Locations = {l1, l2}
    Schedules = {s1, s2}
    Order <- ByDistance
    MaxWorkplaceEdits = 2
    FileIds = {f1, f2}
    MaxDeletes = 2
    LastNode = 3
    Grants <- AllowedOrShared
    MaxChanges = 2
    Root = Root
    Gone = Gone
INVARIANTS
    TypeOK
    UsedIsEarned
    ResultHasAttempt
    OneLiveRequest
    NobodyTurnedAway
    ListedIsStartable
    PreviewCoversIssued
    LinkedHasObject
    NoMutualParents
    ReadableIsListed
PROPERTIES
    JudgedBySnapshot
    PlanEndsAfterStart
    CleanupSparesLinked
    StorageIsCollected
CHECK_DEADLOCK FALSE
