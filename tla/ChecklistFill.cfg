SPECIFICATION FairSpec
CONSTANTS
    None = None
    h1 = h1
    h2 = h2
    opening = opening
    extra = extra
    sweep = sweep
    till = till
    tidy = tidy
    p1 = p1
    p2 = p2
    Handlers = {h1, h2}
    Operations = {"tick", "attach", "detach", "finish", "autofinish", "finalize", "settings", "byhand", "delete", "restore"}
    Instances = {opening}
    Items = {till}
    InstanceOf <- InstanceOfItem
    RequiredInstances = {opening}
    RequiredItems = {till}
    PhotoPolicy <- PolicyOfItem
    Photos = {p1, p2}
    MaxPhotos = 1
    Graces = {0, 1}
    ScheduledEnd = 1
    LastTick = 1
INVARIANTS
    TypeOK
    PhotoLimit
PROPERTIES
    IncompleteIsTerminal
    StatusIsTrueWhenWritten
    ExpiredIsFinal
