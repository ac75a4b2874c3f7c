SPECIFICATION Spec
CONSTANTS
    None = None
    h1 = h1
    h2 = h2
    f1 = f1
    f2 = f2
    FileIds = {f1, f2}
    Clients = {h1}
    MaxDeletes = 2
INVARIANTS
    RollbackKeepsObjects
CHECK_DEADLOCK FALSE
