SPECIFICATION Spec
CONSTANTS
    u1 = u1
    u2 = u2
    s1 = s1
    s2 = s2
    s3 = s3
    p1 = p1
    a1 = a1
    c1 = c1
    e1 = e1
    e2 = e2
    None = None
    Users = {u1, u2}
    PaidShifts = {s1, s2, s3}
    PenaltyIds = {p1}
    AdjustmentIds = {a1}
    CategoryIds = {c1}
    Names = {"bonus", "tips"}
    Amounts = {1}
    Fines = {1, 2}
    LastMoment = 2
    DayLength = 2
    MonthLength = 1
    Zones = {0, 1}
    Worlds <- ThreeWorlds
    Requests <- ReportsAsked
    OvertimePay = {1800}
    MaxEdits = 2
    Staff = {e1, e2}
    ShiftIds = {1, 2}
    Versions <- SomeVersions
    Ranges <- InclusiveRange
    Part = 2
    Tolerance = 0
    FirstTick = 3
    LastTick = 4
    MaxCommits = 3
INVARIANTS TypeOK ReportAddsUp SheetsMatchSummary GranularityAgrees OwnPagesAgree ReportsAgree
PROPERTY RateChangesItsInterval
