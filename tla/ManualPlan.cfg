SPECIFICATION Spec
CONSTANTS
    None = None
    Day = 4
    Week = 2
    Times <- ByDayOrNight
    Gaps = {0}
    Transition = 4
    Early = 1
    LastMoment = 5
    MaxEdits = 1
PROPERTY ManualPlanIsTheSame
CHECK_DEADLOCK FALSE
