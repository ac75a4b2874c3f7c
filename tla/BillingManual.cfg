SPECIFICATION FairSpec
CONSTANTS
    Month = 1
    GraceDays = 0
    NoticeDays = {1}
    None = None
    h1 = h1
    h2 = h2
    p1 = p1
    p2 = p2
    Handlers = {h1, h2}
    Payments = {p1}
    PlansOnSale = {"standard"}
    BillingPeriods = {1}
    ExtendMonths = {1}
    Patches <- SomePatches
    Operations = {"checkout", "webhook", "poll", "extend", "patch", "notify", "delete"}
    WrongAnswers = {}
    ReuseWindow = 0
    TrialDays = 0
    LastDay = 0
    RefundBound = 0
    LastPeriod = 1
INVARIANTS
    StoredStatusHasItsDate
PROPERTIES
    CreditedFromCommittedPeriod
    StalePeriodIsNotWrittenBack
    PaidIsCredited
CHECK_DEADLOCK FALSE
