SPECIFICATION Spec
CONSTANTS
    Month = 1
    GraceDays = 1
    NoticeDays = {1}
    None = None
    h1 = h1
    h2 = h2
    p1 = p1
    p2 = p2
    Handlers = {h1, h2}
    Payments = {p1}
    PlansOnSale = {"standard"}
    BillingPeriods = {1}
    ExtendMonths = {1}
    Patches <- SomePatches
    Operations = {"checkout", "webhook"}
    WrongAnswers = {"mismatch"}
    ReuseWindow = 0
    TrialDays = 0
    LastDay = 0
    RefundBound = 2
    LastPeriod = 2
INVARIANT RefundLoggedOnce
CHECK_DEADLOCK FALSE
