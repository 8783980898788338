CONSTANTS
    Schedule = {s1}
    Handler = {h1}
    Operation = {"cancel"}
    Blockable = {}
    NewSchedule <- TwoDays
    NewValidTo = {}
    Week = 1
    RenewDays = 2
    Horizon = 1
    MaxSpan = 366
    LastDay = 2
    LastDate = 9
    MaxOutages = 1
SPECIFICATION Spec
INVARIANT CancelledHasNoFuture
CHECK_DEADLOCK FALSE
