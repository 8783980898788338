CONSTANTS
    Schedule = {s1, s2}
    Handler = {h1}
    Operation = {}
    Blockable = {s1}
    NewSchedule <- TwoDays
    NewValidTo = {}
    Week = 1
    RenewDays = 2
    Horizon = 1
    MaxSpan = 366
    LastDay = 3
    LastDate = 12
    MaxOutages = 0
SPECIFICATION Spec
INVARIANT NextRenewalIsPossible
CHECK_DEADLOCK FALSE
