CONSTANTS
    Schedule = {s1}
    Handler = {h1}
    Operation = {"cancel", "pause", "resume", "update"}
    Blockable = {s1}
    NewSchedule <- NowAndEarlier
    NewValidTo = {0, 2}
    Week = 1
    RenewDays = 2
    Horizon = 1
    MaxSpan = 366
    LastDay = 2
    LastDate = 9
    MaxOutages = 0
SPECIFICATION Spec
INVARIANT TypeOK
PROPERTY PastIsHistory
CHECK_DEADLOCK FALSE
