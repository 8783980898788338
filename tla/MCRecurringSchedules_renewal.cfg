CONSTANTS
    Schedule = {s1}
    Handler = {h1}
    Operation = {"cancel", "pause"}
    Blockable = {}
    NewSchedule <- ThreeDays
    NewValidTo = {}
    Week = 1
    RenewDays = 2
    Horizon = 1
    MaxSpan = 366
    LastDay = 4
    LastDate = 16
    MaxOutages = 2
SPECIFICATION FairSpec
INVARIANTS
    NextRenewalIsPossible
PROPERTIES
    RenewalLeavesNoGap
    RenewingNeverLapses
CHECK_DEADLOCK FALSE
