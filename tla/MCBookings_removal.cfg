CONSTANTS
    Court = {c1}
    Booking = {b1, b2}
    Schedule = {}
    NoSchedule = NoSchedule
    Canceller = {k1}
    Grid <- OneGrid
    Window <- TwoWindows
    DayLength = 4
    LastDay = 0
    Cutoff = 1
SPECIFICATION Spec
INVARIANT BookedCourtExists
CHECK_DEADLOCK FALSE
