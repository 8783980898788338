CONSTANTS
    Court = {c1}
    Booking = {b1, b2}
    Schedule = {}
    NoSchedule = NoSchedule
    Canceller = {k1}
    Grid <- MixedGrids
    Window <- MixedWindows
    DayLength = 4
    LastDay = 0
    Cutoff = 1
SPECIFICATION Spec
INVARIANT NoDoubleBooking
CHECK_DEADLOCK FALSE
