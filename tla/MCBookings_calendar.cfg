CONSTANTS
    Court = {c1}
    Booking = {b1, b2}
    Schedule = {}
    NoSchedule = NoSchedule
    Canceller = {k1}
    Grid <- LatticeGrids
    Window <- LatticeWindows
    DayLength = 4
    LastDay = 0
    Cutoff = 1
SPECIFICATION Spec
INVARIANTS
    TypeOK
    NoDoubleBooking
    CalendarIsHonest
SYMMETRY BookingSymmetry
CHECK_DEADLOCK FALSE
