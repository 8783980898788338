SPECIFICATION Spec
CONSTANTS
    p1 = p1
    p2 = p2
    f1 = f1
    NoPlace = NoPlace
    NoList = NoList
    First = p1
    MaxOthers = 1
    MaxLoad = 2
    MaxPost = 2
    Durations <- MCDurations
    Place <- MCPlace
    Foreign <- MCForeign
    Length <- MCLength
CHECK_DEADLOCK FALSE
INVARIANTS
    OrderIsAsShown
    PageHolds
    ConfirmedIsBooked
PROPERTIES
    OrderIsAnswered
