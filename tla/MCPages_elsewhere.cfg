SPECIFICATION PageSpec
CONSTANTS
    k1 = k1
    k2 = k2
    Key <- MCKey
    Screens <- NewCourtScreen
    MaxAsks = 2
    MaxPosts = 2
    MaxActs = 4
CHECK_DEADLOCK FALSE
INVARIANTS
    AddedWhereItIsShown
