CONSTANTS
    Owner = {o1}
    MaxVenue = 2
    Slug = {s1, s2}
    Process = {p1}
    Admin = {a1}
    MinGap = 1
    Window = 2
    MaxChanges = 2
    LastDay = 3
    MaxLogo = 2
    Mixes <- VenueMixes
SPECIFICATION Spec
INVARIANTS
    OneDefault
    SlugChangesAreLimited
    ActiveMeansApproved
    LogoIsOnDisk
    RemovalIsComplete
PROPERTIES
    DecisionsStand
SYMMETRY VenueSymmetry
CHECK_DEADLOCK FALSE
