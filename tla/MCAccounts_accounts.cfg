CONSTANTS
    User = {u1, u2}
    Process = {p1, p2}
    Admin = {a1}
    MaxPassword = 3
    MaxReset = 1
    Mixes <- AccountMixes
SYMMETRY AccountSymmetry
SPECIFICATION Spec
INVARIANTS ActiveIsEarned LinkSetsOnePassword LinkWorksUntilVerified
PROPERTY DecisionsStand
CHECK_DEADLOCK FALSE
