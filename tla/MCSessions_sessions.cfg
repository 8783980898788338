SPECIFICATION Spec
CONSTANTS
    Browser = {b1, b2}
    Call = {c1, c2}
    MaxPair = 3
    MaxRough = 1
SYMMETRY SessionSymmetry
VIEW SessionView
CHECK_DEADLOCK FALSE
INVARIANTS
    SessionsStayEnded
    JarIsUsable
PROPERTY
    CookiesFollowTheUser
