SPECIFICATION Spec
CONSTANTS
    Browser = {b1, b2}
    Call = {c1, c2}
    MaxPair = 3
    MaxRough = 1
SYMMETRY SessionSymmetry
CHECK_DEADLOCK FALSE
INVARIANT
    PasswordChangeEndsAll
