CONSTANTS
    Booking = {b1}
    Marker = {m1}
    Refunder = {r1, r2}
    Customer = {c1, c2}
    Admin = {a1, a2}
SPECIFICATION Spec
INVARIANTS
    RefundDecisionsAreCarriedOut
PROPERTIES
    MoneyIsNotForgotten
    RefundIsFinal
CHECK_DEADLOCK FALSE
