CONSTANTS
    Booking = {b1}
    Marker = {m1, m2}
    Refunder = {r1, r2}
    Customer = {c1, c2}
    Admin = {a1}
SPECIFICATION Spec
PROPERTY RefundIsFinal
CHECK_DEADLOCK FALSE
