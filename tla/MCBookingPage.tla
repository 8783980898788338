---------------------------- MODULE MCBookingPage ----------------------------
(* Instances of BookingPage for TLC: a court of the venue with two slots,   *)
(* one with one slot, and a court of another venue.                         *)
EXTENDS BookingPage, TLC

CONSTANTS p1, p2, f1

MCPlace == {p1, p2, f1}
MCForeign == {f1}
MCLength == (p1 :> 2) @@ (p2 :> 1) @@ (f1 :> 1)
MCDurations == {1, 2}
=============================================================================
