----------------------------- MODULE MCBookings -----------------------------
(* Small instances of Bookings: minutes are quarter days, two days. *)
EXTENDS Bookings, TLC

\* One slot length, opening times a whole number of slots apart.
LatticeGrids == { [open |-> 0, close |-> 4, dur |-> 2],
                  [open |-> 2, close |-> 4, dur |-> 2] }

OneGrid == { [open |-> 0, close |-> 4, dur |-> 2] }

\* The owner may also halve the slots.
MixedGrids == { [open |-> 0, close |-> 4, dur |-> 2],
                [open |-> 1, close |-> 4, dur |-> 1] }

LatticeWindows == { [start |-> 0, end |-> 4], [start |-> 2, end |-> 4],
                    [start |-> 1, end |-> 3] }

TwoWindows == { [start |-> 0, end |-> 4], [start |-> 2, end |-> 4] }

MixedWindows == { [start |-> 0, end |-> 2], [start |-> 1, end |-> 3] }

BookingSymmetry == Permutations(Booking)
=============================================================================
