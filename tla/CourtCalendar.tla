--------------------------- MODULE CourtCalendar ---------------------------
(***************************************************************************)
(* What the bookings module promises about a calendar of slots: a booking  *)
(* gets all the slots it asks for in one step or none, only when nobody    *)
(* holds one of them, keeps exactly those until they are all given back at *)
(* once, and never gets any again.  Several bookings may give back theirs  *)
(* in the same step (a recurring schedule is cancelled).                   *)
(***************************************************************************)
CONSTANTS
    Booking,
    Slot        \* a unit of the calendar: a court, a day and a time

VARIABLES
    held,       \* [Booking -> SUBSET Slot]: the slots each booking holds
    used        \* bookings that have been made

calendarVars == <<held, used>>

Init ==
    /\ held = [b \in Booking |-> {}]
    /\ used = {}

\* b takes the slots S, all of them free.
Reserve(b, S) ==
    /\ b \notin used
    /\ S \subseteq Slot
    /\ S # {}
    /\ \A other \in Booking : held[other] \cap S = {}
    /\ held' = [held EXCEPT ![b] = S]
    /\ used' = used \cup {b}

\* The bookings B give back everything they hold.
Release(B) ==
    /\ B \subseteq used
    /\ held' = [b \in Booking |-> IF b \in B THEN {} ELSE held[b]]
    /\ UNCHANGED used

Next ==
    \/ \E b \in Booking : Reserve(b, held'[b])
    \/ \E B \in SUBSET Booking : Release(B)

Spec == Init /\ [][Next]_calendarVars
=============================================================================
