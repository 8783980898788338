------------------------------ MODULE SlotGrid ------------------------------
(***************************************************************************)
(* The slot grid of a court: which times a booking may start and end at,   *)
(* the slot rows it occupies, and the slots the public calendar lists.     *)
(*                                                                         *)
(* A time of day is its number of minutes.  "HH:MM" strings do not appear: *)
(* timeToMinutes and toTimeString are inverse to each other between 00:00  *)
(* and 23:59, which the TIME_PATTERN of every dto demands of their inputs. *)
(* A grid is the record [open, close, dur]                                 *)
(* (openTime, closeTime, slotDurationMinutes).                             *)
(***************************************************************************)
EXTENDS Integers

\* Grids that assertOpenBeforeClose and the dto bounds let an owner save.
IsGrid(g) ==
    /\ g.open \in Nat
    /\ g.close \in Nat
    /\ g.dur \in Nat \ {0}
    /\ g.open < g.close

-----------------------------------------------------------------------------
(* booking-slot-generator.ts *)

\* Mutant: the start is not checked against the opening time's phase.
FitsGridOffPhase(start, end, g) ==
    /\ start < end
    /\ start >= g.open
    /\ end <= g.close
    /\ (end - start) % g.dur = 0

\* The four conditions under which generateBookingSlotStarts is not null.
FitsGrid(start, end, g) ==
    /\ start < end
    /\ start >= g.open
    /\ end <= g.close
    /\ (start - g.open) % g.dur = 0
    /\ (end - start) % g.dur = 0

\* Mutant: the loop stops after its first round.
FirstSlotStartOnly(start, end, g) == { start }

\* The starts its loop pushes: from start, in steps of dur, below end.
BookingSlotStarts(start, end, g) ==
    { t \in start .. (end - 1) : (t - start) % g.dur = 0 }

-----------------------------------------------------------------------------
(* slot-generator.ts *)

\* The starts of generateSlotTimes: whole slots between open and close.
SlotTimeStarts(g) ==
    { t \in g.open .. (g.close - g.dur) : (t - g.open) % g.dur = 0 }

-----------------------------------------------------------------------------
\* Two half-open intervals of minutes share a minute.
Overlap(s1, e1, s2, e2) == s1 < e2 /\ s2 < e1

\* Grids that cut the day at the same minutes: same slot length, opening
\* times a whole number of slots apart.
SameLattice(g, h) ==
    /\ g.dur = h.dur
    /\ (g.open - h.open) % g.dur = 0
=============================================================================
