------------------------------ MODULE Bookings ------------------------------
(***************************************************************************)
(* BookingsService (apps/api/src/bookings) on top of the court rows of     *)
(* module Courts.                                                          *)
(*                                                                         *)
(* Rows: bookings (status, ask), booking_slots (slots), payments.  A       *)
(* handler runs from one await to the next without interruption and then   *)
(* any other handler may run; creating, cancelling and sweeping say where  *)
(* the handlers in progress are and what they have read.  A transaction    *)
(* takes effect at its commit: one step.                                   *)
(*                                                                         *)
(* Each booking id belongs to one request, which asks for ask[b] and may   *)
(* be repeated until it succeeds.  Times are minutes of a day; dates are   *)
(* day numbers; now counts minutes from day 0.                             *)
(***************************************************************************)
EXTENDS Courts

CONSTANTS
    Booking,        \* booking ids
    Schedule,       \* recurring schedules
    NoSchedule,     \* recurringScheduleId = null
    Canceller,      \* cancel requests that may be in progress together
    Window,         \* the [start, end] that requests ask for
    DayLength,      \* minutes in a day
    LastDay,        \* days are 0 .. LastDay
    Cutoff          \* venue.cancellationCutoffHours, in minutes

ASSUME TimeAssumption ==
    /\ DayLength \in Nat \ {0}
    /\ LastDay \in Nat
    /\ Cutoff \in Nat

ASSUME WindowAssumption == Window \subseteq [start: Nat, end: Nat]

ASSUME ScheduleAssumption == NoSchedule \notin Schedule

Day == 0 .. LastDay
Instant(day, minute) == day * DayLength + minute
\* The clock stops when every booking is over.
LastInstant == Instant(LastDay + 1, 1)

VARIABLES
    now,            \* the clock
    venueStatus,    \* status of the venue the courts belong to
    ask,            \* what the request of each booking asks for
    status,         \* status of each bookings row, "none" when there is no row
    cancelledBy,    \* column cancelled_by
    slots,          \* rows of booking_slots
    payments,       \* bookings that have a payments row
    outbox,         \* mails handed over, <<kind, booking>>
    creating,       \* progress of createBookingRecord and its caller
    seen,           \* the court's grid that handler read
    cancelling,     \* progress of the cancel handlers
    sweeping        \* progress of cancelFutureOccurrences

rowVars == <<status, cancelledBy, slots, payments>>
bookingVars == <<ask, rowVars, outbox, creating, seen, cancelling, sweeping>>
vars == <<now, venueStatus, bookingVars, courtVars>>

-----------------------------------------------------------------------------
Request == [court: Court, day: Day, window: Window,
            schedule: Schedule \cup {NoSchedule}]
SlotRow == [booking: Booking, court: Court, day: Day, start: Nat]
Actor == {"customer", "owner"}
NotCancelling == [pc |-> "idle"]
Cancelling == {NotCancelling} \cup
    [pc: {"loaded", "checked", "notify"}, booking: Booking, by: Actor]
NotSweeping == [pc |-> "idle"]
Sweeping == {NotSweeping} \cup [pc: {"found"}, found: SUBSET Booking]

\* Every variable holds a value of its column's or its handler's type.
TypeOK ==
    /\ CourtsTypeOK
    /\ now \in Nat
    /\ venueStatus \in {"pending_approval", "active"}
    /\ ask \in [Booking -> Request]
    /\ status \in [Booking -> {"none", "confirmed", "cancelled", "completed"}]
    /\ cancelledBy \in [Booking -> Actor \cup {"nobody"}]
    /\ slots \subseteq SlotRow
    /\ payments \subseteq Booking
    /\ outbox \subseteq {"confirmed", "cancelled"} \X Booking
    /\ creating \in [Booking -> {"idle", "court", "ready", "notify"}]
    /\ seen \in [Booking -> Grid]
    /\ cancelling \in [Canceller -> Cancelling]
    /\ sweeping \in [Schedule -> Sweeping]

Init ==
    /\ CourtsInit
    /\ now = 0
    /\ venueStatus \in {"pending_approval", "active"}
    /\ ask \in [Booking -> Request]
    /\ status = [b \in Booking |-> "none"]
    /\ cancelledBy = [b \in Booking |-> "nobody"]
    /\ slots = {}
    /\ payments = {}
    /\ outbox = {}
    /\ creating = [b \in Booking |-> "idle"]
    /\ seen = [b \in Booking |-> court[ask[b].court].grid]
    /\ cancelling = [k \in Canceller |-> NotCancelling]
    /\ sweeping = [s \in Schedule |-> NotSweeping]

-----------------------------------------------------------------------------
Today == now \div DayLength
StartsAt(b) == Instant(ask[b].day, ask[b].window.start)
EndsAt(b) == Instant(ask[b].day, ask[b].window.end)
Live(b) == status[b] \in {"confirmed", "completed"}

\* The booking_slots rows of b, on the grid its handler read.
SlotRows(b) ==
    { [booking |-> b, court |-> ask[b].court, day |-> ask[b].day, start |-> t] :
        t \in BookingSlotStarts(ask[b].window.start, ask[b].window.end, seen[b]) }

RowsOf(b) == { r \in slots : r.booking = b }

\* Mutant: the unique index also covers booking_id.
CollidesWithItselfOnly(b) ==
    \E r \in slots, n \in SlotRows(b) : r = n

\* Mutant: only the first slot of the window is compared.
CollidesAtStartOnly(b) ==
    \E r \in slots :
        /\ r.court = ask[b].court
        /\ r.day = ask[b].day
        /\ r.start = ask[b].window.start

\* The unique index on (court_id, date, slot_start) rejects the rows of b.
Collides(b) ==
    \E r \in slots, n \in SlotRows(b) :
        r.court = n.court /\ r.day = n.day /\ r.start = n.start

-----------------------------------------------------------------------------
(* createBookingRecord, create, createForOwner *)

\* The date check and the read of the court.
ReadCourt(b) ==
    /\ creating[b] = "idle"
    /\ status[b] = "none"
    /\ ask[b].day >= Today
    /\ court[ask[b].court].status = "active"
    /\ creating' = [creating EXCEPT ![b] = "court"]
    /\ seen' = [seen EXCEPT ![b] = court[ask[b].court].grid]
    /\ UNCHANGED <<now, venueStatus, ask, rowVars, outbox, cancelling, sweeping, courtVars>>

Bookable(b) ==
    /\ venueStatus = "active"
    /\ FitsGrid(ask[b].window.start, ask[b].window.end, seen[b])

\* The read of the venue, the venue and alignment checks, the price.
CheckRequest(b) ==
    /\ creating[b] = "court"
    /\ creating' = [creating EXCEPT ![b] = IF Bookable(b) THEN "ready" ELSE "idle"]
    /\ UNCHANGED <<now, venueStatus, ask, rowVars, outbox, seen, cancelling, sweeping, courtVars>>

\* The transaction: booking, slots and payment, all or none.
CommitBooking(b) ==
    /\ creating[b] = "ready"
    /\ ~Collides(b)
    /\ creating' = [creating EXCEPT ![b] = "notify"]
    /\ status' = [status EXCEPT ![b] = "confirmed"]
    /\ slots' = slots \cup SlotRows(b)
    /\ payments' = payments \cup {b}
    /\ UNCHANGED <<now, venueStatus, ask, cancelledBy, outbox, seen, cancelling, sweeping, courtVars>>

\* A unique violation rolls back and becomes a ConflictException.
RejectConflict(b) ==
    /\ creating[b] = "ready"
    /\ Collides(b)
    /\ creating' = [creating EXCEPT ![b] = "idle"]
    /\ UNCHANGED <<now, venueStatus, ask, rowVars, outbox, seen, cancelling, sweeping, courtVars>>

\* After the commit; a mail that cannot be sent is logged and forgotten.
NotifyCreated(b) ==
    /\ creating[b] = "notify"
    /\ creating' = [creating EXCEPT ![b] = "idle"]
    /\ outbox' \in {outbox, outbox \cup {<<"confirmed", b>>}}
    /\ UNCHANGED <<now, venueStatus, ask, rowVars, seen, cancelling, sweeping, courtVars>>

-----------------------------------------------------------------------------
(* cancelByCustomer, cancelByOwner *)

\* The read of the booking; an owner finds it through the venue's courts.
LoadForCancel(k, b, by) ==
    /\ cancelling[k] = NotCancelling
    /\ status[b] = "confirmed"
    /\ by = "owner" => CourtExists(ask[b].court)
    /\ cancelling' = [cancelling EXCEPT ![k] =
                        [pc |-> "loaded", booking |-> b, by |-> by]]
    /\ UNCHANGED <<now, venueStatus, ask, rowVars, outbox, creating, seen, sweeping, courtVars>>

MayCancel(b, by) ==
    /\ CourtExists(ask[b].court)
    /\ by = "customer" => now < StartsAt(b) - Cutoff

\* Mutant: the mail goes out before the transaction.
CheckCancelAndNotify(k) ==
    /\ cancelling[k].pc = "loaded"
    /\ LET c == cancelling[k] IN
        IF MayCancel(c.booking, c.by)
            THEN /\ cancelling' = [cancelling EXCEPT ![k].pc = "checked"]
                 /\ outbox' = outbox \cup {<<"cancelled", c.booking>>}
            ELSE /\ cancelling' = [cancelling EXCEPT ![k] = NotCancelling]
                 /\ UNCHANGED outbox
    /\ UNCHANGED <<now, venueStatus, ask, rowVars, creating, seen, sweeping, courtVars>>

\* The reads of court and venue and the customer's cutoff.
CheckCancel(k) ==
    /\ cancelling[k].pc = "loaded"
    /\ cancelling' = [cancelling EXCEPT ![k] =
                        IF MayCancel(@.booking, @.by)
                            THEN [@ EXCEPT !.pc = "checked"]
                            ELSE NotCancelling]
    /\ UNCHANGED <<now, venueStatus, ask, rowVars, outbox, creating, seen, sweeping, courtVars>>

\* Mutant: cancelled_by gets the booking's id.
CommitCancelByBooking(k) ==
    /\ cancelling[k].pc = "checked"
    /\ LET b == cancelling[k].booking IN
        /\ status' = [status EXCEPT ![b] = "cancelled"]
        /\ cancelledBy' = [cancelledBy EXCEPT ![b] = b]
        /\ slots' = slots \ RowsOf(b)
    /\ cancelling' = [cancelling EXCEPT ![k].pc = "notify"]
    /\ UNCHANGED <<now, venueStatus, ask, payments, outbox, creating, seen, sweeping, courtVars>>

\* The transaction of cancel.  It saves the booking read at LoadForCancel:
\* the row becomes cancelled whatever its status is by now.
CommitCancel(k) ==
    /\ cancelling[k].pc = "checked"
    /\ LET b == cancelling[k].booking IN
        /\ status' = [status EXCEPT ![b] = "cancelled"]
        /\ cancelledBy' = [cancelledBy EXCEPT ![b] = cancelling[k].by]
        /\ slots' = slots \ RowsOf(b)
    /\ cancelling' = [cancelling EXCEPT ![k].pc = "notify"]
    /\ UNCHANGED <<now, venueStatus, ask, payments, outbox, creating, seen, sweeping, courtVars>>

NotifyCancelled(k) ==
    /\ cancelling[k].pc = "notify"
    /\ outbox' \in {outbox, outbox \cup {<<"cancelled", cancelling[k].booking>>}}
    /\ cancelling' = [cancelling EXCEPT ![k] = NotCancelling]
    /\ UNCHANGED <<now, venueStatus, ask, rowVars, creating, seen, sweeping, courtVars>>

-----------------------------------------------------------------------------
(* cancelFutureOccurrences *)

\* The find of its transaction.
FindOccurrences(s) ==
    /\ sweeping[s] = NotSweeping
    /\ sweeping' = [sweeping EXCEPT ![s] =
            [pc |-> "found",
             found |-> { b \in Booking : /\ ask[b].schedule = s
                                         /\ status[b] = "confirmed"
                                         /\ ask[b].day >= Today }]]
    /\ UNCHANGED <<now, venueStatus, ask, rowVars, outbox, creating, seen, cancelling, courtVars>>

\* Mutant: the occurrences are cancelled and their slots stay booked.
CommitSweepKeepingSlots(s) ==
    /\ sweeping[s].pc = "found"
    /\ LET found == sweeping[s].found IN
        /\ status' = [b \in Booking |->
                        IF b \in found THEN "cancelled" ELSE status[b]]
        /\ cancelledBy' = [b \in Booking |->
                        IF b \in found THEN "owner" ELSE cancelledBy[b]]
    /\ sweeping' = [sweeping EXCEPT ![s] = NotSweeping]
    /\ UNCHANGED <<now, venueStatus, ask, slots, payments, outbox, creating, seen,
                   cancelling, courtVars>>

\* Its saves and deletes, at the commit.
CommitSweep(s) ==
    /\ sweeping[s].pc = "found"
    /\ LET found == sweeping[s].found IN
        /\ status' = [b \in Booking |->
                        IF b \in found THEN "cancelled" ELSE status[b]]
        /\ cancelledBy' = [b \in Booking |->
                        IF b \in found THEN "owner" ELSE cancelledBy[b]]
        /\ slots' = { r \in slots : r.booking \notin found }
    /\ sweeping' = [sweeping EXCEPT ![s] = NotSweeping]
    /\ UNCHANGED <<now, venueStatus, ask, payments, outbox, creating, seen, cancelling, courtVars>>

-----------------------------------------------------------------------------
\* Mutant: the UPDATE has no condition on the status.
CompleteWhateverIsPast ==
    /\ status' = [b \in Booking |->
                    IF status[b] # "none" /\ EndsAt(b) < now
                        THEN "completed" ELSE status[b]]
    /\ UNCHANGED <<now, venueStatus, ask, cancelledBy, slots, payments, outbox,
                   creating, seen, cancelling, sweeping, courtVars>>

\* completePastBookings, one UPDATE at the start of every booking list.
CompletePastBookings ==
    /\ status' = [b \in Booking |->
                    IF status[b] = "confirmed" /\ EndsAt(b) < now
                        THEN "completed" ELSE status[b]]
    /\ UNCHANGED <<now, venueStatus, ask, cancelledBy, slots, payments, outbox,
                   creating, seen, cancelling, sweeping, courtVars>>

-----------------------------------------------------------------------------
(* The rest of the system, as far as bookings see it *)

\* CourtsService.remove counts every booking the court ever had.
BookingsOfCourt(c) == { b \in Booking : status[b] # "none" /\ ask[b].court = c }

CourtStep(c) ==
    /\ \/ OwnerCourtStep(c)
       \/ CountBookings(c, Cardinality(BookingsOfCourt(c)))
    /\ UNCHANGED <<now, venueStatus, bookingVars>>

\* The admin approves the venue.
ApproveVenue ==
    /\ venueStatus = "pending_approval"
    /\ venueStatus' = "active"
    /\ UNCHANGED <<now, bookingVars, courtVars>>

Tick ==
    /\ now < LastInstant
    /\ now' = now + 1
    /\ UNCHANGED <<venueStatus, bookingVars, courtVars>>

\* The server restarts: transactions not committed and mails not sent are lost.
Restart ==
    /\ creating' = [b \in Booking |-> "idle"]
    /\ cancelling' = [k \in Canceller |-> NotCancelling]
    /\ sweeping' = [s \in Schedule |-> NotSweeping]
    /\ LoseCourtRequests
    /\ UNCHANGED <<now, venueStatus, ask, rowVars, outbox, seen>>

-----------------------------------------------------------------------------
CreateStep(b) ==
    \/ ReadCourt(b)
    \/ CheckRequest(b)
    \/ CommitBooking(b)
    \/ RejectConflict(b)
    \/ NotifyCreated(b)

CancelStep(k) ==
    \/ \E b \in Booking, by \in Actor : LoadForCancel(k, b, by)
    \/ CheckCancel(k)
    \/ CommitCancel(k)
    \/ NotifyCancelled(k)

SweepStep(s) == FindOccurrences(s) \/ CommitSweep(s)

Next ==
    \/ \E b \in Booking : CreateStep(b)
    \/ \E k \in Canceller : CancelStep(k)
    \/ \E s \in Schedule : SweepStep(s)
    \/ CompletePastBookings
    \/ \E c \in Court : CourtStep(c)
    \/ ApproveVenue
    \/ Tick
    \/ Restart

Spec == Init /\ [][Next]_vars

-----------------------------------------------------------------------------
(* Properties *)

\* A booking is whole or absent: a confirmed or completed booking has exactly
\* the slot rows of its window and one payment row; a cancelled one has given
\* every slot back and keeps its payment; one that was refused left nothing.
BookingIsWhole ==
    \A b \in Booking :
        /\ RowsOf(b) = IF Live(b) THEN SlotRows(b) ELSE {}
        /\ b \in payments <=> status[b] # "none"

\* Two live bookings of a court never share a minute.
NoDoubleBooking ==
    \A a, b \in Booking :
        a # b /\ Live(a) /\ Live(b)
        /\ ask[a].court = ask[b].court /\ ask[a].day = ask[b].day
            => ~Overlap(ask[a].window.start, ask[a].window.end,
                        ask[b].window.start, ask[b].window.end)

\* getAvailability: a slot of the court's grid of today is marked booked.
IsBooked(c, d, t) ==
    \E r \in slots : r.court = c /\ r.day = d /\ r.start = t

\* The calendar tells the truth: a slot it lists is marked booked exactly
\* when a live booking of that court and day covers part of it.
CalendarIsHonest ==
    \A c \in Court, d \in Day :
        CourtExists(c) =>
            \A t \in SlotTimeStarts(court[c].grid) :
                IsBooked(c, d, t) <=>
                    \E b \in Booking :
                        /\ Live(b) /\ ask[b].court = c /\ ask[b].day = d
                        /\ Overlap(t, t + court[c].grid.dur,
                                   ask[b].window.start, ask[b].window.end)

\* No mail announces what the database does not hold: a confirmation is about
\* a booking that was committed, a cancellation about one still cancelled.
MailIsTrue ==
    \A b \in Booking :
        /\ <<"confirmed", b>> \in outbox => status[b] # "none"
        /\ <<"cancelled", b>> \in outbox => status[b] = "cancelled"

\* A cancelled booking never comes back: neither the sweep of a schedule, nor
\* lazy completion, nor a second cancel gives it another status.
CancelledIsFinal ==
    [][\A b \in Booking :
        status[b] = "cancelled" => status'[b] = "cancelled"]_vars

\* What the design promises of deletion: a court that ever had a booking is
\* not deleted.
BookedCourtExists ==
    \A b \in Booking : status[b] # "none" => CourtExists(ask[b].court)

\* The progress of a handler agrees with the rows: one that has not committed
\* has no row, one that has committed has, and a handler holding a booking it
\* has read holds one that was made.
HandlersAgreeWithRows ==
    /\ \A b \in Booking :
        /\ creating[b] \in {"court", "ready"} => status[b] = "none"
        /\ creating[b] = "notify" => status[b] # "none"
    /\ \A k \in Canceller :
        cancelling[k] # NotCancelling =>
            /\ status[cancelling[k].booking] # "none"
            /\ cancelling[k].pc = "notify" =>
                status[cancelling[k].booking] = "cancelled"
    /\ \A s \in Schedule :
        sweeping[s] # NotSweeping =>
            \A b \in sweeping[s].found : status[b] # "none"

\* Every booking fits the grid its handler read, from the check on.
BookingsFitTheirGrid ==
    \A b \in Booking :
        status[b] # "none" \/ creating[b] = "ready" =>
            FitsGrid(ask[b].window.start, ask[b].window.end, seen[b])

\* A slot of the calendar has one row at most.
SlotHasOneHolder ==
    \A r1, r2 \in slots :
        r1.court = r2.court /\ r1.day = r2.day /\ r1.start = r2.start
            => r1 = r2

\* What the proofs carry from step to step: the properties above do not
\* follow from each other without what the handlers in progress have read.
InductiveInvariant ==
    /\ TypeOK
    /\ HandlersAgreeWithRows
    /\ BookingsFitTheirGrid
    /\ BookingIsWhole
    /\ SlotHasOneHolder
    /\ MailIsTrue

\* The slots a booking holds, for the calendar it implements.
HeldSlots ==
    [b \in Booking |->
        { <<r.court, r.day, r.start>> : r \in { x \in slots : x.booking = b } }]

Calendar == INSTANCE CourtCalendar WITH
    Slot <- Court \X Day \X Nat,
    held <- HeldSlots,
    used <- { b \in Booking : status[b] # "none" }

\* Bookings implement the calendar of module CourtCalendar.
ImplementsCalendar == Calendar!Spec
=============================================================================
