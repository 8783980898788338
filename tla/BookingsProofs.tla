--------------------------- MODULE BookingsProofs ---------------------------
(***************************************************************************)
(* Proofs about module Bookings for every value of its constants.          *)
(***************************************************************************)
EXTENDS Bookings, TLAPS

-----------------------------------------------------------------------------
\* Facts about slot grids that hold for every grid and window.

\* The remainder is 0 exactly for the multiples.
LEMMA MultipleIff ==
    ASSUME NEW x \in Int, NEW d \in Nat \ {0}
    PROVE  x % d = 0 <=> \E k \in Int : x = k * d
<1>1. ASSUME x % d = 0 PROVE \E k \in Int : x = k * d
  <2> DEFINE q == x \div d
  <2>1. x = d * q + (x % d) /\ q \in Int
    OBVIOUS
  <2> HIDE DEF q
  <2>2. x = q * d
    BY <1>1, <2>1
  <2> QED
    BY <2>1, <2>2
<1>2. ASSUME NEW k \in Int, x = k * d PROVE x % d = 0
  BY <1>2
<1> QED
  BY <1>1, <1>2

\* Differences of multiples are multiples.
LEMMA MultiplesSubtract ==
    ASSUME NEW x \in Int, NEW y \in Int, NEW d \in Nat \ {0},
           x % d = 0, y % d = 0
    PROVE  (x - y) % d = 0
<1>1. PICK i \in Int : x = i * d
  BY MultipleIff
<1>2. PICK j \in Int : y = j * d
  BY MultipleIff
<1>3. x - y = (i - j) * d /\ i - j \in Int /\ x - y \in Int
  BY <1>1, <1>2
<1> QED
  BY <1>3, MultipleIff

\* Windows on grids of one lattice start a whole number of slots apart.
LEMMA StartsAligned ==
    ASSUME NEW g, NEW h, IsGrid(g), IsGrid(h), SameLattice(g, h),
           NEW s1 \in Nat, NEW e1 \in Nat, NEW s2 \in Nat, NEW e2 \in Nat,
           FitsGrid(s1, e1, g), FitsGrid(s2, e2, h)
    PROVE  (s1 - s2) % g.dur = 0 /\ (s2 - s1) % g.dur = 0
<1> DEFINE d == g.dur
<1>1. /\ d \in Nat \ {0}
      /\ g.open \in Nat /\ h.open \in Nat
      /\ (s1 - g.open) % d = 0
      /\ (s2 - h.open) % d = 0
      /\ (g.open - h.open) % d = 0
  BY DEF IsGrid, SameLattice, FitsGrid
<1> HIDE DEF d
<1>2. ((s2 - h.open) - (g.open - h.open)) % d = 0
  BY <1>1, MultiplesSubtract
<1>3. (s2 - g.open) % d = 0
  <2>1. (s2 - h.open) - (g.open - h.open) = s2 - g.open
    BY <1>1
  <2> QED
    BY <1>2, <2>1
<1>4. ((s1 - g.open) - (s2 - g.open)) % d = 0 /\ ((s2 - g.open) - (s1 - g.open)) % d = 0
  <2>1. s1 - g.open \in Int /\ s2 - g.open \in Int
    BY <1>1
  <2> QED
    BY <1>1, <1>3, <2>1, MultiplesSubtract
<1>5. (s1 - g.open) - (s2 - g.open) = s1 - s2 /\ (s2 - g.open) - (s1 - g.open) = s2 - s1
  BY <1>1
<1> QED
  BY <1>4, <1>5 DEF d

\* Two windows that fit grids of one lattice and share a minute share the
\* start of a slot row: this is why the unique index on
\* (court_id, date, slot_start) is enough.
LEMMA OverlapSharesStart ==
    ASSUME NEW g, NEW h, IsGrid(g), IsGrid(h), SameLattice(g, h),
           NEW s1 \in Nat, NEW e1 \in Nat, NEW s2 \in Nat, NEW e2 \in Nat,
           FitsGrid(s1, e1, g), FitsGrid(s2, e2, h),
           Overlap(s1, e1, s2, e2)
    PROVE  \E t \in BookingSlotStarts(s1, e1, g) : t \in BookingSlotStarts(s2, e2, h)
<1>1. (s1 - s2) % g.dur = 0 /\ (s2 - s1) % g.dur = 0
  BY StartsAligned
<1>2. h.dur = g.dur /\ g.dur \in Nat \ {0}
  BY DEF SameLattice, IsGrid
<1>3. 0 % g.dur = 0
  BY <1>2
<1>4. CASE s1 <= s2
  <2>1. s2 \in BookingSlotStarts(s1, e1, g)
    BY <1>1, <1>4 DEF BookingSlotStarts, Overlap, FitsGrid
  <2>2. s2 - s2 = 0 /\ s2 \in s2 .. (e2 - 1)
    BY DEF FitsGrid
  <2>3. s2 \in BookingSlotStarts(s2, e2, h)
    BY <1>2, <1>3, <2>2 DEF BookingSlotStarts
  <2> QED
    BY <2>1, <2>3
<1>5. CASE s2 <= s1
  <2>1. s1 \in BookingSlotStarts(s2, e2, h)
    BY <1>1, <1>2, <1>5 DEF BookingSlotStarts, Overlap, FitsGrid
  <2>2. s1 - s1 = 0 /\ s1 \in s1 .. (e1 - 1)
    BY DEF FitsGrid
  <2>3. s1 \in BookingSlotStarts(s1, e1, g)
    BY <1>3, <2>2 DEF BookingSlotStarts
  <2> QED
    BY <2>1, <2>3
<1> QED
  BY <1>4, <1>5

\* A slot the calendar lists is itself a window that fits its grid.
LEMMA ListedSlotFits ==
    ASSUME NEW g, IsGrid(g), NEW t \in SlotTimeStarts(g)
    PROVE  t \in Nat /\ t + g.dur \in Nat /\ FitsGrid(t, t + g.dur, g)
<1>1. t \in Int /\ t >= g.open /\ t + g.dur <= g.close /\ (t - g.open) % g.dur = 0
  BY DEF SlotTimeStarts, IsGrid
<1>2. g.dur = 1 * g.dur /\ g.dur \in Nat \ {0} /\ (t + g.dur) - t = g.dur
  BY <1>1 DEF IsGrid
<1>3. g.dur % g.dur = 0
  BY <1>2, MultipleIff
<1> QED
  BY <1>1, <1>2, <1>3 DEF FitsGrid, IsGrid

\* A slot of the calendar that a booked window covers in part is one of the
\* window's own starts, when the two grids are of one lattice.
LEMMA CoveredSlotIsStart ==
    ASSUME NEW g, NEW h, IsGrid(g), IsGrid(h), SameLattice(g, h),
           NEW t \in SlotTimeStarts(g), NEW s \in Nat, NEW e \in Nat,
           FitsGrid(s, e, h), Overlap(t, t + g.dur, s, e)
    PROVE  t \in BookingSlotStarts(s, e, h)
<1> DEFINE d == g.dur
<1>1. d \in Nat \ {0} /\ h.dur = d /\ t \in Nat
  BY ListedSlotFits DEF SameLattice, IsGrid
<1>2. (s - t) % d = 0 /\ (t - s) % d = 0
  BY ListedSlotFits, StartsAligned
<1>3. s < t + d /\ t < e
  BY DEF Overlap
<1> HIDE DEF d
<1>4. PICK k \in Int : s - t = k * d
  <2>1. s - t \in Int
    BY <1>1
  <2> QED
    BY <1>1, <1>2, <2>1, MultipleIff
<1>5. k * d < d
  BY <1>1, <1>3, <1>4
<1>6. k <= 0
  <2>1. ASSUME k >= 1 PROVE k * d >= d
    BY <1>1, <2>1
  <2>2. k * d \in Int
    BY <1>1
  <2> QED
    BY <1>1, <1>5, <2>1, <2>2
<1>7. k * d <= 0
  BY <1>1, <1>6
<1>8. s <= t
  BY <1>1, <1>4, <1>7
<1> QED
  BY <1>1, <1>2, <1>3, <1>8 DEF BookingSlotStarts

-----------------------------------------------------------------------------
\* The theorems.

\* Every reachable state is well typed: no handler writes a value its column
\* or its local state cannot hold.
THEOREM TypeCorrect == Spec => []TypeOK
<1>1. Init => TypeOK
  <2> SUFFICES ASSUME Init PROVE TypeOK
    OBVIOUS
  <2>1. CourtsTypeOK
    BY DEF Init, CourtsInit, CourtsTypeOK, CourtRow, CourtStatus
  <2>2. seen \in [Booking -> Grid]
    BY <2>1 DEF Init, CourtsTypeOK, CourtRow, Request
  <2> QED
    BY <2>1, <2>2 DEF Init, TypeOK, Cancelling, Sweeping
<1>2. TypeOK /\ [Next]_vars => TypeOK'
  <2> SUFFICES ASSUME TypeOK, [Next]_vars PROVE TypeOK'
    OBVIOUS
  <2> USE DEF TypeOK, CourtsTypeOK
  <2>1. ASSUME NEW b \in Booking, CreateStep(b) PROVE TypeOK'
    <3>1. CASE ReadCourt(b)
      BY <3>1 DEF ReadCourt, rowVars, courtVars, CourtRow, Request
    <3>2. CASE CheckRequest(b)
      BY <3>2 DEF CheckRequest, rowVars, courtVars
    <3>3. CASE CommitBooking(b)
      <4>1. SlotRows(b) \subseteq SlotRow
        BY WindowAssumption DEF SlotRows, SlotRow, BookingSlotStarts, Request, Day
      <4> QED
        BY <3>3, <4>1 DEF CommitBooking, courtVars
    <3>4. CASE RejectConflict(b)
      BY <3>4 DEF RejectConflict, rowVars, courtVars
    <3>5. CASE NotifyCreated(b)
      BY <3>5 DEF NotifyCreated, rowVars, courtVars
    <3> QED
      BY <2>1, <3>1, <3>2, <3>3, <3>4, <3>5 DEF CreateStep
  <2>2. ASSUME NEW k \in Canceller, CancelStep(k) PROVE TypeOK'
    <3>1. ASSUME NEW b \in Booking, NEW by \in Actor, LoadForCancel(k, b, by)
          PROVE TypeOK'
      BY <3>1 DEF LoadForCancel, rowVars, courtVars, Cancelling
    <3>2. CASE CheckCancel(k)
      BY <3>2 DEF CheckCancel, rowVars, courtVars, Cancelling, NotCancelling
    <3>3. CASE CommitCancel(k)
      BY <3>3 DEF CommitCancel, courtVars, Cancelling, NotCancelling, RowsOf
    <3>4. CASE NotifyCancelled(k)
      BY <3>4 DEF NotifyCancelled, rowVars, courtVars, Cancelling, NotCancelling
    <3> QED
      BY <2>2, <3>1, <3>2, <3>3, <3>4 DEF CancelStep
  <2>3. ASSUME NEW s \in Schedule, SweepStep(s) PROVE TypeOK'
    <3>1. CASE FindOccurrences(s)
      BY <3>1 DEF FindOccurrences, rowVars, courtVars, Sweeping
    <3>2. CASE CommitSweep(s)
      BY <3>2 DEF CommitSweep, courtVars, Sweeping, NotSweeping, Actor
    <3> QED
      BY <2>3, <3>1, <3>2 DEF SweepStep
  <2>4. CASE CompletePastBookings
    BY <2>4 DEF CompletePastBookings, courtVars
  <2>5. ASSUME NEW c \in Court, CourtStep(c) PROVE TypeOK'
    <3>1. CourtsTypeOK'
      BY <2>5 DEF CourtStep, OwnerCourtStep, CreateCourt, LoadCourtForUpdate,
        SaveCourt, DeleteCourt, CountBookings, CourtRow, CourtStatus
    <3> QED
      BY <2>5, <3>1 DEF CourtStep, bookingVars, rowVars
  <2>6. CASE ApproveVenue
    BY <2>6 DEF ApproveVenue, bookingVars, rowVars, courtVars
  <2>7. CASE Tick
    BY <2>7 DEF Tick, bookingVars, rowVars, courtVars
  <2>8. CASE Restart
    BY <2>8 DEF Restart, LoseCourtRequests, rowVars, Cancelling, Sweeping
  <2>9. CASE UNCHANGED vars
    BY <2>9 DEF vars, bookingVars, rowVars, courtVars
  <2> QED
    BY <2>1, <2>2, <2>3, <2>4, <2>5, <2>6, <2>7, <2>8, <2>9 DEF Next
<1> QED
  BY <1>1, <1>2, PTL DEF Spec

-----------------------------------------------------------------------------
\* A step that leaves the rows, the requests and the grids read alone keeps
\* every booking whole, in its grid, and every slot with one holder.
LEMMA RowsKept ==
    ASSUME UNCHANGED <<ask, status, slots, payments, seen>>
    PROVE  /\ BookingIsWhole => BookingIsWhole'
           /\ SlotHasOneHolder => SlotHasOneHolder'
BY DEF BookingIsWhole, SlotHasOneHolder, RowsOf, SlotRows, Live

\* A committed booking has a slot row for every unit of its window.
LEMMA CommitKeepsRows ==
    ASSUME TypeOK, InductiveInvariant, NEW b \in Booking, CommitBooking(b)
    PROVE  BookingIsWhole' /\ SlotHasOneHolder'
<1> USE DEF CommitBooking, InductiveInvariant
<1>1. status[b] = "none"
  BY DEF HandlersAgreeWithRows
<1>2. \A x \in Booking : SlotRows(x)' = SlotRows(x)
  BY DEF SlotRows
<1>3. \A r \in SlotRows(b) : r.booking = b
  BY DEF SlotRows
<1>4. ASSUME NEW x \in Booking, x # b
      PROVE  RowsOf(x)' = RowsOf(x) /\ Live(x)' = Live(x)
  BY <1>3, <1>4 DEF RowsOf, Live, TypeOK
<1>5. RowsOf(b) = {}
  BY <1>1 DEF BookingIsWhole, Live
<1>6. RowsOf(b)' = SlotRows(b) /\ Live(b)'
  BY <1>3, <1>5 DEF RowsOf, Live, TypeOK
<1>7. BookingIsWhole'
  BY <1>1, <1>2, <1>4, <1>6 DEF BookingIsWhole, TypeOK
<1>8. ASSUME NEW r1 \in SlotRows(b), NEW r2 \in SlotRows(b),
             r1.court = r2.court, r1.day = r2.day, r1.start = r2.start
      PROVE  r1 = r2
  BY <1>8 DEF SlotRows
<1>9. SlotHasOneHolder'
  BY <1>8 DEF SlotHasOneHolder, Collides
<1> QED
  BY <1>7, <1>9

\* When the bookings of a set become cancelled and their rows go, every
\* booking stays whole and no slot gets a second holder.
LEMMA CancelKeepsRows ==
    ASSUME TypeOK, InductiveInvariant, NEW B \in SUBSET Booking,
           \A b \in B : status[b] # "none",
           status' = [b \in Booking |-> IF b \in B THEN "cancelled" ELSE status[b]],
           slots' = { r \in slots : r.booking \notin B },
           UNCHANGED <<ask, seen, payments>>
    PROVE  BookingIsWhole' /\ SlotHasOneHolder'
<1> USE DEF InductiveInvariant
<1>1. \A x \in Booking : SlotRows(x)' = SlotRows(x)
  BY DEF SlotRows
<1>2. ASSUME NEW x \in B
      PROVE  RowsOf(x)' = {} /\ ~Live(x)' /\ x \in payments' /\ status'[x] # "none"
  BY DEF RowsOf, Live, BookingIsWhole
<1>3. ASSUME NEW x \in Booking, x \notin B
      PROVE  RowsOf(x)' = RowsOf(x) /\ Live(x)' = Live(x) /\ status'[x] = status[x]
  BY <1>3 DEF RowsOf, Live
<1>4. BookingIsWhole'
  BY <1>1, <1>2, <1>3 DEF BookingIsWhole
<1>5. SlotHasOneHolder'
  BY DEF SlotHasOneHolder
<1> QED
  BY <1>4, <1>5

\* Lazy completion moves bookings between two live states.
LEMMA CompletionKeepsRows ==
    ASSUME TypeOK, InductiveInvariant, CompletePastBookings
    PROVE  BookingIsWhole' /\ SlotHasOneHolder'
<1> USE DEF InductiveInvariant, CompletePastBookings
<1>1. \A x \in Booking : Live(x)' = Live(x) /\ RowsOf(x)' = RowsOf(x)
                          /\ SlotRows(x)' = SlotRows(x)
                          /\ (status'[x] = "none" <=> status[x] = "none")
  BY DEF Live, RowsOf, SlotRows, TypeOK
<1>2. SlotHasOneHolder'
  BY DEF SlotHasOneHolder
<1> QED
  BY <1>1, <1>2 DEF BookingIsWhole

-----------------------------------------------------------------------------
\* The inductive step, handler by handler.
LEMMA InductiveStep ==
    ASSUME InductiveInvariant, TypeOK', [Next]_vars
    PROVE  InductiveInvariant'
<1> USE DEF InductiveInvariant
<1>1. ASSUME NEW b \in Booking, CreateStep(b) PROVE InductiveInvariant'
  <2>1. CASE ReadCourt(b)
    <3>1. BookingIsWhole' /\ SlotHasOneHolder'
      BY <2>1 DEF ReadCourt, rowVars, BookingIsWhole, SlotHasOneHolder,
        RowsOf, SlotRows, Live, TypeOK
    <3>2. HandlersAgreeWithRows' /\ BookingsFitTheirGrid' /\ MailIsTrue'
      BY <2>1 DEF ReadCourt, rowVars, HandlersAgreeWithRows,
        BookingsFitTheirGrid, MailIsTrue, TypeOK
    <3> QED
      BY <3>1, <3>2
  <2>2. CASE CheckRequest(b)
    <3>1. BookingIsWhole' /\ SlotHasOneHolder'
      BY <2>2, RowsKept DEF CheckRequest, rowVars
    <3>2. HandlersAgreeWithRows' /\ BookingsFitTheirGrid' /\ MailIsTrue'
      BY <2>2 DEF CheckRequest, Bookable, rowVars, HandlersAgreeWithRows,
        BookingsFitTheirGrid, MailIsTrue, TypeOK
    <3> QED
      BY <3>1, <3>2
  <2>3. CASE CommitBooking(b)
    <3>1. BookingIsWhole' /\ SlotHasOneHolder'
      BY <2>3, CommitKeepsRows
    <3>2. status[b] = "none"
      BY <2>3 DEF CommitBooking, HandlersAgreeWithRows
    <3>3. HandlersAgreeWithRows' /\ BookingsFitTheirGrid' /\ MailIsTrue'
      BY <2>3, <3>2 DEF CommitBooking, HandlersAgreeWithRows,
        BookingsFitTheirGrid, MailIsTrue, TypeOK
    <3> QED
      BY <3>1, <3>3
  <2>4. CASE RejectConflict(b)
    <3>1. BookingIsWhole' /\ SlotHasOneHolder'
      BY <2>4, RowsKept DEF RejectConflict, rowVars
    <3>2. HandlersAgreeWithRows' /\ BookingsFitTheirGrid' /\ MailIsTrue'
      BY <2>4 DEF RejectConflict, rowVars, HandlersAgreeWithRows,
        BookingsFitTheirGrid, MailIsTrue, TypeOK
    <3> QED
      BY <3>1, <3>2
  <2>5. CASE NotifyCreated(b)
    <3>1. BookingIsWhole' /\ SlotHasOneHolder'
      BY <2>5, RowsKept DEF NotifyCreated, rowVars
    <3>2. HandlersAgreeWithRows' /\ BookingsFitTheirGrid' /\ MailIsTrue'
      BY <2>5 DEF NotifyCreated, rowVars, HandlersAgreeWithRows,
        BookingsFitTheirGrid, MailIsTrue, TypeOK
    <3> QED
      BY <3>1, <3>2
  <2> QED
    BY <1>1, <2>1, <2>2, <2>3, <2>4, <2>5 DEF CreateStep
<1>2. ASSUME NEW k \in Canceller, CancelStep(k) PROVE InductiveInvariant'
  <2>1. ASSUME NEW b \in Booking, NEW by \in Actor, LoadForCancel(k, b, by)
        PROVE  InductiveInvariant'
    <3>1. BookingIsWhole' /\ SlotHasOneHolder'
      BY <2>1, RowsKept DEF LoadForCancel, rowVars
    <3>2. HandlersAgreeWithRows' /\ BookingsFitTheirGrid' /\ MailIsTrue'
      BY <2>1 DEF LoadForCancel, rowVars, HandlersAgreeWithRows,
        BookingsFitTheirGrid, MailIsTrue, TypeOK
    <3> QED
      BY <3>1, <3>2
  <2>2. CASE CheckCancel(k)
    <3>1. BookingIsWhole' /\ SlotHasOneHolder'
      BY <2>2, RowsKept DEF CheckCancel, rowVars
    <3>2. cancelling'[k] = NotCancelling
          \/ /\ cancelling[k] # NotCancelling
             /\ cancelling'[k] = [cancelling[k] EXCEPT !.pc = "checked"]
      BY <2>2 DEF CheckCancel, NotCancelling, TypeOK
    <3>3. /\ cancelling'[k] # NotCancelling => cancelling[k] # NotCancelling
          /\ cancelling'[k] # NotCancelling =>
                /\ cancelling'[k].booking = cancelling[k].booking
                /\ cancelling'[k].pc = "checked"
      BY <3>2 DEF NotCancelling, Cancelling, TypeOK
    <3>4. \A j \in Canceller : j # k => cancelling'[j] = cancelling[j]
      BY <2>2 DEF CheckCancel, TypeOK
    <3>5. HandlersAgreeWithRows'
      BY <2>2, <3>3, <3>4 DEF CheckCancel, rowVars, HandlersAgreeWithRows
    <3>6. BookingsFitTheirGrid' /\ MailIsTrue'
      BY <2>2 DEF CheckCancel, rowVars, BookingsFitTheirGrid, MailIsTrue
    <3> QED
      BY <3>1, <3>5, <3>6
  <2>3. CASE CommitCancel(k)
    <3> DEFINE b == cancelling[k].booking
    <3>1. b \in Booking /\ status[b] # "none"
      BY <2>3 DEF CommitCancel, HandlersAgreeWithRows, TypeOK, Cancelling,
        NotCancelling
    <3>2. status' = [x \in Booking |-> IF x \in {b} THEN "cancelled" ELSE status[x]]
      BY <2>3 DEF CommitCancel, TypeOK
    <3>3. slots' = { r \in slots : r.booking \notin {b} }
      BY <2>3 DEF CommitCancel, RowsOf
    <3>4. BookingIsWhole' /\ SlotHasOneHolder'
      <4>1. {b} \in SUBSET Booking /\ \A x \in {b} : status[x] # "none"
        BY <3>1
      <4>2. UNCHANGED <<ask, seen, payments>>
        BY <2>3 DEF CommitCancel
      <4> HIDE DEF b
      <4> QED
        BY <3>2, <3>3, <4>1, <4>2, CancelKeepsRows
    <3>5. HandlersAgreeWithRows'
      BY <2>3, <3>1, <3>2 DEF CommitCancel, HandlersAgreeWithRows, NotCancelling,
        Cancelling, TypeOK
    <3>6. BookingsFitTheirGrid' /\ MailIsTrue'
      BY <2>3, <3>1, <3>2 DEF CommitCancel, BookingsFitTheirGrid, MailIsTrue
    <3> QED
      BY <3>4, <3>5, <3>6
  <2>4. CASE NotifyCancelled(k)
    <3>1. BookingIsWhole' /\ SlotHasOneHolder'
      BY <2>4, RowsKept DEF NotifyCancelled, rowVars
    <3>2. HandlersAgreeWithRows' /\ BookingsFitTheirGrid'
      BY <2>4 DEF NotifyCancelled, rowVars, HandlersAgreeWithRows, NotCancelling,
        BookingsFitTheirGrid, TypeOK
    <3>3. status[cancelling[k].booking] = "cancelled"
      BY <2>4 DEF NotifyCancelled, HandlersAgreeWithRows, NotCancelling
    <3>4. MailIsTrue'
      <4> DEFINE mail == <<"cancelled", cancelling[k].booking>>
      <4>1. outbox' = outbox \/ outbox' = outbox \cup {mail}
        BY <2>4 DEF NotifyCancelled
      <4>2. ASSUME NEW b \in Booking
            PROVE  /\ <<"confirmed", b>> # mail
                   /\ <<"cancelled", b>> = mail => status[b] = "cancelled"
        BY <3>3
      <4>3. status' = status
        BY <2>4 DEF NotifyCancelled, rowVars
      <4> HIDE DEF mail
      <4> QED
        BY <4>1, <4>2, <4>3 DEF MailIsTrue
    <3> QED
      BY <3>1, <3>2, <3>4
  <2> QED
    BY <1>2, <2>1, <2>2, <2>3, <2>4 DEF CancelStep
<1>3. ASSUME NEW s \in Schedule, SweepStep(s) PROVE InductiveInvariant'
  <2>1. CASE FindOccurrences(s)
    <3>1. BookingIsWhole' /\ SlotHasOneHolder'
      BY <2>1, RowsKept DEF FindOccurrences, rowVars
    <3>2. HandlersAgreeWithRows' /\ BookingsFitTheirGrid' /\ MailIsTrue'
      BY <2>1 DEF FindOccurrences, rowVars, HandlersAgreeWithRows,
        BookingsFitTheirGrid, MailIsTrue, TypeOK
    <3> QED
      BY <3>1, <3>2
  <2>2. CASE CommitSweep(s)
    <3> DEFINE found == sweeping[s].found
    <3>1. found \in SUBSET Booking /\ \A b \in found : status[b] # "none"
      BY <2>2 DEF CommitSweep, HandlersAgreeWithRows, TypeOK, Sweeping, NotSweeping
    <3>2. status' = [x \in Booking |-> IF x \in found THEN "cancelled" ELSE status[x]]
      BY <2>2 DEF CommitSweep
    <3>3. BookingIsWhole' /\ SlotHasOneHolder'
      BY <2>2, <3>1, <3>2, CancelKeepsRows DEF CommitSweep
    <3>4. HandlersAgreeWithRows'
      BY <2>2, <3>1, <3>2 DEF CommitSweep, HandlersAgreeWithRows, NotSweeping,
        Sweeping, Cancelling, NotCancelling, TypeOK
    <3>5. BookingsFitTheirGrid' /\ MailIsTrue'
      BY <2>2, <3>1, <3>2 DEF CommitSweep, BookingsFitTheirGrid, MailIsTrue
    <3> QED
      BY <3>3, <3>4, <3>5
  <2> QED
    BY <1>3, <2>1, <2>2 DEF SweepStep
<1>4. CASE CompletePastBookings
  <2>1. BookingIsWhole' /\ SlotHasOneHolder'
    BY <1>4, CompletionKeepsRows
  <2>2. HandlersAgreeWithRows' /\ BookingsFitTheirGrid' /\ MailIsTrue'
    BY <1>4 DEF CompletePastBookings, HandlersAgreeWithRows, Cancelling, Sweeping,
      NotCancelling, NotSweeping, BookingsFitTheirGrid, MailIsTrue, TypeOK
  <2> QED
    BY <2>1, <2>2
<1>5. CASE Restart
  <2>1. BookingIsWhole' /\ SlotHasOneHolder'
    BY <1>5, RowsKept DEF Restart, rowVars
  <2>2. HandlersAgreeWithRows' /\ BookingsFitTheirGrid' /\ MailIsTrue'
    BY <1>5 DEF Restart, rowVars, HandlersAgreeWithRows, BookingsFitTheirGrid,
      MailIsTrue, TypeOK
  <2> QED
    BY <2>1, <2>2
<1>6. CASE UNCHANGED bookingVars
  <2>1. BookingIsWhole' /\ SlotHasOneHolder'
    BY <1>6, RowsKept DEF bookingVars, rowVars
  <2>2. HandlersAgreeWithRows' /\ BookingsFitTheirGrid' /\ MailIsTrue'
    BY <1>6 DEF bookingVars, rowVars, HandlersAgreeWithRows,
      BookingsFitTheirGrid, MailIsTrue
  <2> QED
    BY <2>1, <2>2
<1> QED
  BY <1>1, <1>2, <1>3, <1>4, <1>5, <1>6 DEF Next, vars, CourtStep, ApproveVenue, Tick

\* The invariant holds in every reachable state; in particular every booking
\* is whole (all its slots and its payment, or none), a slot has one holder,
\* and no mail announces what was not committed.
THEOREM Invariance == Spec => []InductiveInvariant
<1>1. Init => InductiveInvariant
  <2> SUFFICES ASSUME Init PROVE InductiveInvariant
    OBVIOUS
  <2>1. TypeOK
    <3>1. CourtsTypeOK
      BY DEF Init, CourtsInit, CourtsTypeOK, CourtRow, CourtStatus
    <3>2. seen \in [Booking -> Grid]
      BY <3>1 DEF Init, CourtsTypeOK, CourtRow, Request
    <3> QED
      BY <3>1, <3>2 DEF Init, TypeOK, Cancelling, Sweeping
  <2>2. HandlersAgreeWithRows /\ BookingsFitTheirGrid /\ SlotHasOneHolder /\ MailIsTrue
    BY DEF Init, HandlersAgreeWithRows, BookingsFitTheirGrid, SlotHasOneHolder, MailIsTrue
  <2>3. BookingIsWhole
    BY DEF Init, BookingIsWhole, RowsOf, Live
  <2> QED
    BY <2>1, <2>2, <2>3 DEF InductiveInvariant
<1>2. InductiveInvariant /\ TypeOK' /\ [Next]_vars => InductiveInvariant'
  BY InductiveStep
<1> QED
  BY <1>1, <1>2, TypeCorrect, PTL DEF Spec

\* createBooking and cancel are all or nothing, for any number of concurrent
\* handlers and for restarts between any two statements: a live booking has
\* its payment and a row for every slot of its window, any other has neither.
THEOREM BookingsAreWhole == Spec => []BookingIsWhole
<1>1. InductiveInvariant => BookingIsWhole
  BY DEF InductiveInvariant
<1> QED
  BY <1>1, Invariance, PTL

\* No mail announces a booking or a cancellation whose transaction did not
\* commit.
THEOREM MailsAreTrue == Spec => []MailIsTrue
<1>1. InductiveInvariant => MailIsTrue
  BY DEF InductiveInvariant
<1> QED
  BY <1>1, Invariance, PTL

-----------------------------------------------------------------------------
\* All grids the owner gives to courts cut the day at the same minutes.
OneLattice == \A g, h \in Grid : SameLattice(g, h)

\* A row of b for each start of its window, while b is live.
LEMMA LiveHasRows ==
    ASSUME InductiveInvariant, NEW b \in Booking, Live(b),
           NEW t \in BookingSlotStarts(ask[b].window.start, ask[b].window.end, seen[b])
    PROVE  [booking |-> b, court |-> ask[b].court, day |-> ask[b].day, start |-> t] \in slots
BY DEF InductiveInvariant, BookingIsWhole, RowsOf, SlotRows

\* What the types say of a booking's window and of the grid it was checked on.
LEMMA LiveFacts ==
    ASSUME InductiveInvariant, NEW b \in Booking, Live(b)
    PROVE  /\ ask[b].window.start \in Nat /\ ask[b].window.end \in Nat
           /\ seen[b] \in Grid /\ IsGrid(seen[b])
           /\ FitsGrid(ask[b].window.start, ask[b].window.end, seen[b])
<1>1. ask[b].window \in Window /\ seen[b] \in Grid
  BY DEF InductiveInvariant, TypeOK, Request
<1>2. FitsGrid(ask[b].window.start, ask[b].window.end, seen[b])
  BY DEF InductiveInvariant, BookingsFitTheirGrid, Live
<1> QED
  BY <1>1, <1>2, WindowAssumption, GridAssumption

\* Without a change of slot length or of the phase of the grid, the unique
\* index rules out double bookings, also between a booking checked on an old
\* grid and one checked on a new one.
THEOREM NoDoubleBookingOnOneLattice ==
    ASSUME OneLattice
    PROVE  Spec => []NoDoubleBooking
<1>1. InductiveInvariant => NoDoubleBooking
  <2> SUFFICES ASSUME InductiveInvariant,
                      NEW a \in Booking, NEW b \in Booking, a # b,
                      Live(a), Live(b),
                      ask[a].court = ask[b].court, ask[a].day = ask[b].day,
                      Overlap(ask[a].window.start, ask[a].window.end,
                              ask[b].window.start, ask[b].window.end)
               PROVE  FALSE
    BY DEF NoDoubleBooking
  <2>1. SameLattice(seen[a], seen[b])
    BY LiveFacts DEF OneLattice
  <2>2. PICK t \in BookingSlotStarts(ask[a].window.start, ask[a].window.end, seen[a]) :
               t \in BookingSlotStarts(ask[b].window.start, ask[b].window.end, seen[b])
    BY <2>1, LiveFacts, OverlapSharesStart
  <2> DEFINE ra == [booking |-> a, court |-> ask[a].court, day |-> ask[a].day, start |-> t]
             rb == [booking |-> b, court |-> ask[b].court, day |-> ask[b].day, start |-> t]
  <2>3. ra \in slots /\ rb \in slots
    BY <2>2, LiveHasRows
  <2>4. ra.court = rb.court /\ ra.day = rb.day /\ ra.start = rb.start /\ ra # rb
    OBVIOUS
  <2> QED
    BY <2>3, <2>4 DEF InductiveInvariant, SlotHasOneHolder
<1> QED
  BY <1>1, Invariance, PTL

\* No handler gives a cancelled booking another status.
THEOREM CancelledStaysCancelled == Spec => CancelledIsFinal
<1>1. InductiveInvariant /\ [Next]_vars
        => [\A b \in Booking : status[b] = "cancelled" => status'[b] = "cancelled"]_vars
  <2> SUFFICES ASSUME InductiveInvariant, [Next]_vars,
                      NEW b \in Booking, status[b] = "cancelled"
               PROVE  status'[b] = "cancelled"
    OBVIOUS
  <2> USE DEF InductiveInvariant, TypeOK
  <2>1. ASSUME NEW x \in Booking, CreateStep(x) PROVE status'[b] = "cancelled"
    BY <2>1 DEF CreateStep, ReadCourt, CheckRequest, CommitBooking, RejectConflict,
      NotifyCreated, rowVars, HandlersAgreeWithRows
  <2>2. ASSUME NEW k \in Canceller, CancelStep(k) PROVE status'[b] = "cancelled"
    BY <2>2 DEF CancelStep, LoadForCancel, CheckCancel, CommitCancel,
      NotifyCancelled, rowVars
  <2>3. ASSUME NEW s \in Schedule, SweepStep(s) PROVE status'[b] = "cancelled"
    BY <2>3 DEF SweepStep, FindOccurrences, CommitSweep, rowVars
  <2>4. CASE CompletePastBookings
    BY <2>4 DEF CompletePastBookings
  <2>5. CASE UNCHANGED status
    BY <2>5
  <2> QED
    BY <2>1, <2>2, <2>3, <2>4, <2>5 DEF Next, CourtStep, ApproveVenue, Tick,
      Restart, vars, bookingVars, rowVars
<1> QED
  BY <1>1, Invariance, PTL DEF Spec, CancelledIsFinal

\* On one lattice the public calendar is honest: a listed slot is marked
\* booked exactly when a live booking covers a part of it.
THEOREM CalendarIsHonestOnOneLattice ==
    ASSUME OneLattice
    PROVE  Spec => []CalendarIsHonest
<1>1. InductiveInvariant => CalendarIsHonest
  <2> SUFFICES ASSUME InductiveInvariant,
                      NEW c \in Court, NEW d \in Day, CourtExists(c),
                      NEW t \in SlotTimeStarts(court[c].grid)
               PROVE  IsBooked(c, d, t) <=>
                        \E b \in Booking :
                            /\ Live(b) /\ ask[b].court = c /\ ask[b].day = d
                            /\ Overlap(t, t + court[c].grid.dur,
                                       ask[b].window.start, ask[b].window.end)
    BY DEF CalendarIsHonest
  <2> DEFINE g == court[c].grid
  <2>1. g \in Grid /\ IsGrid(g)
    BY GridAssumption DEF InductiveInvariant, TypeOK, CourtsTypeOK, CourtRow
  <2>2. ASSUME IsBooked(c, d, t)
        PROVE  \E b \in Booking :
                 /\ Live(b) /\ ask[b].court = c /\ ask[b].day = d
                 /\ Overlap(t, t + g.dur, ask[b].window.start, ask[b].window.end)
    <3>1. PICK r \in slots : r.court = c /\ r.day = d /\ r.start = t
      BY <2>2 DEF IsBooked
    <3> DEFINE b == r.booking
    <3>2. b \in Booking
      BY DEF InductiveInvariant, TypeOK, SlotRow
    <3>3. Live(b) /\ r \in SlotRows(b)
      BY <3>2 DEF InductiveInvariant, BookingIsWhole, RowsOf
    <3>4. /\ ask[b].court = c /\ ask[b].day = d
          /\ t \in BookingSlotStarts(ask[b].window.start, ask[b].window.end, seen[b])
      BY <3>1, <3>3 DEF SlotRows
    <3>5. ask[b].window.start \in Nat /\ ask[b].window.end \in Nat
      BY <3>2, <3>3, LiveFacts
    <3>6. g.dur \in Nat \ {0}
      BY <2>1 DEF IsGrid
    <3> HIDE DEF b, g
    <3>7. t \in Int /\ ask[b].window.start <= t /\ t < ask[b].window.end
      BY <3>4, <3>5 DEF BookingSlotStarts
    <3>8. Overlap(t, t + g.dur, ask[b].window.start, ask[b].window.end)
      BY <3>5, <3>6, <3>7 DEF Overlap
    <3> QED
      BY <3>2, <3>3, <3>4, <3>8
  <2>3. ASSUME NEW b \in Booking, Live(b), ask[b].court = c, ask[b].day = d,
               Overlap(t, t + g.dur, ask[b].window.start, ask[b].window.end)
        PROVE  IsBooked(c, d, t)
    <3>1. SameLattice(g, seen[b])
      BY <2>1, <2>3, LiveFacts DEF OneLattice
    <3>2. t \in BookingSlotStarts(ask[b].window.start, ask[b].window.end, seen[b])
      BY <2>1, <2>3, <3>1, LiveFacts, CoveredSlotIsStart
    <3> QED
      BY <2>3, <3>2, LiveHasRows DEF IsBooked
  <2> QED
    BY <2>2, <2>3
<1> QED
  BY <1>1, Invariance, PTL

-----------------------------------------------------------------------------
(* Refinement of CourtCalendar *)

\* Steps that leave status and slot rows alone do not touch the calendar.
LEMMA CalendarKept ==
    ASSUME UNCHANGED <<status, slots>>
    PROVE  UNCHANGED Calendar!calendarVars
BY DEF Calendar!calendarVars, HeldSlots, RowsOf

\* A commit takes the slots of one booking.
LEMMA CommitReserves ==
    ASSUME InductiveInvariant, NEW b \in Booking, CommitBooking(b), BookingIsWhole'
    PROVE  Calendar!Reserve(b, HeldSlots'[b])
<1> DEFINE S == { <<r.court, r.day, r.start>> : r \in SlotRows(b) }
<1> USE DEF InductiveInvariant, CommitBooking
<1>1. status[b] = "none"
  BY DEF HandlersAgreeWithRows
<1>2. status'[b] = "confirmed" /\ SlotRows(b)' = SlotRows(b)
  BY DEF TypeOK, SlotRows
<1>3. RowsOf(b)' = SlotRows(b)
  BY <1>2 DEF BookingIsWhole, Live
<1>4. HeldSlots'[b] = S
  BY <1>3 DEF HeldSlots, RowsOf
<1>5. \A r \in SlotRows(b) : r.booking = b
  BY DEF SlotRows
<1>6. ASSUME NEW x \in Booking, x # b
      PROVE  HeldSlots'[x] = HeldSlots[x]
  <2>1. RowsOf(x)' = RowsOf(x)
    BY <1>5, <1>6 DEF RowsOf
  <2> QED
    BY <2>1 DEF HeldSlots, RowsOf
<1>7. HeldSlots' = [HeldSlots EXCEPT ![b] = S]
  BY <1>4, <1>6 DEF HeldSlots
<1>8. S \subseteq Court \X Day \X Nat
  BY WindowAssumption DEF TypeOK, Request, SlotRows, BookingSlotStarts
<1>9. S # {}
  <2>1. FitsGrid(ask[b].window.start, ask[b].window.end, seen[b])
    BY DEF BookingsFitTheirGrid
  <2>2. /\ ask[b].window.start \in Nat /\ ask[b].window.end \in Nat
        /\ seen[b].dur \in Nat \ {0}
    BY WindowAssumption, GridAssumption DEF TypeOK, Request, IsGrid
  <2>3. ask[b].window.start - ask[b].window.start = 0 /\ 0 % seen[b].dur = 0
    BY <2>2
  <2>4. ask[b].window.start \in
          BookingSlotStarts(ask[b].window.start, ask[b].window.end, seen[b])
    BY <2>1, <2>2, <2>3 DEF BookingSlotStarts, FitsGrid
  <2> QED
    BY <2>4 DEF SlotRows
<1>10. \A x \in Booking : HeldSlots[x] \cap S = {}
  <2> SUFFICES ASSUME NEW x \in Booking, NEW r \in RowsOf(x), NEW n \in SlotRows(b),
                      <<r.court, r.day, r.start>> = <<n.court, n.day, n.start>>
               PROVE  FALSE
    BY DEF HeldSlots, RowsOf
  <2> QED
    BY DEF RowsOf, Collides
<1>11. { x \in Booking : status[x] # "none" }' =
         { x \in Booking : status[x] # "none" } \cup {b}
  BY <1>2 DEF TypeOK
<1> HIDE DEF S
<1> QED
  BY <1>1, <1>4, <1>7, <1>8, <1>9, <1>10, <1>11 DEF Calendar!Reserve

\* A cancellation gives back the slots of the cancelled bookings.
LEMMA CancelReleases ==
    ASSUME NEW B \in SUBSET Booking,
           \A b \in B : status[b] # "none",
           status' = [b \in Booking |-> IF b \in B THEN "cancelled" ELSE status[b]],
           slots' = { r \in slots : r.booking \notin B }
    PROVE  Calendar!Release(B)
<1>1. ASSUME NEW x \in B PROVE HeldSlots'[x] = {}
  BY DEF HeldSlots, RowsOf
<1>2. ASSUME NEW x \in Booking, x \notin B PROVE HeldSlots'[x] = HeldSlots[x]
  <2>1. RowsOf(x)' = RowsOf(x)
    BY <1>2 DEF RowsOf
  <2> QED
    BY <2>1 DEF HeldSlots, RowsOf
<1>3. HeldSlots' = [b \in Booking |-> IF b \in B THEN {} ELSE HeldSlots[b]]
  BY <1>1, <1>2 DEF HeldSlots
<1>4. { x \in Booking : status[x] # "none" }' = { x \in Booking : status[x] # "none" }
  OBVIOUS
<1> QED
  BY <1>3, <1>4 DEF Calendar!Release

\* Bookings implement the abstract calendar: a booking takes all its slots in
\* one step, only free ones, and gives them all back in one step.
THEOREM BookingsImplementCalendar == Spec => ImplementsCalendar
<1>1. Init => Calendar!Init
  BY DEF Init, Calendar!Init, HeldSlots, RowsOf
<1>2. InductiveInvariant /\ InductiveInvariant' /\ [Next]_vars
        => [Calendar!Next]_Calendar!calendarVars
  <2> SUFFICES ASSUME InductiveInvariant, InductiveInvariant', [Next]_vars
               PROVE  Calendar!Next \/ UNCHANGED Calendar!calendarVars
    OBVIOUS
  <2>1. ASSUME NEW b \in Booking, CommitBooking(b) PROVE Calendar!Next
    BY <2>1, CommitReserves DEF InductiveInvariant, Calendar!Next
  <2>2. ASSUME NEW k \in Canceller, CommitCancel(k) PROVE Calendar!Next
    <3> DEFINE b == cancelling[k].booking
    <3>1. b \in Booking /\ status[b] # "none"
      BY <2>2 DEF CommitCancel, InductiveInvariant, HandlersAgreeWithRows, TypeOK,
        Cancelling, NotCancelling
    <3>2. {b} \in SUBSET Booking /\ \A x \in {b} : status[x] # "none"
      BY <3>1
    <3>3. status' = [x \in Booking |-> IF x \in {b} THEN "cancelled" ELSE status[x]]
      BY <2>2 DEF CommitCancel, InductiveInvariant, TypeOK
    <3>4. slots' = { r \in slots : r.booking \notin {b} }
      BY <2>2 DEF CommitCancel, RowsOf
    <3> HIDE DEF b
    <3>5. Calendar!Release({b})
      BY <3>2, <3>3, <3>4, CancelReleases
    <3> QED
      BY <3>2, <3>5 DEF Calendar!Next
  <2>3. ASSUME NEW s \in Schedule, CommitSweep(s) PROVE Calendar!Next
    <3> DEFINE found == sweeping[s].found
    <3>1. found \in SUBSET Booking /\ \A b \in found : status[b] # "none"
      BY <2>3 DEF CommitSweep, InductiveInvariant, HandlersAgreeWithRows, TypeOK,
        Sweeping, NotSweeping
    <3>2. /\ status' = [x \in Booking |-> IF x \in found THEN "cancelled" ELSE status[x]]
          /\ slots' = { r \in slots : r.booking \notin found }
      BY <2>3 DEF CommitSweep
    <3> HIDE DEF found
    <3>3. Calendar!Release(found)
      BY <3>1, <3>2, CancelReleases
    <3> QED
      BY <3>1, <3>3 DEF Calendar!Next
  <2>4. CASE CompletePastBookings
    <3>1. { x \in Booking : status[x] # "none" }' = { x \in Booking : status[x] # "none" }
      BY <2>4 DEF CompletePastBookings, InductiveInvariant, TypeOK
    <3>2. HeldSlots' = HeldSlots
      BY <2>4 DEF CompletePastBookings, HeldSlots, RowsOf
    <3> QED
      BY <3>1, <3>2 DEF Calendar!calendarVars
  <2>5. CASE UNCHANGED <<status, slots>>
    BY <2>5, CalendarKept
  <2> QED
    BY <2>1, <2>2, <2>3, <2>4, <2>5 DEF Next, CreateStep, ReadCourt, CheckRequest,
      RejectConflict, NotifyCreated, CancelStep, LoadForCancel, CheckCancel,
      NotifyCancelled, SweepStep, FindOccurrences, CourtStep, ApproveVenue, Tick,
      Restart, vars, bookingVars, rowVars
<1> QED
  BY <1>1, <1>2, Invariance, PTL DEF Spec, ImplementsCalendar, Calendar!Spec
=============================================================================
