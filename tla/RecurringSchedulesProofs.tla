---------------------- MODULE RecurringSchedulesProofs ----------------------
(***************************************************************************)
(* Proofs about module RecurringSchedules, for any schedules, handlers and *)
(* length of the renewal: passed dates are never touched, every date the   *)
(* service books is one that can be booked, a renewal cut short leaves no  *)
(* gap, and what a renewing schedule can lose to outages is bounded.       *)
(***************************************************************************)
EXTENDS RecurringSchedules, FiniteSetTheorems, WellFoundedInduction, TLAPS

\* The types PastIsHistory rests on: what is booked is a table of schedules
\* and dates, and the clock counts days.
CalendarTyped ==
    /\ occurrence \in [Schedule -> [0 .. LastDate -> {"none", "confirmed", "cancelled"}]]
    /\ today \in Nat

\* Booking a date writes one entry of the table, and none that is past.
LEMMA BookedSparesThePast ==
    ASSUME CalendarTyped,
           NEW s \in Schedule, NEW d, Booked(s, d)
    PROVE  /\ occurrence' \in [Schedule -> [0 .. LastDate -> {"none", "confirmed", "cancelled"}]]
           /\ \A t \in Schedule, e \in 0 .. LastDate :
                e < today => occurrence'[t][e] = occurrence[t][e]
  <1> DEFINE Status == {"none", "confirmed", "cancelled"}
  <1>1. occurrence' = [occurrence EXCEPT ![s][d] = "confirmed"]
    BY DEF Booked
  <1>2. ~(d < today)
    BY DEF Booked, Refuses
  <1>3. ASSUME NEW t \in Schedule
        PROVE  /\ occurrence'[t] \in [0 .. LastDate -> Status]
               /\ \A e \in 0 .. LastDate : e # d => occurrence'[t][e] = occurrence[t][e]
    BY <1>1 DEF CalendarTyped
  <1>4. occurrence' \in [Schedule -> [0 .. LastDate -> Status]]
    BY <1>1, <1>3 DEF CalendarTyped
  <1> QED
    BY <1>2, <1>3, <1>4

\* One step of the system leaves the table typed and the past alone.
LEMMA StepSparesThePast ==
    ASSUME CalendarTyped, [Next]_vars
    PROVE  /\ CalendarTyped'
           /\ \A s \in Schedule, d \in 0 .. LastDate :
                d < today => occurrence'[s][d] = occurrence[s][d]
  <1> DEFINE Past == \A t \in Schedule, e \in 0 .. LastDate :
                        e < today => occurrence'[t][e] = occurrence[t][e]
             Goal == CalendarTyped' /\ Past
  <1>1. ASSUME UNCHANGED <<occurrence, today>> PROVE Goal
    BY <1>1 DEF CalendarTyped
  <1>2. CASE UNCHANGED vars
    BY <1>2, <1>1 DEF vars, clock, bookings
  <1>3. ASSUME NEW s \in Schedule, CreateStep(s) PROVE Goal
    <2>1. CASE \E n \in NewSchedule : InsertSchedule(s, n)
      BY <2>1, <1>1 DEF InsertSchedule, clock, bookings
    <2>2. CASE CreateOccurrence(s)
      <3>1. UNCHANGED today
        BY <2>2 DEF CreateOccurrence, clock
      <3>2. \/ Booked(s, Min(creating[s]))
            \/ UNCHANGED occurrence
        BY <2>2 DEF CreateOccurrence, Conflicts, bookings
      <3> QED
        BY <3>1, <3>2, <1>1, BookedSparesThePast DEF CalendarTyped
    <2> QED
      BY <1>3, <2>1, <2>2 DEF CreateStep
  <1>4. ASSUME NEW h \in Handler, OwnerStep(h) PROVE Goal
    <2>1. CASE SweepOccurrences(h)
      <3> DEFINE s == handling[h].schedule
                 Swept == [d \in 0 .. LastDate |->
                            IF occurrence[s][d] = "confirmed" /\ d >= today
                                THEN "cancelled" ELSE occurrence[s][d]]
      <3>1. /\ occurrence' = [occurrence EXCEPT ![s] = Swept]
            /\ UNCHANGED today
        BY <2>1 DEF SweepOccurrences, clock
      <3>2. ASSUME s \in Schedule
            PROVE  /\ Swept \in [0 .. LastDate -> {"none", "confirmed", "cancelled"}]
                   /\ \A e \in 0 .. LastDate : e < today => Swept[e] = occurrence[s][e]
        BY <3>2, LastDateAssumption DEF CalendarTyped
      <3> HIDE DEF Swept, s
      <3> QED
        BY <3>1, <3>2 DEF CalendarTyped
    <2>2. CASE ~SweepOccurrences(h)
      BY <1>4, <2>2, <1>1 DEF OwnerStep, LoadSchedule, SaveCancelled,
            SavePausedOrResumed, SaveUpdate, clock, bookings
    <2> QED
      BY <2>1, <2>2
  <1>5. CASE StartRenewal
    BY <1>5, <1>1 DEF StartRenewal, bookings
  <1>6. ASSUME NEW s \in Schedule, RenewStep(s) PROVE Goal
    <2>1. CASE RenewOccurrence(s)
      <3>1. UNCHANGED today
        BY <2>1 DEF RenewOccurrence, clock
      <3>2. \/ Booked(s, Min(todo))
            \/ UNCHANGED occurrence
        BY <2>1 DEF RenewOccurrence, Conflicts
      <3> QED
        BY <3>1, <3>2, <1>1, BookedSparesThePast DEF CalendarTyped
    <2>2. CASE ~RenewOccurrence(s)
      BY <1>6, <2>2, <1>1 DEF RenewStep, NextSchedule, AbortRenewal, SaveRenewal,
            clock, bookings
    <2> QED
      BY <2>1, <2>2
  <1>7. ASSUME NEW s \in Blockable, Block(s) PROVE Goal
    BY <1>7, <1>1 DEF Block, bookings
  <1>8. CASE Tick
    <2>1. /\ UNCHANGED occurrence
          /\ today' = today + 1
      BY <1>8 DEF Tick, bookings
    <2> QED
      BY <2>1 DEF CalendarTyped
  <1>9. CASE Restart
    BY <1>9, <1>1 DEF Restart, bookings
  <1>10. CASE MissRenewal
    BY <1>10, <1>1 DEF MissRenewal, bookings
  <1> QED
    BY <1>2, <1>3, <1>4, <1>5, <1>6, <1>7, <1>8, <1>9, <1>10 DEF Next

\* Neither a late creation nor a renewal, a cancellation or a sweep changes
\* what a date that is over says: cancelFutureOccurrences and
\* createBookingRecord compare with today.
THEOREM PastStaysAsItIs == Spec => PastIsHistory
  <1>1. Init => CalendarTyped
    BY DEF Init, CalendarTyped
  <1>2. CalendarTyped /\ [Next]_vars => CalendarTyped'
    BY StepSparesThePast
  <1>3. CalendarTyped /\ [Next]_vars
            => [\A s \in Schedule, d \in 0 .. LastDate :
                    d < today => occurrence'[s][d] = occurrence[s][d]]_vars
    BY StepSparesThePast
  <1> QED
    BY <1>1, <1>2, <1>3, PTL DEF Spec, PastIsHistory

-----------------------------------------------------------------------------
\* The columns and the progress of handlers as functions, with the bound that
\* keeps every date the renewal books before LastDate: a night adds RenewDays
\* at most once to a row, also to one that an owner's request holds.
Progress == {Idle} \cup Loaded \cup Sweeping

Fits(to, night) == to + (LastDay - night) * RenewDays <= LastDate

Tables ==
    /\ occurrence \in [Schedule -> [0 .. LastDate -> {"none", "confirmed", "cancelled"}]]
    /\ skipped \in [Schedule -> SUBSET (0 .. LastDate)]
    /\ creating \in [Schedule -> SUBSET (0 .. LastDate)]
    /\ handling \in [Handler -> Progress]
    /\ row \in [Schedule -> Row]
    /\ found \in [Schedule -> Row]

Clock ==
    /\ today \in 0 .. LastDay
    /\ ranOn \in -1 .. LastDay
    /\ ranOn <= today /\ today <= ranOn + 1
    /\ outages \in 0 .. MaxOutages
    /\ blocked \subseteq Blockable

Renewing ==
    /\ due \subseteq Schedule
    /\ current \subseteq due
    /\ \A s, t \in current : s = t
    /\ todo \subseteq 0 .. LastDate
    /\ ranOn < today => due = {}

ValidToFits ==
    /\ \A s \in Schedule : row[s].status # "absent" => Fits(row[s].to, ranOn)
    /\ \A h \in Handler : handling[h].pc = "loaded" =>
        /\ handling[h].op \in Operation
        /\ handling[h].row.status # "absent" /\ row[handling[h].schedule].status # "absent"
        /\ Fits(handling[h].row.to, ranOn)
    /\ \A s \in due :
        /\ found[s].status = "active" /\ found[s].renew /\ row[s].status # "absent"
        /\ Fits(found[s].to, ranOn - 1)

SchedulesTyped == Tables /\ Clock /\ Renewing /\ ValidToFits

\* Min of a set of dates is its first date.
LEMMA MinOfDates ==
    ASSUME NEW T, T \subseteq Nat, T # {}
    PROVE  Min(T) \in T /\ \A y \in T : Min(T) <= y
<1> DEFINE R == OpToRel(<, Nat)
<1>1. R = {ss \in Nat \X Nat : ss[1] < ss[2]}
  BY DEF OpToRel
<1>2. IsWellFoundedOn(R, Nat)
  BY NatLessThanWellFounded
<1> HIDE DEF R
<1>3. \E x \in T : \A y \in T : ~ (<<y, x>> \in R)
  BY <1>2, WFMin
<1>4. PICK x \in T : \A y \in T : ~ (<<y, x>> \in R)
  BY <1>3
<1>5. ASSUME NEW y \in T PROVE x <= y
  <2>1. x \in Nat /\ y \in Nat /\ ~ (<<y, x>> \in R)
    BY <1>4
  <2>2. ~ (y < x)
    BY <2>1, <1>1
  <2> QED
    BY <2>1, <2>2
<1> QED
  BY <1>5 DEF Min

\* The arithmetic of one renewal a night.
LEMMA FitsLater ==
    ASSUME NEW to \in Int, NEW m \in Int, NEW n \in Int, m <= n, Fits(to, m)
    PROVE  Fits(to, n)
<1>1. LastDay \in Int /\ LastDate \in Int /\ RenewDays \in Int /\ RenewDays > 0
  BY RenewalAssumption, LastDateAssumption
<1>2. (LastDay - n) * RenewDays <= (LastDay - m) * RenewDays
  <2> DEFINE a == LastDay - n
             b == n - m
  <2>1. a \in Int /\ b \in Int /\ b >= 0 /\ LastDay - m = a + b
    BY <1>1
  <2> HIDE DEF a, b
  <2>2. (a + b) * RenewDays = a * RenewDays + b * RenewDays
    BY <1>1, <2>1
  <2>3. b * RenewDays >= 0
    BY <1>1, <2>1
  <2>4. a * RenewDays \in Int /\ b * RenewDays \in Int
    BY <1>1, <2>1
  <2>5. a * RenewDays <= (a + b) * RenewDays
    BY <2>2, <2>3, <2>4
  <2> QED
    BY <2>1, <2>5 DEF a
<1>3. (LastDay - n) * RenewDays \in Int /\ (LastDay - m) * RenewDays \in Int
  BY <1>1
<1> QED
  BY <1>1, <1>2, <1>3 DEF Fits

LEMMA FitsRenewed ==
    ASSUME NEW to \in Int, NEW n \in Int, Fits(to, n - 1)
    PROVE  Fits(to + RenewDays, n)
<1>1. LastDay \in Int /\ LastDate \in Int /\ RenewDays \in Int /\ RenewDays > 0
  BY RenewalAssumption, LastDateAssumption
<1>2. (LastDay - (n - 1)) * RenewDays = (LastDay - n) * RenewDays + RenewDays
  <2> DEFINE a == LastDay - n
  <2>1. a \in Int /\ LastDay - (n - 1) = a + 1
    BY <1>1
  <2> HIDE DEF a
  <2>2. (a + 1) * RenewDays = a * RenewDays + RenewDays
    BY <1>1, <2>1
  <2> QED
    BY <2>1, <2>2 DEF a
<1>3. (LastDay - n) * RenewDays \in Int
  BY <1>1
<1> QED
  BY <1>1, <1>2, <1>3 DEF Fits

LEMMA FitsMeansBooked ==
    ASSUME NEW to \in Int, NEW n \in Int, n <= LastDay, Fits(to, n)
    PROVE  to <= LastDate
<1>1. LastDay \in Int /\ LastDate \in Int /\ RenewDays \in Int /\ RenewDays > 0
  BY RenewalAssumption, LastDateAssumption
<1> DEFINE a == LastDay - n
<1>2. a \in Int /\ a >= 0
  BY <1>1
<1>3. to + a * RenewDays <= LastDate
  BY DEF Fits
<1> HIDE DEF a
<1>4. a * RenewDays >= 0 /\ a * RenewDays \in Int
  BY <1>1, <1>2
<1> QED
  BY <1>1, <1>3, <1>4

\* The end of a schedule that a request asks for leaves room for a renewal on
\* every night there is.
LEMMA NewFits ==
    ASSUME NEW base \in { LastDay + n.to : n \in NewSchedule } \cup NewValidTo,
           NEW to \in Int, to <= base, NEW night \in Int, night >= -1
    PROVE  Fits(to, night)
<1>1. LastDay \in Int /\ LastDate \in Int /\ RenewDays \in Int /\ RenewDays > 0
  BY RenewalAssumption, LastDateAssumption
<1>2. base \in Int
  <2>1. \A n \in NewSchedule : n.to \in Int
    BY ScheduleAssumption
  <2>2. \A t \in NewValidTo : t \in Int
    BY ScheduleAssumption
  <2>3. CASE base \in NewValidTo
    BY <2>2, <2>3
  <2>4. ASSUME NEW n \in NewSchedule, base = LastDay + n.to PROVE base \in Int
    BY <1>1, <2>1, <2>4
  <2> QED
    BY <2>3, <2>4
<1>3. base + (LastDay + 1) * RenewDays <= LastDate
  BY LastDateAssumption
<1>4. LastDay - (-1) = LastDay + 1
  BY <1>1
<1>5. (LastDay + 1) * RenewDays \in Int
  BY <1>1
<1>6. Fits(to, -1)
  BY <1>1, <1>2, <1>3, <1>4, <1>5 DEF Fits
<1> QED
  BY <1>6, FitsLater

\* A booking that is tried writes at most one entry of each table.
LEMMA TriedTypes ==
    ASSUME SchedulesTyped, NEW s \in Schedule, NEW d \in 0 .. LastDate,
           Booked(s, d) \/ Conflicts(s, d)
    PROVE  /\ occurrence' \in [Schedule -> [0 .. LastDate -> {"none", "confirmed", "cancelled"}]]
           /\ skipped' \in [Schedule -> SUBSET (0 .. LastDate)]
<1>1. CalendarTyped
  BY RenewalAssumption DEF SchedulesTyped, Tables, Clock, CalendarTyped
<1>2. CASE Booked(s, d)
  BY <1>1, <1>2, BookedSparesThePast DEF Booked, SchedulesTyped, Tables
<1>3. CASE Conflicts(s, d)
  BY <1>3 DEF Conflicts, SchedulesTyped, Tables
<1> QED
  BY <1>2, <1>3

\* create leaves a row whose dates can all be booked, and books one of them.
LEMMA CreateTypes ==
    ASSUME SchedulesTyped, NEW s \in Schedule, CreateStep(s)
    PROVE  SchedulesTyped'
<1>0. LastDay \in Nat /\ LastDate \in Nat /\ Week \in Nat \ {0}
  BY RenewalAssumption, LastDateAssumption
<1>1. ASSUME NEW n \in NewSchedule, InsertSchedule(s, n) PROVE SchedulesTyped'
  <2> DEFINE from == today + n.from
             to == today + n.to
             new == [status |-> "active", from |-> from, to |-> to, dow |-> n.dow, renew |-> n.renew]
  <2>1. n.from \in Int /\ n.to \in Int /\ n.dow \in Nat /\ n.renew \in BOOLEAN /\ today \in 0 .. LastDay
    BY ScheduleAssumption DEF SchedulesTyped, Clock
  <2>2. from >= 0 /\ from <= to /\ from \in Int /\ to \in Int /\ to <= LastDay + n.to
    BY <1>0, <1>1, <2>1 DEF InsertSchedule
  <2>3. /\ row' = [row EXCEPT ![s] = new]
        /\ creating' = [creating EXCEPT ![s] = OccurrenceDates(from, to, n.dow)]
        /\ UNCHANGED <<today, ranOn, outages, blocked, occurrence, skipped, handling, due, found, current, todo>>
        /\ row[s].status = "absent"
    BY <1>1 DEF InsertSchedule, clock, bookings, renewal
  <2>4. new \in Row
    BY <2>1, <2>2 DEF Row
  <2>5. ASSUME NEW night \in Int, night >= -1 PROVE Fits(to, night)
    <3>1. LastDay + n.to \in { LastDay + m.to : m \in NewSchedule } \cup NewValidTo
      OBVIOUS
    <3> QED
      BY <2>2, <2>5, <3>1, NewFits
  <2>6. to <= LastDate
    BY <1>0, <2>2, <2>5, FitsMeansBooked
  <2>7. OccurrenceDates(from, to, n.dow) \in SUBSET (0 .. LastDate)
    BY <1>0, <2>2, <2>6 DEF OccurrenceDates
  <2>8. new.to = to /\ new.status = "active"
    OBVIOUS
  <2> HIDE DEF from, to, new
  <2>9. Tables'
    BY <2>3, <2>4, <2>7 DEF SchedulesTyped, Tables
  <2>10. ValidToFits'
    BY <2>3, <2>5, <2>8 DEF SchedulesTyped, ValidToFits, Tables, Clock, Progress, Loaded, Idle, Sweeping, Fits
  <2>11. Clock' /\ Renewing'
    BY <2>3 DEF SchedulesTyped, Clock, Renewing
  <2> QED
    BY <2>9, <2>10, <2>11 DEF SchedulesTyped
<1>2. CASE CreateOccurrence(s)
  <2> DEFINE d == Min(creating[s])
  <2>1. creating[s] \subseteq 0 .. LastDate /\ creating[s] # {}
    BY <1>2 DEF CreateOccurrence, SchedulesTyped, Tables
  <2>2. d \in 0 .. LastDate
    BY <1>0, <2>1, MinOfDates
  <2> HIDE DEF d
  <2>3. /\ \/ Booked(s, d) \/ Conflicts(s, d)
           \/ UNCHANGED bookings
        /\ \/ creating' = [creating EXCEPT ![s] = @ \ {d}]
           \/ creating' = [creating EXCEPT ![s] = {}]
        /\ UNCHANGED <<today, ranOn, outages, blocked, row, handling, due, found, current, todo>>
    BY <1>2 DEF CreateOccurrence, clock, renewal, d
  <2>4. Tables'
    <3>1. creating' \in [Schedule -> SUBSET (0 .. LastDate)]
      BY <2>1, <2>3 DEF SchedulesTyped, Tables
    <3>2. /\ occurrence' \in [Schedule -> [0 .. LastDate -> {"none", "confirmed", "cancelled"}]]
          /\ skipped' \in [Schedule -> SUBSET (0 .. LastDate)]
      BY <2>2, <2>3, TriedTypes DEF bookings, SchedulesTyped, Tables
    <3> QED
      BY <2>3, <3>1, <3>2 DEF SchedulesTyped, Tables
  <2>5. Clock' /\ Renewing' /\ ValidToFits'
    BY <2>3 DEF SchedulesTyped, Clock, Renewing, ValidToFits, Fits
  <2> QED
    BY <2>4, <2>5 DEF SchedulesTyped
<1> QED
  BY <1>1, <1>2 DEF CreateStep

\* The requests of owners write back a row of which the dates fit.
LEMMA OwnerTypes ==
    ASSUME SchedulesTyped, NEW h \in Handler, OwnerStep(h)
    PROVE  SchedulesTyped'
<1>0. LastDay \in Nat /\ LastDate \in Nat /\ ranOn \in Int /\ ranOn >= -1 /\ ranOn <= LastDay
  BY RenewalAssumption, LastDateAssumption DEF SchedulesTyped, Clock
<1>i. Idle \in Progress /\ Idle.pc = "idle"
  BY DEF Progress, Idle
<1>h. /\ handling[h] \in Progress
      /\ handling[h].pc = "loaded" => handling[h].schedule \in Schedule /\ handling[h].row \in Row
      /\ handling[h].pc = "sweep" => handling[h].schedule \in Schedule
  BY DEF SchedulesTyped, Tables, Progress, Idle, Loaded, Sweeping
<1>1. ASSUME NEW s \in Schedule, NEW op \in Operation, LoadSchedule(h, s, op) PROVE SchedulesTyped'
  <2> DEFINE next == [pc |-> "loaded", op |-> op, schedule |-> s, row |-> row[s]]
  <2>1. /\ handling' = [handling EXCEPT ![h] = next]
        /\ UNCHANGED <<today, ranOn, outages, blocked, row, occurrence, skipped, creating, due, found, current, todo>>
        /\ row[s].status # "absent"
    BY <1>1, ScheduleAssumption DEF LoadSchedule, Allowed, clock, bookings, renewal, OwnerOperation
  <2>2. next \in Progress /\ next.op = op /\ next.schedule = s /\ next.row = row[s]
    BY ScheduleAssumption DEF Progress, Loaded, SchedulesTyped, Tables
  <2> HIDE DEF next
  <2>3. Tables'
    BY <2>1, <2>2 DEF SchedulesTyped, Tables
  <2>4. ValidToFits'
    BY <2>1, <2>2 DEF SchedulesTyped, Tables, ValidToFits, Fits
  <2>5. Clock' /\ Renewing'
    BY <2>1 DEF SchedulesTyped, Clock, Renewing
  <2> QED
    BY <2>3, <2>4, <2>5 DEF SchedulesTyped
<1>2. ASSUME NEW new \in Row, NEW next \in Progress, next.pc # "loaded", handling[h].pc = "loaded",
             row' = [row EXCEPT ![handling[h].schedule] = new],
             handling' = [handling EXCEPT ![h] = next],
             new.status # "absent", Fits(new.to, ranOn),
             UNCHANGED <<clock, bookings, creating, renewal>>
      PROVE  SchedulesTyped'
  <2>1. UNCHANGED <<today, ranOn, outages, blocked, occurrence, skipped, creating, due, found, current, todo>>
    BY <1>2 DEF clock, bookings, renewal
  <2>2. Tables'
    BY <1>2, <1>h, <2>1 DEF SchedulesTyped, Tables
  <2>3. ValidToFits'
    <3>1. \A s \in Schedule : row'[s] = new \/ row'[s] = row[s]
      BY <1>2, <1>h DEF SchedulesTyped, Tables
    <3>2. \A g \in Handler : handling'[g].pc = "loaded" => handling'[g] = handling[g]
      BY <1>2 DEF SchedulesTyped, Tables
    <3>3. \A g \in Handler : handling[g].pc = "loaded" => handling[g].schedule \in Schedule
      BY DEF SchedulesTyped, Tables, Progress, Idle, Loaded, Sweeping
    <3> QED
      BY <1>2, <2>1, <3>1, <3>2, <3>3 DEF SchedulesTyped, Tables, ValidToFits, Fits, Renewing
  <2>4. Clock' /\ Renewing'
    BY <2>1 DEF SchedulesTyped, Clock, Renewing
  <2> QED
    BY <2>2, <2>3, <2>4 DEF SchedulesTyped
<1>3. CASE SaveCancelled(h) \/ SavePausedOrResumed(h)
  <2>1. PICK status \in {"cancelled", "paused", "active"} :
          /\ row' = [row EXCEPT ![handling[h].schedule] = [handling[h].row EXCEPT !.status = status]]
          /\ handling[h].pc = "loaded"
    BY <1>3 DEF SaveCancelled, SavePausedOrResumed, SaveStatus
  <2> DEFINE new == [handling[h].row EXCEPT !.status = status]
             next == IF SaveCancelled(h) THEN [pc |-> "sweep", schedule |-> handling[h].schedule] ELSE Idle
  <2>2. next \in Progress /\ next.pc # "loaded"
    BY <1>i, <1>h, <2>1 DEF Progress, Sweeping, Idle
  <2>3. new \in Row /\ new.status # "absent" /\ new.to = handling[h].row.to
    BY <1>h, <2>1 DEF Row
  <2>4. handling' = [handling EXCEPT ![h] = next] /\ UNCHANGED <<clock, bookings, creating, renewal>>
    BY <1>3 DEF SaveCancelled, SavePausedOrResumed
  <2>5. Fits(handling[h].row.to, ranOn)
    BY <2>1 DEF SchedulesTyped, ValidToFits
  <2>6. row' = [row EXCEPT ![handling[h].schedule] = new]
    BY <2>1
  <2> HIDE DEF new, next
  <2> QED
    BY <1>2, <2>1, <2>2, <2>3, <2>4, <2>5, <2>6
<1>4. CASE SaveUpdate(h)
  <2>1. handling[h].pc = "loaded" /\ handling' = [handling EXCEPT ![h] = Idle]
        /\ UNCHANGED <<clock, bookings, creating, renewal>>
    BY <1>4 DEF SaveUpdate
  <2>2. PICK to \in {handling[h].row.to} \cup { t \in NewValidTo : t >= handling[h].row.from },
             renew \in BOOLEAN :
          row' = [row EXCEPT ![handling[h].schedule] = [handling[h].row EXCEPT !.to = to, !.renew = renew]]
    BY <1>4 DEF SaveUpdate
  <2> DEFINE new == [handling[h].row EXCEPT !.to = to, !.renew = renew]
  <2>3. to \in Nat
    BY <1>h, <2>1, ScheduleAssumption DEF Row
  <2>4. new \in Row /\ new.status = handling[h].row.status /\ new.to = to
    BY <1>h, <2>1, <2>3 DEF Row
  <2>5. Fits(handling[h].row.to, ranOn) /\ handling[h].row.status # "absent"
    BY <2>1 DEF SchedulesTyped, ValidToFits
  <2>6. Fits(to, ranOn)
    <3>1. CASE to = handling[h].row.to
      BY <2>5, <3>1
    <3>2. CASE to \in NewValidTo
      BY <1>0, <2>3, <3>2, NewFits
    <3> QED
      BY <3>1, <3>2
  <2>7. row' = [row EXCEPT ![handling[h].schedule] = new]
    BY <2>2
  <2> HIDE DEF new
  <2> QED
    BY <1>2, <1>i, <2>1, <2>4, <2>5, <2>6, <2>7
<1>5. CASE SweepOccurrences(h)
  <2> DEFINE s == handling[h].schedule
             Swept == [d \in 0 .. LastDate |->
                        IF occurrence[s][d] = "confirmed" /\ d >= today
                            THEN "cancelled" ELSE occurrence[s][d]]
  <2>1. /\ occurrence' = [occurrence EXCEPT ![s] = Swept]
        /\ handling' = [handling EXCEPT ![h] = Idle]
        /\ UNCHANGED <<today, ranOn, outages, blocked, row, skipped, creating, due, found, current, todo>>
        /\ s \in Schedule
    BY <1>5, <1>h DEF SweepOccurrences, clock, renewal
  <2>2. Swept \in [0 .. LastDate -> {"none", "confirmed", "cancelled"}]
    BY <2>1 DEF SchedulesTyped, Tables
  <2> HIDE DEF Swept, s
  <2>3. Tables'
    BY <1>i, <2>1, <2>2 DEF SchedulesTyped, Tables
  <2>4. ValidToFits'
    BY <1>i, <2>1 DEF SchedulesTyped, Tables, ValidToFits, Fits
  <2>5. Clock' /\ Renewing'
    BY <2>1 DEF SchedulesTyped, Clock, Renewing
  <2> QED
    BY <2>3, <2>4, <2>5 DEF SchedulesTyped
<1> QED
  BY <1>1, <1>3, <1>4, <1>5 DEF OwnerStep

\* The renewal reads its rows once a night, books dates that fit, and adds
\* RenewDays to a row no more often.
LEMMA RenewTypes ==
    ASSUME SchedulesTyped, NEW s \in Schedule, RenewStep(s)
    PROVE  SchedulesTyped'
<1>0. /\ LastDay \in Nat /\ LastDate \in Nat /\ RenewDays \in Nat
      /\ ranOn \in Int /\ ranOn >= -1 /\ ranOn <= LastDay
  BY RenewalAssumption, LastDateAssumption DEF SchedulesTyped, Clock
<1>1. CASE NextSchedule(s)
  <2>1. /\ s \in due /\ current' = {s}
        /\ todo' = OccurrenceDates(found[s].to + 1, found[s].to + RenewDays, found[s].dow)
        /\ UNCHANGED <<today, ranOn, outages, blocked, row, occurrence, skipped, creating, handling, due, found>>
    BY <1>1 DEF NextSchedule, clock, bookings
  <2>2. found[s].to \in Nat
    BY DEF SchedulesTyped, Tables, Row
  <2>3. Fits(found[s].to + RenewDays, ranOn)
    BY <1>0, <2>1, <2>2, FitsRenewed DEF SchedulesTyped, ValidToFits
  <2>4. found[s].to + RenewDays <= LastDate
    BY <1>0, <2>2, <2>3, FitsMeansBooked
  <2>5. todo' \subseteq 0 .. LastDate
    BY <1>0, <2>1, <2>2, <2>4 DEF OccurrenceDates
  <2> QED
    BY <2>1, <2>5 DEF SchedulesTyped, Tables, Clock, Renewing, ValidToFits, Fits
<1>2. CASE RenewOccurrence(s)
  <2> DEFINE d == Min(todo)
  <2>1. todo \subseteq 0 .. LastDate /\ todo # {}
    BY <1>2 DEF RenewOccurrence, SchedulesTyped, Renewing
  <2>2. d \in 0 .. LastDate
    <3>1. todo \subseteq Nat
      BY <2>1
    <3>2. d \in todo
      BY <2>1, <3>1, MinOfDates
    <3> QED
      BY <2>1, <3>2
  <2> HIDE DEF d
  <2>3. /\ Booked(s, d) \/ Conflicts(s, d)
        /\ todo' = todo \ {d}
        /\ UNCHANGED <<today, ranOn, outages, blocked, row, creating, handling, due, found, current>>
    BY <1>2 DEF RenewOccurrence, clock, d
  <2>4. /\ occurrence' \in [Schedule -> [0 .. LastDate -> {"none", "confirmed", "cancelled"}]]
        /\ skipped' \in [Schedule -> SUBSET (0 .. LastDate)]
    BY <2>2, <2>3, TriedTypes
  <2> QED
    BY <2>1, <2>3, <2>4 DEF SchedulesTyped, Tables, Clock, Renewing, ValidToFits, Fits
<1>3. CASE AbortRenewal(s)
  <2>1. /\ due' = {} /\ current' = {} /\ todo' = {}
        /\ UNCHANGED <<today, ranOn, outages, blocked, row, occurrence, skipped, creating, handling, found>>
    BY <1>3 DEF AbortRenewal, clock, bookings
  <2> QED
    BY <2>1 DEF SchedulesTyped, Tables, Clock, Renewing, ValidToFits, Fits
<1>4. CASE SaveRenewal(s)
  <2> DEFINE new == [found[s] EXCEPT !.to = @ + RenewDays]
  <2>1. /\ s \in current /\ row' = [row EXCEPT ![s] = new]
        /\ due' = due \ {s} /\ current' = {}
        /\ UNCHANGED <<today, ranOn, outages, blocked, occurrence, skipped, creating, handling, found, todo>>
    BY <1>4 DEF SaveRenewal, clock, bookings
  <2>2. found[s] \in Row /\ found[s].status = "active" /\ Fits(found[s].to, ranOn - 1)
    BY <2>1 DEF SchedulesTyped, Tables, Renewing, ValidToFits
  <2>3. new \in Row /\ new.status = "active" /\ new.to = found[s].to + RenewDays
    BY <1>0, <2>2 DEF Row
  <2>4. Fits(new.to, ranOn)
    BY <1>0, <2>2, <2>3, FitsRenewed DEF Row
  <2> HIDE DEF new
  <2>5. Tables'
    BY <2>1, <2>3 DEF SchedulesTyped, Tables
  <2>6. ValidToFits'
    BY <2>1, <2>3, <2>4 DEF SchedulesTyped, Tables, Renewing, ValidToFits, Fits
  <2>7. Clock' /\ Renewing'
    BY <2>1 DEF SchedulesTyped, Clock, Renewing
  <2> QED
    BY <2>5, <2>6, <2>7 DEF SchedulesTyped
<1> QED
  BY <1>1, <1>2, <1>3, <1>4 DEF RenewStep

\* What the renewal finds at 01:00 has room for one more renewal.
LEMMA StartTypes ==
    ASSUME SchedulesTyped, StartRenewal
    PROVE  SchedulesTyped'
<1>0. /\ LastDay \in Nat /\ today \in 0 .. LastDay /\ ranOn \in Int /\ ranOn <= today - 1
  BY RenewalAssumption DEF StartRenewal, SchedulesTyped, Clock
<1>1. /\ ranOn' = today /\ due' = DueSchedules /\ found' = row /\ due = {}
      /\ UNCHANGED <<today, outages, blocked, row, occurrence, skipped, creating, handling, current, todo>>
  BY DEF StartRenewal, bookings
<1>2. Tables' /\ Clock' /\ Renewing'
  BY <1>0, <1>1 DEF SchedulesTyped, Tables, Clock, Renewing, DueSchedules
<1>3. ValidToFits'
  <2>1. ASSUME NEW s \in Schedule, row[s].status # "absent"
        PROVE  Fits(row[s].to, today) /\ Fits(row[s].to, today - 1)
    <3>1. row[s].to \in Int /\ Fits(row[s].to, ranOn)
      BY <2>1 DEF SchedulesTyped, ValidToFits, Tables, Row
    <3> QED
      BY <1>0, <3>1, FitsLater
  <2>2. ASSUME NEW h \in Handler, handling[h].pc = "loaded"
        PROVE  Fits(handling[h].row.to, today)
    <3>1. handling[h].row.to \in Int /\ Fits(handling[h].row.to, ranOn)
      BY <2>2 DEF SchedulesTyped, ValidToFits, Tables, Progress, Loaded, Idle, Sweeping, Row
    <3> QED
      BY <1>0, <3>1, FitsLater
  <2>3. \A s \in due' : found'[s] = row[s] /\ row[s].status = "active" /\ row[s].renew /\ s \in Schedule
    BY <1>1 DEF DueSchedules
  <2> QED
    BY <1>1, <2>1, <2>2, <2>3 DEF SchedulesTyped, ValidToFits, Fits
<1> QED
  BY <1>2, <1>3 DEF SchedulesTyped

\* Time passes, the server stops and starts.
LEMMA SurroundingTypes ==
    ASSUME SchedulesTyped,
           \/ \E s \in Blockable : Block(s)
           \/ Tick \/ Restart \/ MissRenewal \/ UNCHANGED vars
    PROVE  SchedulesTyped'
<1>0. LastDay \in Nat /\ MaxOutages \in Nat
  BY RenewalAssumption
<1>1. ASSUME NEW s \in Blockable, Block(s) PROVE SchedulesTyped'
  <2>1. blocked' \subseteq Blockable
    BY <1>1 DEF Block, SchedulesTyped, Clock
  <2>2. UNCHANGED <<today, ranOn, outages, row, occurrence, skipped, creating, handling, due, found, current, todo>>
    BY <1>1 DEF Block, bookings, renewal
  <2> QED
    BY <2>1, <2>2 DEF SchedulesTyped, Tables, Clock, Renewing, ValidToFits, Fits
<1>2. CASE Tick
  <2>1. /\ today < LastDay /\ ranOn = today /\ due = {} /\ today' = today + 1
        /\ UNCHANGED <<ranOn, outages, blocked, row, occurrence, skipped, creating, handling, due, found, current, todo>>
    BY <1>2 DEF Tick, bookings, renewal
  <2>2. Clock'
    BY <1>0, <2>1 DEF SchedulesTyped, Clock
  <2> QED
    BY <2>1, <2>2 DEF SchedulesTyped, Tables, Renewing, ValidToFits, Fits
<1>3. CASE Restart
  <2>1. /\ outages < MaxOutages /\ outages' = outages + 1
        /\ creating' = [s \in Schedule |-> {}] /\ handling' = [h \in Handler |-> Idle]
        /\ due' = {} /\ current' = {} /\ todo' = {}
        /\ UNCHANGED <<today, ranOn, blocked, row, occurrence, skipped, found>>
    BY <1>3 DEF Restart, bookings
  <2>2. Clock'
    BY <1>0, <2>1 DEF SchedulesTyped, Clock
  <2>3. Tables' /\ Renewing'
    BY <2>1 DEF SchedulesTyped, Tables, Renewing, Progress
  <2>4. ValidToFits'
    BY <2>1 DEF SchedulesTyped, ValidToFits, Fits, Idle
  <2> QED
    BY <2>2, <2>3, <2>4 DEF SchedulesTyped
<1>4. CASE MissRenewal
  <2>1. /\ outages < MaxOutages /\ outages' = outages + 1 /\ ranOn < today /\ ranOn' = today
        /\ UNCHANGED <<today, blocked, row, occurrence, skipped, creating, handling, due, found, current, todo>>
    BY <1>4 DEF MissRenewal, bookings, renewal
  <2>2. Clock' /\ today \in Int /\ ranOn \in Int /\ due = {}
    BY <1>0, <2>1 DEF SchedulesTyped, Clock, Renewing
  <2>3. ASSUME NEW s \in Schedule, row[s].status # "absent" PROVE Fits(row[s].to, today)
    <3>1. row[s].to \in Int /\ Fits(row[s].to, ranOn)
      BY <2>3 DEF SchedulesTyped, ValidToFits, Tables, Row
    <3> QED
      BY <2>1, <2>2, <3>1, FitsLater
  <2>4. ASSUME NEW h \in Handler, handling[h].pc = "loaded" PROVE Fits(handling[h].row.to, today)
    <3>1. handling[h].row.to \in Int /\ Fits(handling[h].row.to, ranOn)
      BY <2>4 DEF SchedulesTyped, ValidToFits, Tables, Progress, Loaded, Idle, Sweeping, Row
    <3> QED
      BY <2>1, <2>2, <3>1, FitsLater
  <2>5. ValidToFits'
    BY <2>1, <2>2, <2>3, <2>4 DEF SchedulesTyped, ValidToFits, Fits
  <2> QED
    BY <2>1, <2>2, <2>5 DEF SchedulesTyped, Tables, Renewing
<1>5. CASE UNCHANGED vars
  BY <1>5 DEF vars, clock, bookings, renewal, SchedulesTyped, Tables, Clock, Renewing, ValidToFits, Fits
<1> QED
  BY <1>1, <1>2, <1>3, <1>4, <1>5

\* Every date the service books, reports or has still to book is one that can
\* be booked, however often a schedule was renewed.
LEMMA SchedulesAreTyped == Spec => []SchedulesTyped
<1>1. Init => SchedulesTyped
  <2> SUFFICES ASSUME Init PROVE SchedulesTyped
    OBVIOUS
  <2>1. Absent \in Row /\ Absent.status = "absent" /\ Idle.pc = "idle"
    BY DEF Absent, Row, Idle
  <2>2. Tables
    BY <2>1 DEF Init, Tables, Progress
  <2>3. Clock
    BY RenewalAssumption DEF Init, Clock
  <2>4. Renewing /\ ValidToFits
    BY <2>1 DEF Init, Renewing, ValidToFits
  <2> QED
    BY <2>2, <2>3, <2>4 DEF SchedulesTyped
<1>2. SchedulesTyped /\ [Next]_vars => SchedulesTyped'
  BY CreateTypes, OwnerTypes, RenewTypes, StartTypes, SurroundingTypes DEF Next
<1> QED
  BY <1>1, <1>2, PTL DEF Spec

\* Creation, the owner's requests and the renewal write values of the columns'
\* types, also a row that was read long before.
THEOREM SchedulesTypeCorrect == Spec => []TypeOK
<1>1. SchedulesTyped => TypeOK
  <2> SUFFICES ASSUME SchedulesTyped PROVE TypeOK
    OBVIOUS
  <2>1. Cardinality(current) <= 1
    <3>1. CASE current = {}
      BY <3>1, FS_EmptySet
    <3>2. ASSUME NEW s \in current PROVE Cardinality(current) <= 1
      <4>1. current = {s}
        BY <3>2 DEF SchedulesTyped, Renewing
      <4> QED
        BY <4>1, FS_Singleton
    <3> QED
      BY <3>1, <3>2
  <2>2. \A s \in Schedule :
        /\ DOMAIN occurrence[s] = 0 .. LastDate
        /\ \A d \in 0 .. LastDate : occurrence[s][d] \in {"none", "confirmed", "cancelled"}
        /\ skipped[s] \subseteq 0 .. LastDate
        /\ creating[s] \subseteq 0 .. LastDate
    BY DEF SchedulesTyped, Tables
  <2>3. \A h \in Handler : handling[h] = Idle \/ handling[h] \in Loaded \/ handling[h] \in Sweeping
    BY DEF SchedulesTyped, Tables, Progress
  <2> QED
    BY <2>1, <2>2, <2>3 DEF SchedulesTyped, Tables, Clock, Renewing, TypeOK
<1> QED
  BY <1>1, SchedulesAreTyped, PTL

-----------------------------------------------------------------------------
\* Rows of one schedule that are in the table or in the hands of a request
\* differ in valid_to by dates that were tried, and not at all before the
\* night's renewal has saved.
Tried(s, from, to) ==
    \A d \in 0 .. LastDate : from < d /\ d <= to /\ d % Week = row[s].dow => Attempted(s, d)

Holds(h, s) == handling[h].pc = "loaded" /\ handling[h].schedule = s

Unrenewed(s) == ranOn < today \/ s \in due

NoGaps ==
    /\ \A h \in Handler, s \in Schedule : Holds(h, s) =>
        /\ handling[h].row.dow = row[s].dow
        /\ Tried(s, row[s].to, handling[h].row.to)
        /\ Tried(s, handling[h].row.to, row[s].to)
        /\ Unrenewed(s) => handling[h].row.to = row[s].to
    /\ \A s \in due : found[s].to = row[s].to /\ found[s].dow = row[s].dow
    /\ \A s \in current, d \in 0 .. LastDate :
        found[s].to < d /\ d <= found[s].to + RenewDays /\ d % Week = found[s].dow
            => Attempted(s, d) \/ d \in todo

\* What was tried stays tried.
LEMMA AttemptedStays ==
    ASSUME SchedulesTyped, [Next]_vars, NEW s \in Schedule, NEW d \in 0 .. LastDate, Attempted(s, d)
    PROVE  Attempted(s, d)'
<1>0. LastDate \in Nat
  BY LastDateAssumption
<1>1. ASSUME NEW t \in Schedule, NEW e \in 0 .. LastDate, Booked(t, e) \/ Conflicts(t, e)
      PROVE  Attempted(s, d)'
  <2>1. CASE Booked(t, e)
    <3>1. occurrence' = [occurrence EXCEPT ![t][e] = "confirmed"] /\ skipped' = skipped
      BY <2>1 DEF Booked
    <3>2. occurrence'[s][d] \in {occurrence[s][d], "confirmed"}
      BY <3>1 DEF SchedulesTyped, Tables
    <3> QED
      BY <3>1, <3>2 DEF Attempted
  <2>2. CASE Conflicts(t, e)
    <3>1. skipped' = [skipped EXCEPT ![t] = skipped[t] \cup {e}] /\ occurrence' = occurrence
      BY <2>2 DEF Conflicts
    <3>2. skipped[s] \subseteq skipped'[s]
      BY <3>1 DEF SchedulesTyped, Tables
    <3> QED
      BY <3>1, <3>2 DEF Attempted
  <2> QED
    BY <1>1, <2>1, <2>2
<1>2. CASE UNCHANGED bookings
  BY <1>2 DEF bookings, Attempted
<1>3. ASSUME NEW t \in Schedule, CreateOccurrence(t) PROVE Attempted(s, d)'
  <2>1. creating[t] \subseteq 0 .. LastDate /\ creating[t] # {}
    BY <1>3 DEF CreateOccurrence, SchedulesTyped, Tables
  <2>2. creating[t] \subseteq Nat
    BY <2>1
  <2>3. Min(creating[t]) \in 0 .. LastDate
    BY <2>1, <2>2, MinOfDates
  <2> QED
    BY <1>1, <1>2, <1>3, <2>3 DEF CreateOccurrence
<1>4. ASSUME NEW t \in Schedule, RenewOccurrence(t) PROVE Attempted(s, d)'
  <2>1. todo \subseteq 0 .. LastDate /\ todo # {}
    BY <1>4 DEF RenewOccurrence, SchedulesTyped, Renewing
  <2>2. todo \subseteq Nat
    BY <2>1
  <2>3. Min(todo) \in 0 .. LastDate
    BY <2>1, <2>2, MinOfDates
  <2> QED
    BY <1>1, <1>4, <2>3 DEF RenewOccurrence
<1>5. ASSUME NEW h \in Handler, SweepOccurrences(h) PROVE Attempted(s, d)'
  <2> DEFINE t == handling[h].schedule
             Swept == [e \in 0 .. LastDate |->
                        IF occurrence[t][e] = "confirmed" /\ e >= today
                            THEN "cancelled" ELSE occurrence[t][e]]
  <2>1. occurrence' = [occurrence EXCEPT ![t] = Swept] /\ skipped' = skipped
    BY <1>5 DEF SweepOccurrences
  <2>2. occurrence[t][d] # "none" => Swept[d] # "none"
    OBVIOUS
  <2> HIDE DEF Swept, t
  <2> QED
    BY <2>1, <2>2 DEF Attempted, SchedulesTyped, Tables
<1>6. CASE UNCHANGED vars
  BY <1>2, <1>6 DEF vars
<1>7. ASSUME NEW t \in Schedule, CreateStep(t) PROVE Attempted(s, d)'
  BY <1>2, <1>3, <1>7 DEF CreateStep, InsertSchedule
<1>8. ASSUME NEW h \in Handler, OwnerStep(h) PROVE Attempted(s, d)'
  BY <1>2, <1>5, <1>8 DEF OwnerStep, LoadSchedule, SaveCancelled, SavePausedOrResumed, SaveUpdate
<1>9. ASSUME NEW t \in Schedule, RenewStep(t) PROVE Attempted(s, d)'
  BY <1>2, <1>4, <1>9 DEF RenewStep, NextSchedule, AbortRenewal, SaveRenewal
<1>10. CASE StartRenewal \/ Tick \/ Restart \/ MissRenewal \/ \E t \in Blockable : Block(t)
  BY <1>2, <1>10 DEF StartRenewal, Tick, Restart, MissRenewal, Block
<1> QED
  BY <1>6, <1>7, <1>8, <1>9, <1>10 DEF Next

\* What a request that is loaded holds.
LEMMA HeldRow ==
    ASSUME SchedulesTyped, NEW h \in Handler, handling[h].pc = "loaded"
    PROVE  /\ handling[h].schedule \in Schedule /\ handling[h].row \in Row
           /\ handling[h].op \in Operation
           /\ row[handling[h].schedule].status # "absent"
BY DEF SchedulesTyped, Tables, ValidToFits, Progress, Idle, Loaded, Sweeping

\* create, load and sweep: no valid_to moves.
LEMMA LoadLeavesNoGap ==
    ASSUME SchedulesTyped, NoGaps, [Next]_vars, NEW h \in Handler, NEW s \in Schedule,
           \/ \E op \in Operation : LoadSchedule(h, s, op)
           \/ \E n \in NewSchedule : InsertSchedule(s, n)
           \/ CreateOccurrence(s) \/ SweepOccurrences(h)
    PROVE  NoGaps'
<1>0. \A t \in Schedule, d \in 0 .. LastDate : Attempted(t, d) => Attempted(t, d)'
  BY AttemptedStays
<1>1. /\ UNCHANGED <<today, ranOn, due, found, current, todo>>
      /\ \A t \in Schedule : row'[t] = row[t] \/ row[t].status = "absent"
      /\ \A g \in Handler : handling'[g].pc = "loaded" =>
            \/ handling'[g] = handling[g]
            \/ handling'[g].row = row[handling'[g].schedule] /\ row' = row
  <2>1. ASSUME NEW op \in Operation, LoadSchedule(h, s, op)
        PROVE  /\ UNCHANGED <<today, ranOn, due, found, current, todo, row>>
               /\ \A g \in Handler : handling'[g] # handling[g] => handling'[g].row = row[handling'[g].schedule]
    BY <2>1 DEF LoadSchedule, clock, renewal, SchedulesTyped, Tables
  <2>2. ASSUME NEW n \in NewSchedule, InsertSchedule(s, n)
        PROVE  /\ UNCHANGED <<today, ranOn, due, found, current, todo, handling>>
               /\ \A t \in Schedule : row'[t] = row[t] \/ row[t].status = "absent"
    BY <2>2 DEF InsertSchedule, clock, renewal, SchedulesTyped, Tables
  <2>3. CASE CreateOccurrence(s)
    BY <2>3 DEF CreateOccurrence, clock, renewal
  <2>4. CASE SweepOccurrences(h)
    BY <2>4 DEF SweepOccurrences, clock, renewal, SchedulesTyped, Tables, Idle
  <2> QED
    BY <2>1, <2>2, <2>3, <2>4
<1>2. ASSUME NEW g \in Handler, NEW t \in Schedule, Holds(g, t)'
      PROVE  /\ handling'[g].row.dow = row'[t].dow
             /\ Tried(t, row[t].to, handling[g].row.to)'
             /\ Tried(t, handling[g].row.to, row[t].to)'
             /\ Unrenewed(t)' => handling'[g].row.to = row'[t].to
  <2>1. CASE handling'[g] = handling[g]
    <3>1. Holds(g, t) /\ row[t].status # "absent"
      BY <1>2, <2>1, HeldRow DEF Holds
    <3>2. row'[t] = row[t]
      BY <1>1, <3>1
    <3> QED
      BY <1>0, <1>1, <2>1, <3>1, <3>2 DEF NoGaps, Tried, Unrenewed
  <2>2. CASE handling'[g].row = row[handling'[g].schedule] /\ row' = row
    <3>1. handling'[g].row = row'[t]
      BY <1>2, <2>2 DEF Holds
    <3>2. row'[t].to \in Nat
      BY <2>2 DEF SchedulesTyped, Tables, Row
    <3> QED
      BY <3>1, <3>2, LastDateAssumption DEF Tried
  <2> QED
    BY <1>1, <1>2, <2>1, <2>2 DEF Holds
<1>3. \A t \in due : row[t].status # "absent" /\ t \in Schedule
  BY DEF SchedulesTyped, ValidToFits, Renewing
<1>4. \A t \in due' : found'[t].to = row'[t].to /\ found'[t].dow = row'[t].dow
  BY <1>1, <1>3 DEF NoGaps
<1>5. current \subseteq Schedule
  BY DEF SchedulesTyped, Renewing
<1>6. \A t \in current', d \in 0 .. LastDate :
        found'[t].to < d /\ d <= found'[t].to + RenewDays /\ d % Week = found'[t].dow
            => Attempted(t, d)' \/ d \in todo'
  BY <1>0, <1>1, <1>5 DEF NoGaps
<1> QED
  BY <1>2, <1>4, <1>6 DEF NoGaps

\* Dates between three rows of a schedule.
LEMMA TriedBetween ==
    ASSUME NEW s \in Schedule, NEW a \in Int, NEW b \in Int, NEW c \in Int,
           Tried(s, a, b), Tried(s, b, c)
    PROVE  Tried(s, a, c)
<1> SUFFICES ASSUME NEW d \in 0 .. LastDate, a < d, d <= c, d % Week = row[s].dow
             PROVE  Attempted(s, d)
  BY DEF Tried
<1>1. d \in Int
  BY LastDateAssumption
<1>2. CASE d <= b
  BY <1>2 DEF Tried
<1>3. CASE b < d
  BY <1>3 DEF Tried
<1> QED
  BY <1>1, <1>2, <1>3

\* cancel, pause and resume write back a valid_to whose dates up to the one in
\* the table were tried, and before the night's renewal the very same.
LEMMA StatusSaveLeavesNoGap ==
    ASSUME SchedulesTyped, NoGaps, [Next]_vars, NEW h \in Handler,
           SaveCancelled(h) \/ SavePausedOrResumed(h)
    PROVE  NoGaps'
<1>0. \A t \in Schedule, d \in 0 .. LastDate : Attempted(t, d) => Attempted(t, d)'
  BY AttemptedStays
<1> DEFINE s == handling[h].schedule
           held == handling[h].row
<1>1. /\ UNCHANGED <<today, ranOn, due, found, current, todo, occurrence, skipped>>
      /\ handling[h].pc = "loaded" /\ handling'[h].pc # "loaded"
      /\ \A g \in Handler : g # h => handling'[g] = handling[g]
      /\ \E status \in {"cancelled", "paused", "active"} :
            row' = [row EXCEPT ![s] = [held EXCEPT !.status = status]]
  BY DEF SaveCancelled, SavePausedOrResumed, SaveStatus, clock, bookings, renewal, Idle,
     SchedulesTyped, Tables
<1>2. s \in Schedule /\ held \in Row
  BY <1>1, HeldRow
<1>3. /\ row'[s].to = held.to /\ row'[s].dow = held.dow
      /\ \A t \in Schedule : t # s => row'[t] = row[t]
  BY <1>1, <1>2 DEF SchedulesTyped, Tables, Row
<1>4. /\ held.dow = row[s].dow
      /\ Tried(s, row[s].to, held.to) /\ Tried(s, held.to, row[s].to)
      /\ Unrenewed(s) => held.to = row[s].to
  BY <1>1, <1>2 DEF NoGaps, Holds
<1>5. held.to \in Int /\ row[s].to \in Int
  BY <1>2 DEF SchedulesTyped, Tables, Row
<1> HIDE DEF s, held
<1>6. ASSUME NEW g \in Handler, NEW t \in Schedule, Holds(g, t)'
      PROVE  /\ handling'[g].row.dow = row'[t].dow
             /\ Tried(t, row[t].to, handling[g].row.to)'
             /\ Tried(t, handling[g].row.to, row[t].to)'
             /\ Unrenewed(t)' => handling'[g].row.to = row'[t].to
  <2>1. handling'[g] = handling[g] /\ Holds(g, t)
    BY <1>1, <1>6 DEF Holds
  <2>2. /\ handling[g].row.dow = row[t].dow
        /\ Tried(t, row[t].to, handling[g].row.to)
        /\ Tried(t, handling[g].row.to, row[t].to)
        /\ Unrenewed(t) => handling[g].row.to = row[t].to
    BY <2>1 DEF NoGaps
  <2>3. handling[g].row.to \in Int
    BY <2>1, HeldRow DEF Holds, Row
  <2>4. CASE t = s
    <3>1. Tried(s, held.to, handling[g].row.to) /\ Tried(s, handling[g].row.to, held.to)
      BY <1>2, <1>4, <1>5, <2>2, <2>3, <2>4, TriedBetween
    <3> QED
      BY <1>0, <1>1, <1>3, <1>4, <2>1, <2>2, <2>4, <3>1 DEF Tried, Unrenewed
  <2>5. CASE t # s
    BY <1>0, <1>1, <1>3, <2>1, <2>2, <2>5 DEF Tried, Unrenewed
  <2> QED
    BY <2>4, <2>5
<1>7. ASSUME NEW t \in due' PROVE found'[t].to = row'[t].to /\ found'[t].dow = row'[t].dow
  <2>1. t \in due /\ t \in Schedule /\ found[t].to = row[t].to /\ found[t].dow = row[t].dow
    BY <1>1, <1>7 DEF NoGaps, SchedulesTyped, Renewing
  <2>2. row'[t].to = row[t].to /\ row'[t].dow = row[t].dow
    BY <1>3, <1>4, <2>1 DEF Unrenewed
  <2> QED
    BY <1>1, <2>1, <2>2
<1>8. current \subseteq Schedule
  BY DEF SchedulesTyped, Renewing
<1>9. \A t \in current', d \in 0 .. LastDate :
        found'[t].to < d /\ d <= found'[t].to + RenewDays /\ d % Week = found'[t].dow
            => Attempted(t, d)' \/ d \in todo'
  BY <1>0, <1>1, <1>8 DEF NoGaps
<1> QED
  BY <1>6, <1>7, <1>9 DEF NoGaps

\* The renewal tries every date it adds before it saves the new valid_to.
LEMMA RenewalTriesFirst ==
    ASSUME SchedulesTyped, NoGaps, [Next]_vars, NEW s \in Schedule, RenewStep(s)
    PROVE  NoGaps'
<1>0. \A t \in Schedule, d \in 0 .. LastDate : Attempted(t, d) => Attempted(t, d)'
  BY AttemptedStays
<1>t. current \subseteq Schedule /\ current \subseteq due /\ RenewDays \in Nat /\ LastDate \in Nat
  BY RenewalAssumption, LastDateAssumption DEF SchedulesTyped, Renewing
<1>1. ASSUME UNCHANGED <<today, ranOn, row, handling, found>>, due' \subseteq due,
             \A t \in current', d \in 0 .. LastDate :
               found[t].to < d /\ d <= found[t].to + RenewDays /\ d % Week = found[t].dow
                   => Attempted(t, d)' \/ d \in todo'
      PROVE  NoGaps'
  <2>1. ASSUME NEW g \in Handler, NEW t \in Schedule, Holds(g, t)'
        PROVE  /\ handling'[g].row.dow = row'[t].dow
               /\ Tried(t, row[t].to, handling[g].row.to)'
               /\ Tried(t, handling[g].row.to, row[t].to)'
               /\ Unrenewed(t)' => handling'[g].row.to = row'[t].to
    <3>1. Holds(g, t)
      BY <1>1, <2>1 DEF Holds
    <3> QED
      BY <1>0, <1>1, <3>1 DEF NoGaps, Tried, Unrenewed
  <2>2. \A t \in due' : found'[t].to = row'[t].to /\ found'[t].dow = row'[t].dow
    BY <1>1 DEF NoGaps
  <2> QED
    BY <1>1, <2>1, <2>2 DEF NoGaps
<1>2. CASE NextSchedule(s)
  <2>1. /\ current' = {s} /\ UNCHANGED <<today, ranOn, row, handling, found, due>>
        /\ todo' = OccurrenceDates(found[s].to + 1, found[s].to + RenewDays, found[s].dow)
    BY <1>2 DEF NextSchedule, clock
  <2>2. found[s].to \in Nat
    BY DEF SchedulesTyped, Tables, Row
  <2>3. ASSUME NEW d \in 0 .. LastDate, found[s].to < d, d <= found[s].to + RenewDays,
               d % Week = found[s].dow
        PROVE  d \in todo'
    BY <1>t, <2>1, <2>2, <2>3 DEF OccurrenceDates
  <2> QED
    BY <1>1, <2>1, <2>3
<1>3. CASE RenewOccurrence(s)
  <2>1. todo \subseteq 0 .. LastDate /\ todo # {} /\ todo \subseteq Nat
    BY <1>3 DEF RenewOccurrence, SchedulesTyped, Renewing
  <2>2. PICK e \in 0 .. LastDate : e = Min(todo)
    BY <2>1, MinOfDates
  <2>3. /\ Booked(s, e) \/ Conflicts(s, e)
        /\ todo' = todo \ {e} /\ s \in current
        /\ UNCHANGED <<today, ranOn, row, handling, found, due, current>>
    BY <1>3, <2>2 DEF RenewOccurrence, clock
  <2>4. Attempted(s, e)'
    <3>1. CASE Booked(s, e)
      <4>1. occurrence' = [occurrence EXCEPT ![s][e] = "confirmed"]
        BY <3>1 DEF Booked
      <4>2. occurrence'[s][e] = "confirmed"
        BY <2>2, <4>1 DEF SchedulesTyped, Tables
      <4> QED
        BY <4>2 DEF Attempted
    <3>2. CASE Conflicts(s, e)
      <4>1. skipped' = [skipped EXCEPT ![s] = skipped[s] \cup {e}]
        BY <3>2 DEF Conflicts
      <4>2. e \in skipped'[s]
        BY <4>1 DEF SchedulesTyped, Tables
      <4> QED
        BY <4>2 DEF Attempted
    <3> QED
      BY <2>3, <3>1, <3>2
  <2>5. ASSUME NEW t \in current', NEW d \in 0 .. LastDate, found[t].to < d,
               d <= found[t].to + RenewDays, d % Week = found[t].dow
        PROVE  Attempted(t, d)' \/ d \in todo'
    <3>1. t = s /\ t \in current /\ t \in Schedule
      BY <2>3, <1>t DEF SchedulesTyped, Renewing
    <3>2. Attempted(t, d) \/ d \in todo
      BY <2>5, <3>1 DEF NoGaps
    <3>3. CASE d = e
      BY <2>4, <3>1, <3>3
    <3>4. CASE d # e
      <4>1. d \in todo => d \in todo'
        BY <2>3, <3>4
      <4> QED
        BY <1>0, <3>1, <3>2, <4>1
    <3> QED
      BY <3>3, <3>4
  <2> QED
    BY <1>1, <2>3, <2>5
<1>4. CASE AbortRenewal(s)
  <2>1. due' = {} /\ current' = {} /\ UNCHANGED <<today, ranOn, row, handling, found>>
    BY <1>4 DEF AbortRenewal, clock
  <2> QED
    BY <1>1, <2>1
<1>5. CASE SaveRenewal(s)
  <2> DEFINE new == [found[s] EXCEPT !.to = @ + RenewDays]
  <2>1. /\ s \in current /\ todo = {} /\ row' = [row EXCEPT ![s] = new]
        /\ due' = due \ {s} /\ current' = {}
        /\ UNCHANGED <<today, ranOn, handling, found>>
    BY <1>5 DEF SaveRenewal, clock
  <2>2. found[s] \in Row /\ found[s].to = row[s].to /\ found[s].dow = row[s].dow /\ s \in due
    BY <1>t, <2>1 DEF SchedulesTyped, Tables, NoGaps
  <2>3. new.to = row[s].to + RenewDays /\ new.dow = row[s].dow /\ row[s].to \in Nat
    BY <2>2 DEF Row
  <2> HIDE DEF new
  <2>4. row'[s] = new /\ \A t \in Schedule : t # s => row'[t] = row[t]
    BY <2>1 DEF SchedulesTyped, Tables
  <2>5. \A d \in 0 .. LastDate :
          row[s].to < d /\ d <= new.to /\ d % Week = row[s].dow => Attempted(s, d)
    BY <2>1, <2>2, <2>3 DEF NoGaps
  <2>6. ASSUME NEW g \in Handler, NEW t \in Schedule, Holds(g, t)'
        PROVE  /\ handling'[g].row.dow = row'[t].dow
               /\ Tried(t, row[t].to, handling[g].row.to)'
               /\ Tried(t, handling[g].row.to, row[t].to)'
               /\ Unrenewed(t)' => handling'[g].row.to = row'[t].to
    <3>1. Holds(g, t)
      BY <2>1, <2>6 DEF Holds
    <3>2. CASE t # s
      BY <1>0, <2>1, <2>4, <3>1, <3>2 DEF NoGaps, Tried, Unrenewed
    <3>3. CASE t = s
      <4>1. /\ handling[g].row.to = row[s].to /\ handling[g].row.dow = row[s].dow
        BY <2>2, <3>1, <3>3 DEF NoGaps, Unrenewed
      <4>2. ~ Unrenewed(s)'
        BY <2>1, <2>2 DEF Unrenewed, SchedulesTyped, Renewing
      <4>3. Tried(s, row[s].to, handling[g].row.to)'
        BY <1>t, <2>1, <2>3, <2>4, <4>1 DEF Tried
      <4>4. Tried(s, handling[g].row.to, row[s].to)'
        BY <1>0, <2>1, <2>3, <2>4, <2>5, <4>1 DEF Tried
      <4> QED
        BY <2>1, <2>3, <2>4, <3>3, <4>1, <4>2, <4>3, <4>4
    <3> QED
      BY <3>2, <3>3
  <2>7. \A t \in due' : found'[t].to = row'[t].to /\ found'[t].dow = row'[t].dow
    BY <1>t, <2>1, <2>4 DEF NoGaps, SchedulesTyped, Renewing
  <2> QED
    BY <2>1, <2>6, <2>7 DEF NoGaps
<1> QED
  BY <1>2, <1>3, <1>4, <1>5 DEF RenewStep

\* Nights, restarts and the find of the renewal change no valid_to.
LEMMA NightsLeaveNoGap ==
    ASSUME SchedulesTyped, NoGaps, [Next]_vars,
           \/ StartRenewal \/ Tick \/ Restart \/ MissRenewal
           \/ UNCHANGED vars \/ \E s \in Blockable : Block(s)
    PROVE  NoGaps'
<1>0. \A t \in Schedule, d \in 0 .. LastDate : Attempted(t, d) => Attempted(t, d)'
  BY AttemptedStays
<1>t. current \subseteq due /\ due \subseteq Schedule /\ (ranOn < today => due = {})
      /\ LastDay \in Nat /\ today \in 0 .. LastDay /\ ranOn \in -1 .. LastDay /\ ranOn <= today
  BY RenewalAssumption DEF SchedulesTyped, Renewing, Clock
<1>1. CASE StartRenewal
  <2>1. /\ ranOn < today /\ ranOn' = today /\ found' = row /\ current' = current /\ current = {}
        /\ due' = DueSchedules
        /\ UNCHANGED <<today, row, handling, occurrence, skipped>>
    BY <1>1, <1>t DEF StartRenewal, bookings
  <2>2. ASSUME NEW g \in Handler, NEW t \in Schedule, Holds(g, t)'
        PROVE  /\ handling'[g].row.dow = row'[t].dow
               /\ Tried(t, row[t].to, handling[g].row.to)'
               /\ Tried(t, handling[g].row.to, row[t].to)'
               /\ Unrenewed(t)' => handling'[g].row.to = row'[t].to
    BY <1>0, <2>1, <2>2 DEF NoGaps, Tried, Unrenewed, Holds
  <2> QED
    BY <2>1, <2>2 DEF NoGaps
<1>2. CASE Tick \/ Restart
  <2>1. /\ \A g \in Handler : handling'[g] = Idle
        /\ due' = {} /\ current' = {}
    BY <1>2, <1>t DEF Tick, Restart, renewal
  <2> QED
    BY <2>1 DEF NoGaps, Holds, Idle
<1>3. CASE MissRenewal
  <2>1. /\ ranOn < today /\ ranOn' = today /\ due = {} /\ current = {}
        /\ UNCHANGED <<today, row, handling, due, found, current, todo, occurrence, skipped>>
    BY <1>3, <1>t DEF MissRenewal, bookings, renewal
  <2>2. ASSUME NEW g \in Handler, NEW t \in Schedule, Holds(g, t)'
        PROVE  /\ handling'[g].row.dow = row'[t].dow
               /\ Tried(t, row[t].to, handling[g].row.to)'
               /\ Tried(t, handling[g].row.to, row[t].to)'
               /\ Unrenewed(t)' => handling'[g].row.to = row'[t].to
    BY <1>0, <2>1, <2>2 DEF NoGaps, Tried, Unrenewed, Holds
  <2> QED
    BY <2>1, <2>2 DEF NoGaps
<1>4. CASE UNCHANGED vars \/ \E s \in Blockable : Block(s)
  <2>1. UNCHANGED <<today, ranOn, row, handling, due, found, current, todo, occurrence, skipped>>
    BY <1>4 DEF vars, clock, bookings, renewal, Block
  <2> QED
    BY <2>1 DEF NoGaps, Holds, Tried, Unrenewed, Attempted
<1> QED
  BY <1>1, <1>2, <1>3, <1>4

\* Without requests that move valid_to themselves, a step leaves no gap.
LEMMA NoGapsStep ==
    ASSUME "update" \notin Operation, SchedulesTyped, NoGaps, [Next]_vars
    PROVE  NoGaps'
<1>1. ASSUME NEW h \in Handler, OwnerStep(h) PROVE NoGaps'
  <2>1. ~ SaveUpdate(h)
    BY HeldRow DEF SaveUpdate
  <2>2. ASSUME SweepOccurrences(h) PROVE NoGaps'
    <3>1. handling[h].schedule \in Schedule
      BY <2>2 DEF SweepOccurrences, SchedulesTyped, Tables, Progress, Idle, Loaded, Sweeping
    <3> QED
      BY <2>2, <3>1, LoadLeavesNoGap
  <2> QED
    BY <1>1, <2>1, <2>2, LoadLeavesNoGap, StatusSaveLeavesNoGap DEF OwnerStep
<1>2. ASSUME NEW s \in Schedule, CreateStep(s) PROVE NoGaps'
  <2>1. CASE Handler # {}
    BY <1>2, <2>1, LoadLeavesNoGap DEF CreateStep
  <2>2. CASE Handler = {}
    <3>0. \A t \in Schedule, d \in 0 .. LastDate : Attempted(t, d) => Attempted(t, d)'
      BY AttemptedStays
    <3>1. /\ UNCHANGED <<due, found, current, todo>>
          /\ \A t \in Schedule : row'[t] = row[t] \/ row[t].status = "absent"
      BY <1>2 DEF CreateStep, InsertSchedule, CreateOccurrence, renewal, SchedulesTyped, Tables
    <3>2. current \subseteq due /\ \A t \in due : t \in Schedule /\ row[t].status # "absent"
      BY DEF SchedulesTyped, ValidToFits, Renewing
    <3> QED
      BY <2>2, <3>0, <3>1, <3>2 DEF NoGaps
  <2> QED
    BY <2>1, <2>2
<1> QED
  BY <1>1, <1>2, RenewalTriesFirst, NightsLeaveNoGap DEF Next

\* What a step that moves valid_to on has tried.
LEMMA MovesOverTriedDates ==
    ASSUME "update" \notin Operation, SchedulesTyped, NoGaps, [Next]_vars,
           NEW s \in Schedule, row'[s].to > row[s].to, row[s].status # "absent"
    PROVE  Tried(s, row[s].to, row'[s].to) /\ row[s].to \in Nat /\ row'[s].to <= LastDate
<1>0. row[s].to \in Nat /\ row'[s] # row[s]
  BY DEF SchedulesTyped, Tables, Row
<1>1. SchedulesTyped'
  BY CreateTypes, OwnerTypes, RenewTypes, StartTypes, SurroundingTypes DEF Next
<1>2. CASE \E h \in Handler : SaveCancelled(h) \/ SavePausedOrResumed(h)
  <2>1. PICK h \in Handler : SaveCancelled(h) \/ SavePausedOrResumed(h)
    BY <1>2
  <2>2. PICK status \in {"cancelled", "paused", "active"} :
          /\ row' = [row EXCEPT ![handling[h].schedule] = [handling[h].row EXCEPT !.status = status]]
          /\ handling[h].pc = "loaded" /\ ranOn' = ranOn
    BY <2>1 DEF SaveCancelled, SavePausedOrResumed, SaveStatus, clock
  <2>3. handling[h].schedule = s /\ handling[h].row \in Row
    BY <1>0, <2>2, HeldRow DEF SchedulesTyped, Tables
  <2>4. row'[s].to = handling[h].row.to
    BY <2>2, <2>3 DEF SchedulesTyped, Tables, Row
  <2>5. Tried(s, row[s].to, handling[h].row.to)
    BY <2>2, <2>3 DEF NoGaps, Holds
  <2>6. handling[h].row.to <= LastDate
    BY <2>2, <2>3, FitsMeansBooked, RenewalAssumption DEF SchedulesTyped, ValidToFits, Clock, Row
  <2> QED
    BY <1>0, <2>4, <2>5, <2>6
<1>3. CASE SaveRenewal(s)
  <2>1. row'[s] = [found[s] EXCEPT !.to = found[s].to + RenewDays] /\ s \in current /\ todo = {}
    BY <1>3 DEF SaveRenewal, SchedulesTyped, Tables
  <2>2. found[s].to = row[s].to /\ found[s].dow = row[s].dow /\ found[s] \in Row
        /\ Fits(found[s].to, ranOn - 1) /\ ranOn \in Int /\ ranOn <= LastDay
    BY <2>1, RenewalAssumption DEF NoGaps, SchedulesTyped, Tables, Renewing, ValidToFits, Clock
  <2>3. row'[s].to = row[s].to + RenewDays
    BY <2>1, <2>2 DEF Row
  <2>4. row[s].to + RenewDays <= LastDate
    <3>1. row[s].to + RenewDays \in Int
      BY <1>0, RenewalAssumption
    <3> QED
      BY <1>0, <2>2, <3>1, FitsRenewed, FitsMeansBooked
  <2>5. Tried(s, row[s].to, row[s].to + RenewDays)
    BY <2>1, <2>2 DEF NoGaps, Tried
  <2> QED
    BY <1>0, <2>3, <2>4, <2>5
<1>4. \/ \E h \in Handler : SaveCancelled(h) \/ SavePausedOrResumed(h)
      \/ SaveRenewal(s)
  <2>1. ASSUME NEW t \in Schedule, CreateStep(t) PROVE FALSE
    BY <1>0, <2>1 DEF CreateStep, InsertSchedule, CreateOccurrence, SchedulesTyped, Tables
  <2>2. ASSUME NEW h \in Handler, OwnerStep(h) PROVE SaveCancelled(h) \/ SavePausedOrResumed(h)
    BY <1>0, <2>2, HeldRow DEF OwnerStep, LoadSchedule, SaveUpdate, SweepOccurrences
  <2>3. ASSUME NEW t \in Schedule, RenewStep(t) PROVE SaveRenewal(s)
    <3>1. SaveRenewal(t)
      BY <1>0, <2>3 DEF RenewStep, NextSchedule, RenewOccurrence, AbortRenewal
    <3>2. t = s
      BY <1>0, <3>1 DEF SaveRenewal, SchedulesTyped, Tables
    <3> QED
      BY <3>1, <3>2
  <2>4. ~ (StartRenewal \/ Tick \/ Restart \/ MissRenewal \/ UNCHANGED vars \/ \E t \in Blockable : Block(t))
    BY <1>0 DEF StartRenewal, Tick, Restart, MissRenewal, Block, vars
  <2> QED
    BY <2>1, <2>2, <2>3, <2>4 DEF Next
<1> QED
  BY <1>2, <1>3, <1>4

\* valid_to moves over a date only when its booking was tried, whatever
\* renewals are cut short and whatever stale rows owners' requests save.
THEOREM RenewalsLeaveNoGap ==
    ASSUME "update" \notin Operation
    PROVE  Spec => RenewalLeavesNoGap
<1>1. Init => NoGaps
  BY DEF Init, NoGaps, Holds, Idle
<1>2. SchedulesTyped /\ NoGaps /\ [Next]_vars => NoGaps'
  BY NoGapsStep
<1>3. SchedulesTyped /\ NoGaps /\ [Next]_vars =>
        [\A s \in Schedule :
            row'[s].to > row[s].to /\ row[s].status # "absent" =>
                \A d \in OccurrenceDates(row[s].to + 1, row'[s].to, row[s].dow) :
                    Attempted(s, d)]_vars
  <2> SUFFICES ASSUME SchedulesTyped, NoGaps, [Next]_vars, NEW s \in Schedule,
                      row'[s].to > row[s].to, row[s].status # "absent",
                      NEW d \in OccurrenceDates(row[s].to + 1, row'[s].to, row[s].dow)
               PROVE  Attempted(s, d)
    OBVIOUS
  <2>1. Tried(s, row[s].to, row'[s].to) /\ row[s].to \in Nat /\ row'[s].to <= LastDate
    BY MovesOverTriedDates
  <2>2. row'[s].to \in Nat
    BY CreateTypes, OwnerTypes, RenewTypes, StartTypes, SurroundingTypes
    DEF Next, SchedulesTyped, Tables, Row
  <2>3. d \in 0 .. LastDate /\ row[s].to < d /\ d <= row'[s].to /\ d % Week = row[s].dow
    BY <2>1, <2>2, LastDateAssumption DEF OccurrenceDates
  <2> QED
    BY <2>1, <2>3 DEF Tried
<1> QED
  BY <1>1, <1>2, <1>3, SchedulesAreTyped, PTL DEF Spec, RenewalLeavesNoGap

-----------------------------------------------------------------------------
\* What a renewal can rely on: no court or venue stops taking bookings, owners
\* stop schedules but neither resume nor change them, the server is not down
\* more often than the horizon makes up for, and a new schedule that renews
\* itself reaches past the outages.
Undisturbed ==
    /\ Blockable = {}
    /\ Operation \subseteq {"cancel", "pause"}
    /\ MaxOutages <= Horizon + 1
    /\ \A n \in NewSchedule : n.renew => n.to >= MaxOutages

\* A schedule that renews itself reaches as far as the outages that are left
\* can delay its renewal, but for the night whose renewal is under way.
Left == MaxOutages - outages

ReachesFar ==
    /\ \A s \in Schedule : row[s].status = "active" /\ row[s].renew =>
        /\ row[s].to >= ranOn + Left - 1
        /\ s \notin due => row[s].to >= ranOn + Left
    /\ \A s \in due : found[s].to >= ranOn + Left - 1
    /\ \A s \in current, d \in todo : d > found[s].to

\* The requests of owners and new schedules leave every renewing one in reach.
LEMMA RequestsKeepReach ==
    ASSUME Undisturbed, SchedulesTyped, ReachesFar,
           \/ \E s \in Schedule : CreateStep(s)
           \/ \E h \in Handler : OwnerStep(h)
    PROVE  ReachesFar'
<1>0. /\ MaxOutages \in Nat /\ outages \in Nat /\ outages <= MaxOutages /\ LastDay \in Nat
      /\ today \in Nat /\ ranOn \in Int /\ ranOn <= today
  BY RenewalAssumption DEF SchedulesTyped, Clock
<1>1. ASSUME NEW s \in Schedule, NEW n \in NewSchedule, InsertSchedule(s, n) PROVE ReachesFar'
  <2> DEFINE new == [status |-> "active", from |-> today + n.from, to |-> today + n.to,
                     dow |-> n.dow, renew |-> n.renew]
  <2>1. /\ row' = [row EXCEPT ![s] = new] /\ UNCHANGED <<outages, ranOn, due, found, current, todo>>
    BY <1>1 DEF InsertSchedule, clock, renewal
  <2>2. n.to \in Int /\ new.to = today + n.to /\ new.renew = n.renew
    BY ScheduleAssumption
  <2>3. new.renew => new.to >= ranOn + Left /\ new.to >= ranOn + Left - 1
    BY <1>0, <2>2 DEF Undisturbed, Left
  <2> HIDE DEF new
  <2>4. \A t \in Schedule : row'[t] = row[t] \/ row'[t] = new
    BY <2>1 DEF SchedulesTyped, Tables
  <2> QED
    BY <2>1, <2>3, <2>4 DEF ReachesFar, Left
<1>2. ASSUME NEW s \in Schedule, CreateOccurrence(s) PROVE ReachesFar'
  BY <1>2 DEF CreateOccurrence, clock, renewal, ReachesFar, Left
<1>3. ASSUME NEW h \in Handler, OwnerStep(h) PROVE ReachesFar'
  <2>1. UNCHANGED <<outages, ranOn, due, found, current, todo>>
    BY <1>3 DEF OwnerStep, LoadSchedule, SaveCancelled, SavePausedOrResumed, SaveUpdate, SweepOccurrences,
       clock, renewal
  <2>2. \A t \in Schedule : row'[t] = row[t] \/ row'[t].status # "active"
    <3>1. CASE UNCHANGED row
      BY <3>1
    <3>2. CASE handling[h].pc = "loaded" /\ (SaveCancelled(h) \/ SavePausedOrResumed(h) \/ SaveUpdate(h))
      <4>1. handling[h].op \in {"cancel", "pause"} /\ handling[h].row \in Row
        BY <3>2, HeldRow DEF Undisturbed
      <4>2. PICK status \in {"cancelled", "paused"} :
              row' = [row EXCEPT ![handling[h].schedule] = [handling[h].row EXCEPT !.status = status]]
        BY <3>2, <4>1 DEF SaveCancelled, SavePausedOrResumed, SaveStatus, SaveUpdate
      <4>3. [handling[h].row EXCEPT !.status = status].status # "active"
        BY <4>1 DEF Row
      <4> QED
        BY <4>2, <4>3 DEF SchedulesTyped, Tables
    <3> QED
      BY <1>3, <3>1, <3>2 DEF OwnerStep, LoadSchedule, SweepOccurrences, SaveCancelled,
         SavePausedOrResumed, SaveStatus, SaveUpdate
  <2> QED
    BY <2>1, <2>2 DEF ReachesFar, Left
<1> QED
  BY <1>1, <1>2, <1>3 DEF CreateStep

\* A renewal that has begun is never aborted, and makes up for its night.
LEMMA RenewalKeepsReach ==
    ASSUME Undisturbed, SchedulesTyped, ReachesFar, NEW s \in Schedule, RenewStep(s)
    PROVE  ReachesFar'
<1>0. /\ MaxOutages \in Nat /\ outages \in Nat /\ outages <= MaxOutages /\ RenewDays \in Nat \ {0}
      /\ today \in Nat /\ ranOn \in Int /\ ranOn <= today /\ blocked = {}
      /\ current \subseteq due /\ due \subseteq Schedule /\ (ranOn < today => due = {})
      /\ LastDate \in Nat /\ todo \subseteq 0 .. LastDate
  BY RenewalAssumption, LastDateAssumption DEF SchedulesTyped, Clock, Renewing, Undisturbed
<1>1. CASE NextSchedule(s)
  <2>1. /\ current' = {s} /\ UNCHANGED <<outages, ranOn, row, due, found>>
        /\ todo' = OccurrenceDates(found[s].to + 1, found[s].to + RenewDays, found[s].dow)
    BY <1>1 DEF NextSchedule, clock
  <2>2. found[s].to \in Nat
    BY DEF SchedulesTyped, Tables, Row
  <2>3. \A d \in todo' : d > found[s].to
    BY <1>0, <2>1, <2>2 DEF OccurrenceDates
  <2> QED
    BY <2>1, <2>3 DEF ReachesFar, Left
<1>2. CASE RenewOccurrence(s)
  <2>1. todo' \subseteq todo /\ UNCHANGED <<outages, ranOn, row, due, found, current>>
    BY <1>2 DEF RenewOccurrence, clock
  <2> QED
    BY <2>1 DEF ReachesFar, Left
<1>3. CASE AbortRenewal(s)
  <2>1. s \in due /\ todo # {} /\ Refuses(s, Min(todo)) /\ s \in current /\ todo \subseteq Nat
    BY <1>0, <1>3 DEF AbortRenewal
  <2>2. Min(todo) \in todo
    BY <2>1, MinOfDates
  <2>3. Min(todo) < today
    BY <1>0, <2>1 DEF Refuses
  <2>4. Min(todo) > found[s].to /\ found[s].to >= ranOn + Left - 1
    BY <2>1, <2>2 DEF ReachesFar
  <2>5. ranOn = today
    BY <1>0, <2>1
  <2>6. Min(todo) \in Nat
    BY <2>1, <2>2
  <2>7. found[s].to \in Nat
    BY <1>0, <2>1 DEF SchedulesTyped, Tables, Row
  <2> QED
    BY <1>0, <2>3, <2>4, <2>5, <2>6, <2>7 DEF Left
<1>4. CASE SaveRenewal(s)
  <2> DEFINE new == [found[s] EXCEPT !.to = @ + RenewDays]
  <2>1. /\ s \in due /\ row' = [row EXCEPT ![s] = new]
        /\ due' = due \ {s} /\ current' = {} /\ UNCHANGED <<outages, ranOn, found>>
    BY <1>0, <1>4 DEF SaveRenewal, clock
  <2>2. found[s] \in Row /\ found[s].to >= ranOn + Left - 1
    BY <2>1 DEF SchedulesTyped, Tables, ReachesFar
  <2>3. new.to = found[s].to + RenewDays /\ found[s].to \in Nat
    BY <2>2 DEF Row
  <2> HIDE DEF new
  <2>4. new.to >= ranOn + Left /\ new.to >= ranOn + Left - 1
    BY <1>0, <2>2, <2>3 DEF Left
  <2>5. row'[s] = new /\ \A t \in Schedule : t # s => row'[t] = row[t]
    BY <2>1 DEF SchedulesTyped, Tables
  <2> QED
    BY <2>1, <2>4, <2>5 DEF ReachesFar, Left
<1> QED
  BY <1>1, <1>2, <1>3, <1>4 DEF RenewStep

\* A night takes one day from the reach, and an outage one that was left for it.
LEMMA NightsKeepReach ==
    ASSUME Undisturbed, SchedulesTyped, ReachesFar,
           \/ StartRenewal \/ Tick \/ Restart \/ MissRenewal
           \/ UNCHANGED vars \/ \E s \in Blockable : Block(s)
    PROVE  ReachesFar'
<1>0. /\ MaxOutages \in Nat /\ outages \in Nat /\ outages <= MaxOutages /\ Horizon \in Nat
      /\ today \in Nat /\ ranOn \in Int /\ ranOn <= today /\ today <= ranOn + 1
      /\ current \subseteq due /\ (ranOn < today => due = {})
      /\ LastDay \in Nat
      /\ \A s \in Schedule : row[s].to \in Nat
  BY RenewalAssumption DEF SchedulesTyped, Clock, Renewing, Tables, Row
<1>1. CASE StartRenewal
  <2>1. /\ ranOn < today /\ ranOn' = today /\ due' = DueSchedules /\ found' = row
        /\ due = {} /\ current' = {} /\ UNCHANGED <<outages, row, today>>
    BY <1>0, <1>1 DEF StartRenewal
  <2>2. ranOn = today - 1
    BY <1>0, <2>1
  <2>3. ASSUME NEW s \in Schedule, row[s].status = "active", row[s].renew
        PROVE  /\ row[s].to >= today + Left - 1
               /\ s \notin DueSchedules => row[s].to >= today + Left
    <3>1. row[s].to >= ranOn + Left
      BY <2>1, <2>3 DEF ReachesFar
    <3>2. s \notin DueSchedules => row[s].to > today + Horizon
      BY <1>0, <2>3 DEF DueSchedules
    <3> QED
      BY <1>0, <2>2, <3>1, <3>2 DEF Left, Undisturbed
  <2>4. \A s \in DueSchedules : s \in Schedule /\ row[s].status = "active" /\ row[s].renew
    BY DEF DueSchedules
  <2> QED
    BY <2>1, <2>3, <2>4 DEF ReachesFar, Left
<1>2. CASE Tick
  BY <1>2 DEF Tick, ReachesFar, Left, renewal
<1>3. CASE Restart
  <2>1. outages' = outages + 1 /\ due' = {} /\ current' = {} /\ UNCHANGED <<ranOn, row>>
    BY <1>3 DEF Restart
  <2>2. ASSUME NEW s \in Schedule, row[s].status = "active", row[s].renew
        PROVE  row[s].to >= ranOn + Left - 1
    BY <2>2 DEF ReachesFar
  <2> QED
    BY <1>0, <2>1, <2>2 DEF ReachesFar, Left
<1>4. CASE MissRenewal
  <2>1. /\ ranOn' = today /\ outages' = outages + 1 /\ ranOn < today /\ due = {} /\ due' = {} /\ current' = {}
        /\ row' = row
    BY <1>0, <1>4 DEF MissRenewal, renewal
  <2>2. ASSUME NEW s \in Schedule, row[s].status = "active", row[s].renew
        PROVE  row[s].to >= ranOn + Left
    BY <2>1, <2>2 DEF ReachesFar
  <2> QED
    BY <1>0, <2>1, <2>2 DEF ReachesFar, Left
<1>5. CASE UNCHANGED vars \/ \E s \in Blockable : Block(s)
  BY <1>5 DEF vars, clock, renewal, Block, ReachesFar, Left
<1> QED
  BY <1>1, <1>2, <1>3, <1>4, <1>5

\* The next renewal of a schedule never asks for a date that is past, however
\* many nights the server is down or restarts in the middle of a renewal, up to
\* the days the renewal starts ahead: each costs a schedule one day of them.
THEOREM RenewalStaysPossible ==
    ASSUME Undisturbed
    PROVE  Spec => []NextRenewalIsPossible
<1>1. Init => ReachesFar
  BY DEF Init, ReachesFar, Absent
<1>2. SchedulesTyped /\ ReachesFar /\ [Next]_vars => ReachesFar'
  BY RequestsKeepReach, RenewalKeepsReach, NightsKeepReach DEF Next
<1>3. SchedulesTyped /\ ReachesFar => NextRenewalIsPossible
  <2> SUFFICES ASSUME SchedulesTyped, ReachesFar, NEW s \in Schedule,
                      row[s].status = "active", row[s].renew,
                      NEW d \in OccurrenceDates(row[s].to + 1, row[s].to + RenewDays, row[s].dow)
               PROVE  d >= today
    BY DEF NextRenewalIsPossible
  <2>1. /\ MaxOutages \in Nat /\ outages \in Nat /\ outages <= MaxOutages
        /\ today \in Nat /\ ranOn \in Int /\ ranOn <= today /\ today <= ranOn + 1
        /\ (ranOn < today => due = {}) /\ row[s].to \in Nat /\ RenewDays \in Nat
    BY RenewalAssumption DEF SchedulesTyped, Clock, Renewing, Tables, Row
  <2>2. d \in Int /\ d >= row[s].to + 1
    BY <2>1 DEF OccurrenceDates
  <2>3. row[s].to >= today - 1
    <3>1. CASE s \in due
      BY <2>1, <3>1 DEF ReachesFar, Left
    <3>2. CASE s \notin due
      BY <2>1, <3>2 DEF ReachesFar, Left
    <3> QED
      BY <3>1, <3>2
  <2> QED
    BY <2>1, <2>2, <2>3
<1> QED
  BY <1>1, <1>2, <1>3, SchedulesAreTyped, PTL DEF Spec
=============================================================================
