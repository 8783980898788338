------------------------- MODULE RecurringSchedules -------------------------
(***************************************************************************)
(* RecurringSchedulesService (apps/api/src/recurring-schedules): weekly    *)
(* schedules, the bookings generated from them, the owner's requests and   *)
(* the nightly renewal.                                                    *)
(*                                                                         *)
(* Dates are day numbers.  A call of createBookingRecord, which module     *)
(* Bookings describes step by step, is one step here with three outcomes:  *)
(* booked, a ConflictException because someone has a slot of that window,  *)
(* or another exception.  occurrence[s][d] is the status of the latest     *)
(* booking of schedule s on date d.                                        *)
(*                                                                         *)
(* save(schedule) writes back every column as it was read, with the        *)
(* handler's own change: rows are saved whole.                             *)
(***************************************************************************)
EXTENDS Integers, FiniteSetsExt

CONSTANTS
    Schedule,
    Handler,        \* owner requests that may be in progress together
    Operation,      \* what they do: a subset of OwnerOperation
    Blockable,      \* schedules whose court or venue may stop taking bookings
    NewSchedule,    \* [from, to, dow, renew] of create requests, counted from today
    NewValidTo,     \* the dates update requests put into valid_to
    Week,           \* days in a week
    RenewDays,      \* days one renewal adds
    Horizon,        \* a schedule is due when valid_to <= today + Horizon
    MaxSpan,        \* MAX_SPAN_DAYS
    LastDay,        \* the clock runs from 0 to LastDay
    LastDate,       \* the last date that can be booked
    MaxOutages      \* restarts, or nights on which the server is down

OwnerOperation == {"cancel", "pause", "resume", "update"}

ASSUME ScheduleAssumption ==
    /\ Operation \subseteq OwnerOperation
    /\ Blockable \subseteq Schedule
    /\ NewSchedule \subseteq [from: Int, to: Int, dow: Nat, renew: BOOLEAN]
    /\ NewValidTo \subseteq Nat

ASSUME RenewalAssumption ==
    /\ Week \in Nat \ {0}
    /\ RenewDays \in Nat \ {0}
    /\ Horizon \in Nat
    /\ MaxSpan \in Nat
    /\ LastDay \in Nat
    /\ MaxOutages \in Nat

\* One renewal a night: nothing books beyond LastDate.
ASSUME LastDateAssumption ==
    /\ LastDate \in Nat
    /\ \A to \in { LastDay + n.to : n \in NewSchedule } \cup NewValidTo :
        to + (LastDay + 1) * RenewDays <= LastDate

VARIABLES
    today,
    ranOn,          \* the last day whose renewal at 01:00 is over or under way
    outages,
    blocked,        \* schedules whose court or venue takes no bookings now
    row,            \* recurring_schedules
    occurrence,     \* bookings with recurring_schedule_id
    skipped,        \* dates reported in conflictingDates so far
    creating,       \* dates that create has still to book
    handling,       \* progress of the owner's requests
    due,            \* schedules the renewal has found and not yet renewed
    found,          \* their rows as the renewal read them
    current,        \* the one it is renewing, as a set
    todo            \* dates it has still to book for that one

clock == <<today, ranOn, outages, blocked>>
bookings == <<occurrence, skipped>>
renewal == <<due, found, current, todo>>
vars == <<clock, row, bookings, creating, handling, renewal>>

-----------------------------------------------------------------------------
Absent == [status |-> "absent", from |-> 0, to |-> 0, dow |-> 0, renew |-> FALSE]
Row == [status: {"absent", "active", "paused", "cancelled"},
        from: Nat, to: Nat, dow: Nat, renew: BOOLEAN]

Idle == [pc |-> "idle"]
Loaded == [pc: {"loaded"}, op: OwnerOperation, schedule: Schedule, row: Row]
Sweeping == [pc: {"sweep"}, schedule: Schedule]

\* generateOccurrenceDates
OccurrenceDates(from, to, dow) == { d \in from .. to : d % Week = dow }

\* Every variable holds a value of its column's or its handler's type.
TypeOK ==
    /\ today \in 0 .. LastDay
    /\ ranOn \in -1 .. LastDay
    /\ outages \in 0 .. MaxOutages
    /\ blocked \subseteq Blockable
    /\ row \in [Schedule -> Row]
    /\ \A s \in Schedule :
        /\ DOMAIN occurrence[s] = 0 .. LastDate
        /\ \A d \in 0 .. LastDate :
            occurrence[s][d] \in {"none", "confirmed", "cancelled"}
        /\ skipped[s] \subseteq 0 .. LastDate
        /\ creating[s] \subseteq 0 .. LastDate
    /\ \A h \in Handler :
        handling[h] = Idle \/ handling[h] \in Loaded \/ handling[h] \in Sweeping
    /\ due \subseteq Schedule
    /\ found \in [Schedule -> Row]
    /\ current \subseteq due /\ Cardinality(current) <= 1
    /\ todo \subseteq 0 .. LastDate

Init ==
    /\ today = 0
    /\ ranOn = -1
    /\ outages = 0
    /\ blocked = {}
    /\ row = [s \in Schedule |-> Absent]
    /\ occurrence = [s \in Schedule |-> [d \in 0 .. LastDate |-> "none"]]
    /\ skipped = [s \in Schedule |-> {}]
    /\ creating = [s \in Schedule |-> {}]
    /\ handling = [h \in Handler |-> Idle]
    /\ due = {}
    /\ found = [s \in Schedule |-> Absent]
    /\ current = {}
    /\ todo = {}

-----------------------------------------------------------------------------
(* createBookingRecord, as its callers here see it *)

\* Mutant: the start time is not checked.
RefusesBlockedOnly(s, d) == s \in blocked

\* It throws something other than a ConflictException.
Refuses(s, d) == d < today \/ s \in blocked

Booked(s, d) ==
    /\ ~Refuses(s, d)
    /\ occurrence[s][d] # "confirmed"
    /\ occurrence' = [occurrence EXCEPT ![s][d] = "confirmed"]
    /\ UNCHANGED skipped

\* The slot is this schedule's own already, or at this moment someone else's.
Conflicts(s, d) ==
    /\ ~Refuses(s, d)
    /\ skipped' = [skipped EXCEPT ![s] = @ \cup {d}]
    /\ UNCHANGED occurrence

-----------------------------------------------------------------------------
(* create *)

\* The checks and the insert of the row.
InsertSchedule(s, n) ==
    /\ row[s].status = "absent"
    /\ n.from <= n.to
    /\ n.to - n.from <= MaxSpan
    /\ today + n.from >= 0     \* day 0 is the first there is
    /\ LET from == today + n.from
           to == today + n.to IN
        /\ row' = [row EXCEPT ![s] = [status |-> "active", from |-> from, to |-> to,
                                      dow |-> n.dow, renew |-> n.renew]]
        /\ creating' = [creating EXCEPT ![s] = OccurrenceDates(from, to, n.dow)]
    /\ UNCHANGED <<clock, bookings, handling, renewal>>

\* One round of its loop; an exception ends the request, the row stays.
CreateOccurrence(s) ==
    /\ creating[s] # {}
    /\ LET d == Min(creating[s]) IN
        \/ /\ Booked(s, d) \/ Conflicts(s, d)
           /\ creating' = [creating EXCEPT ![s] = @ \ {d}]
        \/ /\ Refuses(s, d)
           /\ creating' = [creating EXCEPT ![s] = {}]
           /\ UNCHANGED bookings
    /\ UNCHANGED <<clock, row, handling, renewal>>

-----------------------------------------------------------------------------
(* cancel, pause, resume, update *)

Allowed(op, status) ==
    CASE op = "cancel" -> status \in {"active", "paused"}
      [] op = "pause"  -> status = "active"
      [] op = "resume" -> status = "paused"
      [] op = "update" -> status \in {"active", "paused"}

\* The read of the schedule and the check of its status.
LoadSchedule(h, s, op) ==
    /\ handling[h] = Idle
    /\ Allowed(op, row[s].status)
    /\ handling' = [handling EXCEPT ![h] =
            [pc |-> "loaded", op |-> op, schedule |-> s, row |-> row[s]]]
    /\ UNCHANGED <<clock, row, bookings, creating, renewal>>

SaveStatus(h, op, status) ==
    /\ handling[h].pc = "loaded"
    /\ handling[h].op = op
    /\ row' = [row EXCEPT ![handling[h].schedule] =
                [handling[h].row EXCEPT !.status = status]]

\* cancel saves the row, then calls cancelFutureOccurrences.
SaveCancelled(h) ==
    /\ SaveStatus(h, "cancel", "cancelled")
    /\ handling' = [handling EXCEPT ![h] =
                        [pc |-> "sweep", schedule |-> @.schedule]]
    /\ UNCHANGED <<clock, bookings, creating, renewal>>

SavePausedOrResumed(h) ==
    /\ SaveStatus(h, "pause", "paused") \/ SaveStatus(h, "resume", "active")
    /\ handling' = [handling EXCEPT ![h] = Idle]
    /\ UNCHANGED <<clock, bookings, creating, renewal>>

\* update touches no booking, whatever becomes of valid_to.
SaveUpdate(h) ==
    /\ handling[h].pc = "loaded"
    /\ handling[h].op = "update"
    /\ LET old == handling[h].row IN
        \E to \in {old.to} \cup { t \in NewValidTo : t >= old.from }, renew \in BOOLEAN :
            row' = [row EXCEPT ![handling[h].schedule] =
                        [old EXCEPT !.to = to, !.renew = renew]]
    /\ handling' = [handling EXCEPT ![h] = Idle]
    /\ UNCHANGED <<clock, bookings, creating, renewal>>

\* cancelFutureOccurrences; passed dates stay as they are.
SweepOccurrences(h) ==
    /\ handling[h].pc = "sweep"
    /\ LET s == handling[h].schedule IN
        occurrence' = [occurrence EXCEPT ![s] =
            [d \in 0 .. LastDate |->
                IF @[d] = "confirmed" /\ d >= today THEN "cancelled" ELSE @[d]]]
    /\ handling' = [handling EXCEPT ![h] = Idle]
    /\ UNCHANGED <<clock, row, skipped, creating, renewal>>

-----------------------------------------------------------------------------
(* renewExpiringSchedules, renewSchedule *)

\* Mutant: found only when it has ended.
DueWhenEnded ==
    { s \in Schedule : row[s].status = "active" /\ row[s].renew /\ row[s].to < today }

DueSchedules ==
    { s \in Schedule : /\ row[s].status = "active"
                       /\ row[s].renew
                       /\ row[s].to <= today + Horizon }

\* 01:00: the find.
StartRenewal ==
    /\ ranOn < today
    /\ due = {}
    /\ ranOn' = today
    /\ due' = DueSchedules
    /\ found' = row
    /\ UNCHANGED <<today, outages, blocked, row, bookings, creating, handling,
                   current, todo>>

\* Mutant: one date too many, as if the end were counted from the first new date.
NextScheduleOneMore(s) ==
    /\ s \in due
    /\ current = {}
    /\ current' = {s}
    /\ todo' = OccurrenceDates(found[s].to + 1, found[s].to + 1 + RenewDays, found[s].dow)
    /\ UNCHANGED <<clock, row, bookings, creating, handling, due, found>>

\* The loop turns to the next schedule; the find has no order.
NextSchedule(s) ==
    /\ s \in due
    /\ current = {}
    /\ current' = {s}
    /\ todo' = OccurrenceDates(found[s].to + 1, found[s].to + RenewDays, found[s].dow)
    /\ UNCHANGED <<clock, row, bookings, creating, handling, due, found>>

\* A date is booked or skipped.
RenewOccurrence(s) ==
    /\ s \in current
    /\ todo # {}
    /\ LET d == Min(todo) IN
        /\ Booked(s, d) \/ Conflicts(s, d)
        /\ todo' = todo \ {d}
    /\ UNCHANGED <<clock, row, creating, handling, due, found, current>>

\* Any other exception leaves the loop over all the schedules.
AbortRenewal(s) ==
    /\ s \in current
    /\ todo # {}
    /\ Refuses(s, Min(todo))
    /\ due' = {}
    /\ current' = {}
    /\ todo' = {}
    /\ UNCHANGED <<clock, row, bookings, creating, handling, found>>

\* Mutant: valid_to moves although dates are left.
SaveRenewalEarly(s) ==
    /\ s \in current
    /\ row' = [row EXCEPT ![s] = [found[s] EXCEPT !.to = @ + RenewDays]]
    /\ due' = due \ {s}
    /\ current' = {}
    /\ todo' = {}
    /\ UNCHANGED <<clock, bookings, creating, handling, found>>

\* Mutant: the new valid_to is not saved.
SaveRenewalNothing(s) ==
    /\ s \in current
    /\ todo = {}
    /\ due' = due \ {s}
    /\ current' = {}
    /\ UNCHANGED <<clock, row, bookings, creating, handling, found, todo>>

\* Mutant: the loop does not let go of the schedule.
SaveRenewalHolding(s) ==
    /\ s \in current
    /\ todo = {}
    /\ row' = [row EXCEPT ![s] = [found[s] EXCEPT !.to = @ + RenewDays]]
    /\ due' = due \ {s}
    /\ UNCHANGED <<clock, bookings, creating, handling, found, current, todo>>

\* The save of the row read at StartRenewal with its new valid_to.
SaveRenewal(s) ==
    /\ s \in current
    /\ todo = {}
    /\ row' = [row EXCEPT ![s] = [found[s] EXCEPT !.to = @ + RenewDays]]
    /\ due' = due \ {s}
    /\ current' = {}
    /\ UNCHANGED <<clock, bookings, creating, handling, found, todo>>

-----------------------------------------------------------------------------
(* The surroundings *)

\* The court goes into maintenance, or the venue loses its approval; or back.
Block(s) ==
    /\ blocked' \in {blocked \cup {s}, blocked \ {s}}
    /\ UNCHANGED <<today, ranOn, outages, row, bookings, creating, handling, renewal>>

\* Midnight.  Requests and renewals last minutes: those that overlap the renewal
\* of 01:00 are over by the next midnight, and none is modelled across it.
Tick ==
    /\ today < LastDay
    /\ ranOn = today
    /\ due = {}
    /\ \A h \in Handler : handling[h] = Idle
    /\ \A s \in Schedule : creating[s] = {}
    /\ today' = today + 1
    /\ UNCHANGED <<ranOn, outages, blocked, row, bookings, creating, handling, renewal>>

\* The server restarts: rows stay, whatever was in progress is gone.
Restart ==
    /\ outages < MaxOutages
    /\ outages' = outages + 1
    /\ creating' = [s \in Schedule |-> {}]
    /\ handling' = [h \in Handler |-> Idle]
    /\ due' = {}
    /\ current' = {}
    /\ todo' = {}
    /\ UNCHANGED <<today, ranOn, blocked, row, bookings, found>>

\* The server is down at 01:00: nothing makes up for that night's renewal.
MissRenewal ==
    /\ outages < MaxOutages
    /\ outages' = outages + 1
    /\ ranOn < today
    /\ ranOn' = today
    /\ UNCHANGED <<today, blocked, row, bookings, creating, handling, renewal>>

-----------------------------------------------------------------------------
OwnerStep(h) ==
    \/ \E s \in Schedule, op \in Operation : LoadSchedule(h, s, op)
    \/ SaveCancelled(h)
    \/ SavePausedOrResumed(h)
    \/ SaveUpdate(h)
    \/ SweepOccurrences(h)

CreateStep(s) == (\E n \in NewSchedule : InsertSchedule(s, n)) \/ CreateOccurrence(s)

RenewStep(s) ==
    \/ NextSchedule(s)
    \/ RenewOccurrence(s)
    \/ AbortRenewal(s)
    \/ SaveRenewal(s)

Next ==
    \/ \E s \in Schedule : CreateStep(s)
    \/ \E h \in Handler : OwnerStep(h)
    \/ StartRenewal
    \/ \E s \in Schedule : RenewStep(s)
    \/ \E s \in Blockable : Block(s)
    \/ Tick
    \/ Restart
    \/ MissRenewal

Spec == Init /\ [][Next]_vars

\* Time passes, the job starts at 01:00 unless the server is down, and whatever
\* the server has begun it goes on with; nobody has to send a request.
Fairness ==
    /\ WF_vars(Tick)
    /\ WF_vars(StartRenewal)
    /\ \A s \in Schedule :
        /\ WF_vars(RenewStep(s))
        /\ WF_vars(CreateOccurrence(s))
    /\ \A h \in Handler :
        WF_vars(SaveCancelled(h) \/ SavePausedOrResumed(h) \/ SaveUpdate(h)
                \/ SweepOccurrences(h))

FairSpec == Spec /\ Fairness

-----------------------------------------------------------------------------
(* Properties *)

Attempted(s, d) == occurrence[s][d] # "none" \/ d \in skipped[s]

\* The next renewal of an active schedule that renews itself would not ask for
\* a date that is past: it can still succeed, however many restarts and nights
\* without the server there were, up to Horizon + 1.
NextRenewalIsPossible ==
    \A s \in Schedule \ Blockable :
        row[s].status = "active" /\ row[s].renew =>
            \A d \in OccurrenceDates(row[s].to + 1, row[s].to + RenewDays, row[s].dow) :
                d >= today

\* Bookings of a schedule lie between valid_from and the end of the renewal
\* that comes next, also after renewals that were cut short and repeated.
OccurrencesWithinReach ==
    \A s \in Schedule, d \in 0 .. LastDate :
        occurrence[s][d] # "none" =>
            /\ d >= row[s].from
            /\ d <= row[s].to + RenewDays
            /\ d % Week = row[s].dow

\* valid_to moves over a date only when its booking was tried: a renewal cut
\* short does not leave a gap behind.
RenewalLeavesNoGap ==
    [][\A s \in Schedule :
        row'[s].to > row[s].to /\ row[s].status # "absent" =>
            \A d \in OccurrenceDates(row[s].to + 1, row'[s].to, row[s].dow) :
                Attempted(s, d)]_vars

\* A schedule that renews itself does not lapse: in the end it is valid to the
\* last day there is, or its owner has stopped it, whatever renewals were cut
\* short by restarts or fell on nights without the server.
RenewingNeverLapses ==
    \A s \in Schedule \ Blockable :
        row[s].status = "active" /\ row[s].renew
            ~> row[s].status # "active" \/ row[s].to >= LastDay

\* Passed occurrences are history: no cancellation, late creation or renewal
\* changes a date that is over.
PastIsHistory ==
    [][\A s \in Schedule, d \in 0 .. LastDate :
        d < today => occurrence'[s][d] = occurrence[s][d]]_vars

\* What the design promises of cancellation: once cancel is over, a cancelled
\* schedule has no confirmed booking ahead.
CancelledHasNoFuture ==
    \A s \in Schedule :
        /\ row[s].status = "cancelled"
        /\ \A h \in Handler : handling[h].pc = "sweep" => handling[h].schedule # s
        => \A d \in today .. LastDate : occurrence[s][d] # "confirmed"

\* What the design promises of renewal: only active schedules are renewed, a
\* cancelled one stays cancelled.
CancelledStaysCancelled ==
    [][\A s \in Schedule :
        row[s].status = "cancelled" => row'[s].status = "cancelled"]_vars
=============================================================================
