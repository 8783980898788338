------------------------ MODULE MCRecurringSchedules ------------------------
(* Small instances of RecurringSchedules: short renewals, few days. *)
EXTENDS RecurringSchedules, TLC

\* Daily schedules that renew themselves, one that ends within the horizon at
\* once and one that leaves the renewal Horizon + 2 nights.
TwoDays == { [from |-> 0, to |-> 1, dow |-> 0, renew |-> TRUE] }
ThreeDays == { [from |-> 0, to |-> 2, dow |-> 0, renew |-> TRUE] }

\* One that ends within the horizon, and one that began before it is created.
NowAndEarlier == { [from |-> 0, to |-> 1, dow |-> 0, renew |-> TRUE],
                   [from |-> -1, to |-> 1, dow |-> 0, renew |-> FALSE] }

ScheduleSymmetry == Permutations(Schedule)
=============================================================================
