------------------------------- MODULE Courts -------------------------------
(***************************************************************************)
(* The court rows and the owner's handlers that change them                *)
(* (CourtsService.create, update, remove).                                 *)
(*                                                                         *)
(* A handler gives up the thread at every await, so a request is modelled  *)
(* by what it has read and not yet used: at most one update and one remove *)
(* of a court are in progress.  repository.save(entity) writes back every  *)
(* column of the entity that differs from the row of that moment, and      *)
(* inserts the entity when the row is gone.                                *)
(***************************************************************************)
EXTENDS SlotGrid, FiniteSets

CONSTANTS
    Court,      \* ids a court can be given
    Grid        \* the grids owners give to courts

ASSUME GridAssumption == \A g \in Grid : IsGrid(g)

CourtStatus == {"active", "maintenance", "closed"}

\* A row: its status and grid.  "absent": never created; "removed": deleted.
CourtRow == [status: CourtStatus \cup {"absent", "removed"}, grid: Grid]

VARIABLES
    court,      \* [Court -> CourtRow]
    editing,    \* courts an update has read and not yet saved
    removing    \* courts whose remove has counted no bookings, not yet deleted

courtVars == <<court, editing, removing>>

CourtExists(c) == court[c].status \in CourtStatus

CourtsTypeOK ==
    /\ court \in [Court -> CourtRow]
    /\ editing \subseteq Court
    /\ removing \subseteq Court

CourtsInit ==
    /\ court \in [Court -> [status: {"absent", "active"}, grid: Grid]]
    /\ editing = {}
    /\ removing = {}

\* create: a new court is active at once; its id is fresh.
CreateCourt(c, g) ==
    /\ court[c].status = "absent"
    /\ court' = [court EXCEPT ![c] = [status |-> "active", grid |-> g]]
    /\ UNCHANGED <<editing, removing>>

\* update, up to its findOne.
LoadCourtForUpdate(c) ==
    /\ c \notin editing
    /\ CourtExists(c)
    /\ editing' = editing \cup {c}
    /\ UNCHANGED <<court, removing>>

\* update, its save.  A field is the dto's, or the one read earlier if the dto
\* has none: any status and any grid.  A court deleted meanwhile comes back.
SaveCourt(c, status, g) ==
    /\ c \in editing
    /\ court' = [court EXCEPT ![c] = [status |-> status, grid |-> g]]
    /\ editing' = editing \ {c}
    /\ UNCHANGED removing

\* remove, up to its count of the bookings of the court.
CountBookings(c, bookingCount) ==
    /\ c \notin removing
    /\ CourtExists(c)
    /\ bookingCount = 0
    /\ removing' = removing \cup {c}
    /\ UNCHANGED <<court, editing>>

\* remove, its delete (of a row that may be gone already).
DeleteCourt(c) ==
    /\ c \in removing
    /\ court' = [court EXCEPT ![c].status = "removed"]
    /\ removing' = removing \ {c}
    /\ UNCHANGED editing

\* The server restarts: requests in progress are gone, rows stay.
LoseCourtRequests ==
    /\ editing' = {}
    /\ removing' = {}
    /\ UNCHANGED court

OwnerCourtStep(c) ==
    \/ \E g \in Grid : CreateCourt(c, g)
    \/ LoadCourtForUpdate(c)
    \/ \E status \in CourtStatus, g \in Grid : SaveCourt(c, status, g)
    \/ DeleteCourt(c)
=============================================================================
