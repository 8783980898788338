---------------------------- MODULE VenuesProofs ----------------------------
(***************************************************************************)
(* Proofs about module Venues for any owners, slugs, limits, and any       *)
(* number of requests and decisions in progress together.                  *)
(***************************************************************************)
EXTENDS Venues, FiniteSetTheorems, TLAPS

HoldsRow == {"update", "promote", "approve", "reject", "counted", "limits", "record", "rename", "logo"}

\* What a request holds at each of its steps.
LEMMA HeldTypes ==
    ASSUME TypeOK, NEW p \in Request
    PROVE  /\ request[p].pc \in HoldsRow => request[p].id \in Venue /\ request[p].row \in VenueRow
           /\ request[p].pc \in {"name", "insert", "setDefault", "reassign"} => request[p].owner \in Owner
           /\ request[p].pc \in {"name", "insert"} => request[p].isDefault \in BOOLEAN
           /\ request[p].pc \in {"insert", "limits", "record", "rename"} => request[p].slug \in Slug
           /\ At(p, "logo") => request[p].logo \in 1..MaxLogo
           /\ request[p].pc \in {"setDefault", "attach", "detach"} => request[p].id \in Venue
           /\ request[p].pc \in {"attach", "detach"} => request[p].what \in Dependent
<1>1. request[p] \in Progress
  BY DEF TypeOK
<1> QED
  BY <1>1 DEF Progress, Holding, Idle, At, HoldsRow

\* A step of a request that leaves the tables alone.
LEMMA ProgressTyped ==
    ASSUME TypeOK, NEW p, NEW progress \in Progress,
           request' = [request EXCEPT ![p] = progress],
           UNCHANGED <<tables, mix, today, history, whole>>, alone' \in BOOLEAN
    PROVE  TypeOK'
BY DEF TypeOK, tables, history

\* A save writes back a row, or fails.
LEMMA SaveTyped ==
    ASSUME TypeOK, NEW p \in Request, NEW v \in Venue, NEW row \in VenueRow,
           NEW next \in Progress, Save(p, v, row, next)
    PROVE  TypeOK'
<1>1. CASE SlugTakenByOther(row.slug, v)
  <2>1. Idle \in Progress
    BY DEF Progress
  <2> QED
    BY <1>1, <2>1, ProgressTyped DEF Save, Fail, ReadOnly, GoTo, TypeOK
<1>2. CASE ~ SlugTakenByOther(row.slug, v)
  BY <1>2 DEF Save, GoTo, TypeOK, history
<1> QED
  BY <1>1, <1>2

\* What requests of owners do keeps every type.
LEMMA OwnerStepTypes ==
    ASSUME TypeOK, NEW p \in Process, OwnerStep(p)
    PROVE  TypeOK'
<1>0. p \in Request
  BY DEF Request
<1>i. Idle \in Progress
  BY DEF Progress
<1>1. ASSUME NEW o \in Owner, CountVenues(p, o) PROVE TypeOK'
  <2> DEFINE next == [pc |-> "name", owner |-> o, isDefault |-> OwnedBy(o) = {}]
  <2>1. next \in Progress
    BY DEF Progress
  <2>2. request' = [request EXCEPT ![p] = next] /\ UNCHANGED <<tables, mix, today, history, whole>>
        /\ alone' \in BOOLEAN
    BY <1>1 DEF CountVenues, Begin
  <2> HIDE DEF next
  <2> QED
    BY <2>1, <2>2, ProgressTyped
<1>2. ASSUME NEW s \in Slug, ChooseSlug(p, s) PROVE TypeOK'
  <2> DEFINE next == [pc |-> "insert", owner |-> request[p].owner,
                      isDefault |-> request[p].isDefault, slug |-> s]
  <2>1. next \in Progress
    BY <1>2, <1>0, HeldTypes DEF Progress, ChooseSlug, At
  <2>2. request' = [request EXCEPT ![p] = next] /\ UNCHANGED <<tables, mix, today, history, whole, alone>>
    BY <1>2 DEF ChooseSlug, ReadOnly, GoTo
  <2> HIDE DEF next
  <2> QED
    BY <2>1, <2>2, ProgressTyped DEF TypeOK
<1>3. ASSUME NEW s \in Slug, CheckSlugFree(p, s) PROVE TypeOK'
  <2> DEFINE next == [pc |-> "limits", id |-> request[p].id, row |-> request[p].row, slug |-> s]
  <2>1. next \in Progress
    BY <1>3, <1>0, HeldTypes DEF Progress, CheckSlugFree, At, HoldsRow
  <2>2. request' = [request EXCEPT ![p] = next] /\ UNCHANGED <<tables, mix, today, history, whole, alone>>
    BY <1>3 DEF CheckSlugFree, ReadOnly, GoTo
  <2> HIDE DEF next
  <2> QED
    BY <2>1, <2>2, ProgressTyped DEF TypeOK
<1>4. CASE Fail(p)
  BY <1>4, <1>i, ProgressTyped DEF Fail, ReadOnly, GoTo, TypeOK
<1>5. ASSUME NEW isHidden \in BOOLEAN, SaveUpdate(p, isHidden) PROVE TypeOK'
  <2> DEFINE row == [request[p].row EXCEPT !.isHidden = isHidden]
  <2>1. request[p].id \in Venue /\ request[p].row \in VenueRow
    BY <1>5, <1>0, HeldTypes DEF SaveUpdate, At, HoldsRow
  <2>2. row \in VenueRow
    BY <2>1 DEF VenueRow
  <2>3. Save(p, request[p].id, row, Idle)
    BY <1>5 DEF SaveUpdate
  <2> HIDE DEF row
  <2> QED
    BY <1>0, <1>i, <2>1, <2>2, <2>3, SaveTyped
<1>6. ASSUME NEW isHidden \in BOOLEAN, SaveSlug(p, isHidden) PROVE TypeOK'
  <2> DEFINE row == [request[p].row EXCEPT !.slug = request[p].slug, !.isHidden = isHidden]
  <2>1. request[p].id \in Venue /\ request[p].row \in VenueRow /\ request[p].slug \in Slug
    BY <1>6, <1>0, HeldTypes DEF SaveSlug, At, HoldsRow
  <2>2. row \in VenueRow
    BY <2>1 DEF VenueRow
  <2>3. CASE SlugTakenByOther(row.slug, request[p].id)
    BY <1>6, <2>3, <1>i, ProgressTyped DEF SaveSlug, Fail, ReadOnly, GoTo, TypeOK
  <2>4. CASE ~ SlugTakenByOther(row.slug, request[p].id)
    <3>1. /\ venue' = [venue EXCEPT ![request[p].id] = row]
          /\ slugChanges' = [slugChanges EXCEPT ![request[p].id] = Append(@, today)]
          /\ request' = [request EXCEPT ![p] = Idle]
          /\ UNCHANGED <<slugHistory, attached, booked, files, uploads, approved, mix, today, alone, whole>>
      BY <1>6, <2>4 DEF SaveSlug, GoTo
    <3> HIDE DEF row
    <3>2. slugChanges' \in [Venue -> Seq(0..LastDay)]
      BY <2>1, <3>1 DEF TypeOK
    <3> QED
      BY <2>1, <2>2, <3>1, <3>2, <1>i DEF TypeOK
  <2> QED
    BY <2>3, <2>4
<1>7. CASE CheckLimits(p)
  <2> DEFINE next == [request[p] EXCEPT !.pc = "record"]
  <2>1. request[p] \in Progress /\ At(p, "limits")
    BY <1>7, <1>0 DEF CheckLimits, TypeOK
  <2>2. next \in Progress
    BY <2>1 DEF Progress, Holding, Idle, At
  <2>3. request' = [request EXCEPT ![p] = next] /\ UNCHANGED <<tables, mix, today, history, whole, alone>>
    BY <1>7 DEF CheckLimits, ReadOnly, GoTo
  <2> HIDE DEF next
  <2> QED
    BY <2>2, <2>3, ProgressTyped DEF TypeOK
<1>8. CASE RecordChange(p)
  <2> DEFINE next == [request[p] EXCEPT !.pc = "rename"]
  <2>1. request[p] \in Progress /\ At(p, "record") /\ request[p].id \in Venue
    BY <1>8, <1>0, HeldTypes DEF RecordChange, TypeOK, At, HoldsRow
  <2>2. next \in Progress
    BY <2>1 DEF Progress, Holding, Idle, At
  <2>3. /\ request' = [request EXCEPT ![p] = next]
        /\ slugHistory' = [slugHistory EXCEPT ![request[p].id] = Append(@, today)]
        /\ UNCHANGED <<venue, attached, booked, files, uploads, mix, today, history, whole, alone>>
    BY <1>8 DEF RecordChange, GoTo
  <2> HIDE DEF next
  <2>4. slugHistory' \in [Venue -> Seq(0..LastDay)]
    BY <2>1, <2>3 DEF TypeOK
  <2> QED
    BY <2>2, <2>3, <2>4 DEF TypeOK, history
<1>9. CASE SetDefault(p)
  <2>1. \A v \in Venue : [venue[v] EXCEPT !.isDefault =
                            DefaultFlag(venue[v], v, request[p].id, request[p].owner)] \in VenueRow
    BY DEF TypeOK, VenueRow, DefaultFlag
  <2>2. venue' \in [Venue -> VenueRow]
    BY <1>9, <2>1 DEF SetDefault, TypeOK
  <2> QED
    BY <1>9, <1>i, <2>2 DEF SetDefault, GoTo, TypeOK, history
<1>10. CASE DeleteVenue(p)
  <2>1. request[p].id \in Venue /\ request[p].row \in VenueRow
    BY <1>10, <1>0, HeldTypes DEF DeleteVenue, At, HoldsRow
  <2>2. venue' \in [Venue -> VenueRow]
    BY <1>10, <2>1 DEF DeleteVenue, TypeOK, VenueRow
  <2> DEFINE next == IF request[p].row.isDefault
                     THEN [pc |-> "reassign", owner |-> request[p].row.owner] ELSE Idle
  <2>3. next \in Progress
    BY <2>1 DEF Progress, VenueRow
  <2>4. request' = [request EXCEPT ![p] = next]
    BY <1>10 DEF DeleteVenue, GoTo
  <2> HIDE DEF next
  <2>5. request' \in [Request -> Progress]
    BY <2>3, <2>4 DEF TypeOK
  <2>6. slugHistory' \in [Venue -> Seq(0..LastDay)] /\ slugChanges' \in [Venue -> Seq(0..LastDay)]
    BY <1>10, <2>1 DEF DeleteVenue, TypeOK
  <2>7. attached' \in [Venue -> SUBSET Dependent]
    BY <1>10, <2>1 DEF DeleteVenue, TypeOK
  <2> QED
    BY <1>10, <2>2, <2>5, <2>6, <2>7 DEF DeleteVenue, GoTo, TypeOK
<1>11. CASE FindRemaining(p)
  <2>1. CASE Fail(p)
    BY <2>1, <1>4
  <2>2. ASSUME NEW oldest \in OwnedBy(request[p].owner),
               ReadOnly(p, [pc |-> "promote", id |-> oldest, row |-> venue[oldest]])
        PROVE  TypeOK'
    <3> DEFINE next == [pc |-> "promote", id |-> oldest, row |-> venue[oldest]]
    <3>1. oldest \in Venue
      BY DEF OwnedBy
    <3>2. next \in Progress
      BY <3>1 DEF Progress, Holding, TypeOK
    <3>3. request' = [request EXCEPT ![p] = next] /\ UNCHANGED <<tables, mix, today, history, whole, alone>>
      BY <2>2 DEF ReadOnly, GoTo
    <3> HIDE DEF next
    <3> QED
      BY <3>2, <3>3, ProgressTyped DEF TypeOK
  <2> QED
    BY <1>11, <2>1, <2>2 DEF FindRemaining
<1>12. CASE Promote(p)
  <2> DEFINE row == [request[p].row EXCEPT !.isDefault = TRUE]
  <2>1. request[p].id \in Venue /\ request[p].row \in VenueRow
    BY <1>12, <1>0, HeldTypes DEF Promote, At, HoldsRow
  <2>2. row \in VenueRow
    BY <2>1 DEF VenueRow
  <2>3. Save(p, request[p].id, row, Idle)
    BY <1>12 DEF Promote
  <2> HIDE DEF row
  <2> QED
    BY <1>0, <1>i, <2>1, <2>2, <2>3, SaveTyped
<1>13. CASE SaveLogo(p)
  <2> DEFINE row == [request[p].row EXCEPT !.logo = request[p].logo]
             next == [pc |-> "unlink", old |-> request[p].row.logo]
  <2>1. request[p].id \in Venue /\ request[p].row \in VenueRow /\ request[p].logo \in 1..MaxLogo
    BY <1>13, <1>0, HeldTypes DEF SaveLogo, At, HoldsRow
  <2>2. row \in VenueRow
    BY <2>1, VenuesAssumption DEF VenueRow
  <2>3. next \in Progress
    BY <2>1 DEF Progress, VenueRow
  <2>4. Save(p, request[p].id, row, next)
    BY <1>13 DEF SaveLogo
  <2> HIDE DEF row, next
  <2> QED
    BY <1>0, <2>1, <2>2, <2>3, <2>4, SaveTyped
<1>14. CASE UnlinkLogo(p)
  BY <1>14, <1>i DEF UnlinkLogo, GoTo, TypeOK, history
<1>15. CASE SaveChild(p)
  <2>1. request[p].id \in Venue /\ request[p].what \in Dependent
    BY <1>15, <1>0, HeldTypes DEF SaveChild
  <2>2. attached' \in [Venue -> SUBSET Dependent]
    BY <1>15, <2>1 DEF SaveChild, TypeOK
  <2> QED
    BY <1>15, <1>i, <2>2 DEF SaveChild, GoTo, TypeOK, history
<1>16. ASSUME NEW v \in Venue, InsertVenue(p, v) PROVE TypeOK'
  <2> DEFINE row == [status |-> "pending_approval", owner |-> request[p].owner,
                     isDefault |-> request[p].isDefault, isHidden |-> FALSE,
                     slug |-> request[p].slug, logo |-> NoLogo]
  <2>1. row \in VenueRow
    BY <1>16, <1>0, HeldTypes, VenuesAssumption DEF InsertVenue, At, VenueRow, VenueStatus, NoLogo
  <2>2. Save(p, v, row, Idle)
    BY <1>16 DEF InsertVenue
  <2> HIDE DEF row
  <2> QED
    BY <1>0, <1>i, <2>1, <2>2, SaveTyped
<1>17. ASSUME NEW v \in Venue, LoadForUpdate(p, v) \/ CountBookings(p, v) PROVE TypeOK'
  <2>1. PICK kind \in Kind, pc \in {"update", "counted"} : Load(p, v, kind, pc)
    BY <1>17 DEF LoadForUpdate, CountBookings, Kind
  <2> DEFINE next == [pc |-> pc, id |-> v, row |-> venue[v]]
  <2>2. next \in Progress
    BY DEF Progress, Holding, TypeOK
  <2>3. request' = [request EXCEPT ![p] = next] /\ UNCHANGED <<tables, mix, today, history, whole>>
        /\ alone' \in BOOLEAN
    BY <2>1 DEF Load, Begin
  <2> HIDE DEF next
  <2> QED
    BY <2>2, <2>3, ProgressTyped
<1>18. ASSUME NEW v \in Venue, LoadForDefault(p, v) PROVE TypeOK'
  <2> DEFINE next == [pc |-> "setDefault", id |-> v, owner |-> venue[v].owner]
  <2>1. next \in Progress
    BY DEF Progress, TypeOK, VenueRow
  <2>2. request' = [request EXCEPT ![p] = next] /\ UNCHANGED <<tables, mix, today, history, whole>>
        /\ alone' \in BOOLEAN
    BY <1>18 DEF LoadForDefault, Begin
  <2> HIDE DEF next
  <2> QED
    BY <2>1, <2>2, ProgressTyped
<1>19. ASSUME NEW v \in Venue, LoadForLogo(p, v) PROVE TypeOK'
  <2> DEFINE next == [pc |-> "logo", id |-> v, row |-> venue[v], logo |-> uploads + 1]
  <2>1. uploads + 1 \in 1..MaxLogo
    BY <1>19, VenuesAssumption DEF LoadForLogo, TypeOK
  <2>2. next \in Progress
    BY <2>1 DEF Progress, TypeOK
  <2>3. request' = [request EXCEPT ![p] = next]
    BY <1>19 DEF LoadForLogo
  <2> HIDE DEF next
  <2>4. request' \in [Request -> Progress]
    BY <2>2, <2>3 DEF TypeOK
  <2>5. files' \subseteq 1..uploads' /\ uploads' \in 0..MaxLogo
    BY <1>19, <2>1 DEF LoadForLogo, TypeOK
  <2> QED
    BY <1>19, <2>4, <2>5 DEF LoadForLogo, TypeOK, history
<1>20. ASSUME NEW v \in Venue, NEW what \in Dependent, LoadForChild(p, v, what) PROVE TypeOK'
  <2>1. PICK pc \in {"attach", "detach"} : Begin(p, "child", [pc |-> pc, id |-> v, what |-> what])
    BY <1>20 DEF LoadForChild
  <2> DEFINE next == [pc |-> pc, id |-> v, what |-> what]
  <2>2. next \in Progress
    BY DEF Progress
  <2>3. request' = [request EXCEPT ![p] = next] /\ UNCHANGED <<tables, mix, today, history, whole>>
        /\ alone' \in BOOLEAN
    BY <2>1 DEF Begin
  <2> HIDE DEF next
  <2> QED
    BY <2>2, <2>3, ProgressTyped
<1> QED
  BY <1>1, <1>2, <1>3, <1>4, <1>5, <1>6, <1>7, <1>8, <1>9, <1>10, <1>11, <1>12, <1>13,
     <1>14, <1>15, <1>16, <1>17, <1>18, <1>19, <1>20
  DEF OwnerStep, RefuseSlug, RefuseNewSlug, RefuseLimits

\* Decisions save rows that were read, too.
LEMMA AdminStepTypes ==
    ASSUME TypeOK, NEW a \in Admin, AdminStep(a)
    PROVE  TypeOK'
<1>0. a \in Request /\ Idle \in Progress
  BY DEF Request, Progress
<1>1. ASSUME NEW v \in Venue, ReadPending(a, v) PROVE TypeOK'
  <2>1. PICK pc \in {"approve", "reject"} : Load(a, v, "decide", pc)
    BY <1>1 DEF ReadPending
  <2> DEFINE next == [pc |-> pc, id |-> v, row |-> venue[v]]
  <2>2. next \in Progress
    BY DEF Progress, Holding, TypeOK
  <2>3. request' = [request EXCEPT ![a] = next] /\ UNCHANGED <<tables, mix, today, history, whole>>
        /\ alone' \in BOOLEAN
    BY <2>1 DEF Load, Begin
  <2> HIDE DEF next
  <2> QED
    BY <2>2, <2>3, ProgressTyped
<1>2. CASE SaveDecision(a)
  <2> DEFINE row == [request[a].row EXCEPT !.status = Decision(a)]
  <2>1. request[a].id \in Venue /\ request[a].row \in VenueRow
    BY <1>2, <1>0, HeldTypes DEF SaveDecision, HoldsRow
  <2>2. row \in VenueRow
    BY <2>1 DEF VenueRow, VenueStatus, Decision
  <2>3. CASE SlugTakenByOther(row.slug, request[a].id)
    BY <1>2, <2>3, <1>0, ProgressTyped DEF SaveDecision, Fail, ReadOnly, GoTo, TypeOK
  <2>4. CASE ~ SlugTakenByOther(row.slug, request[a].id)
    <3>1. /\ venue' = [venue EXCEPT ![request[a].id] = row]
          /\ approved' \in {approved, approved \cup {request[a].id}}
          /\ request' = [request EXCEPT ![a] = Idle]
          /\ UNCHANGED <<slugHistory, attached, booked, files, uploads, slugChanges, mix, today, alone, whole>>
      BY <1>2, <2>4 DEF SaveDecision, GoTo
    <3> HIDE DEF row
    <3> QED
      BY <2>1, <2>2, <3>1, <1>0 DEF TypeOK
  <2> QED
    BY <2>3, <2>4
<1> QED
  BY <1>1, <1>2 DEF AdminStep

\* Every save writes values of the columns' types, also one whose row was read
\* long before.
THEOREM VenuesTypeCorrect == Spec => []TypeOK
<1>1. Init => TypeOK
  BY VenuesAssumption DEF Init, TypeOK, VenueRow, NoLogo, Progress
<1>2. TypeOK /\ [Next]_vars => TypeOK'
  <2> SUFFICES ASSUME TypeOK, [Next]_vars PROVE TypeOK'
    OBVIOUS
  <2>1. ASSUME NEW v \in Venue, Book(v) PROVE TypeOK'
    BY <2>1 DEF Book, TypeOK, history
  <2>2. CASE Tick
    BY <2>2, VenuesAssumption DEF Tick, TypeOK, tables, history
  <2>3. CASE Restart
    BY <2>3 DEF Restart, TypeOK, tables, history, Progress
  <2>4. CASE UNCHANGED vars
    BY <2>4 DEF vars, TypeOK, tables, history
  <2> QED
    BY <2>1, <2>2, <2>3, <2>4, OwnerStepTypes, AdminStepTypes DEF Next
<1> QED
  BY <1>1, <1>2, PTL DEF Spec

-----------------------------------------------------------------------------
\* A row of venues, the one in the table or one read long ago, says active only
\* of a venue whose approval was saved: approvals are never forgotten, so it
\* does not matter how old the row is.
RowsAreApproved ==
    /\ \A v \in Venue : venue[v].status = "active" => v \in approved
    /\ \A p \in Request : request[p].pc \in HoldsRow /\ request[p].row.status = "active"
                            => request[p].id \in approved

\* A step that changes no venue and holds at most a row of the table.
LEMMA ReadKeepsApproved ==
    ASSUME TypeOK, RowsAreApproved, NEW p \in Request, NEW next,
           request' = [request EXCEPT ![p] = next], UNCHANGED <<venue, approved>>,
           next.pc \in HoldsRow => /\ next.id \in Venue
                                   /\ next.row.status = "active" => next.id \in approved
    PROVE  RowsAreApproved'
<1>1. \A v \in Venue : venue'[v].status = "active" => v \in approved'
  BY DEF RowsAreApproved
<1>2. ASSUME NEW q \in Request, request'[q].pc \in HoldsRow, request'[q].row.status = "active"
      PROVE  request'[q].id \in approved'
  <2>1. CASE q = p
    <3>1. request'[q] = next
      BY <2>1 DEF TypeOK
    <3> QED
      BY <3>1, <1>2 DEF RowsAreApproved
  <2>2. CASE q # p
    <3>1. request'[q] = request[q]
      BY <2>2 DEF TypeOK
    <3> QED
      BY <3>1, <1>2 DEF RowsAreApproved
  <2> QED
    BY <2>1, <2>2
<1> QED
  BY <1>1, <1>2 DEF RowsAreApproved

\* A step that saves a row of an approved venue, or one that is not active.
LEMMA WriteKeepsApproved ==
    ASSUME TypeOK, RowsAreApproved, NEW p \in Request, NEW v \in Venue, NEW row, NEW next,
           venue' = [venue EXCEPT ![v] = row], request' = [request EXCEPT ![p] = next],
           next.pc \notin HoldsRow, approved \subseteq approved',
           row.status = "active" => v \in approved'
    PROVE  RowsAreApproved'
<1>1. \A u \in Venue : venue'[u].status = "active" => u \in approved'
  BY DEF RowsAreApproved, TypeOK
<1>2. ASSUME NEW q \in Request, request'[q].pc \in HoldsRow, request'[q].row.status = "active"
      PROVE  request'[q].id \in approved'
  <2>1. q # p
    BY <1>2 DEF TypeOK
  <2>2. request'[q] = request[q]
    BY <2>1 DEF TypeOK
  <2> QED
    BY <2>2, <1>2 DEF RowsAreApproved
<1> QED
  BY <1>1, <1>2 DEF RowsAreApproved

\* save, whether the unique index of the slugs lets it or not.
LEMMA SaveKeepsApproved ==
    ASSUME TypeOK, RowsAreApproved, NEW p \in Request, NEW v \in Venue, NEW row, NEW next,
           Save(p, v, row, next), next.pc \notin HoldsRow, row.status = "active" => v \in approved
    PROVE  RowsAreApproved'
<1>1. CASE SlugTakenByOther(row.slug, v)
  BY <1>1, ReadKeepsApproved DEF Save, Fail, ReadOnly, GoTo, tables, history, Idle, HoldsRow
<1>2. CASE ~ SlugTakenByOther(row.slug, v)
  BY <1>2, WriteKeepsApproved DEF Save, GoTo, history
<1> QED
  BY <1>1, <1>2

\* What owners' requests write back was approved when it says active.
LEMMA OwnerStepKeepsApproved ==
    ASSUME TypeOK, RowsAreApproved, NEW p \in Process, OwnerStep(p)
    PROVE  RowsAreApproved'
<1> USE DEF HoldsRow
<1>0. p \in Request /\ Idle.pc = "idle"
  BY DEF Request, Idle
<1>1. ASSUME NEW o \in Owner, CountVenues(p, o) PROVE RowsAreApproved'
  <2> DEFINE next == [pc |-> "name", owner |-> o, isDefault |-> OwnedBy(o) = {}]
  <2>1. next.pc = "name" /\ request' = [request EXCEPT ![p] = next] /\ UNCHANGED <<venue, approved>>
    BY <1>1 DEF CountVenues, Begin, tables, history
  <2> HIDE DEF next
  <2> QED
    BY <1>0, <2>1, ReadKeepsApproved
<1>2. ASSUME NEW s \in Slug, ChooseSlug(p, s) PROVE RowsAreApproved'
  <2> DEFINE next == [pc |-> "insert", owner |-> request[p].owner,
                      isDefault |-> request[p].isDefault, slug |-> s]
  <2>1. next.pc = "insert" /\ request' = [request EXCEPT ![p] = next] /\ UNCHANGED <<venue, approved>>
    BY <1>2 DEF ChooseSlug, ReadOnly, GoTo, tables, history
  <2> HIDE DEF next
  <2> QED
    BY <1>0, <2>1, ReadKeepsApproved
<1>3. ASSUME NEW s \in Slug, CheckSlugFree(p, s) PROVE RowsAreApproved'
  <2> DEFINE next == [pc |-> "limits", id |-> request[p].id, row |-> request[p].row, slug |-> s]
  <2>1. request[p].id \in Venue /\ (request[p].row.status = "active" => request[p].id \in approved)
    BY <1>3, <1>0, HeldTypes DEF CheckSlugFree, At, RowsAreApproved
  <2>2. next.id \in Venue /\ (next.row.status = "active" => next.id \in approved)
        /\ request' = [request EXCEPT ![p] = next] /\ UNCHANGED <<venue, approved>>
    BY <1>3, <2>1 DEF CheckSlugFree, ReadOnly, GoTo, tables, history
  <2> HIDE DEF next
  <2> QED
    BY <1>0, <2>2, ReadKeepsApproved
<1>4. CASE Fail(p) \/ UnlinkLogo(p) \/ SaveChild(p)
  <2>1. request' = [request EXCEPT ![p] = Idle] /\ UNCHANGED <<venue, approved>>
    BY <1>4 DEF Fail, UnlinkLogo, SaveChild, ReadOnly, GoTo, tables, history
  <2> QED
    BY <1>0, <2>1, ReadKeepsApproved
<1>5. ASSUME NEW isHidden \in BOOLEAN, SaveUpdate(p, isHidden) PROVE RowsAreApproved'
  <2> DEFINE row == [request[p].row EXCEPT !.isHidden = isHidden]
  <2>1. /\ request[p].id \in Venue /\ request[p].row \in VenueRow
        /\ request[p].row.status = "active" => request[p].id \in approved
    BY <1>5, <1>0, HeldTypes DEF SaveUpdate, At, RowsAreApproved
  <2>2. row.status = request[p].row.status
    BY <2>1 DEF VenueRow
  <2>3. Save(p, request[p].id, row, Idle)
    BY <1>5 DEF SaveUpdate
  <2> HIDE DEF row
  <2> QED
    BY <1>0, <2>1, <2>2, <2>3, SaveKeepsApproved
<1>6. ASSUME NEW isHidden \in BOOLEAN, SaveSlug(p, isHidden) PROVE RowsAreApproved'
  <2> DEFINE row == [request[p].row EXCEPT !.slug = request[p].slug, !.isHidden = isHidden]
  <2>1. /\ request[p].id \in Venue /\ request[p].row \in VenueRow
        /\ request[p].row.status = "active" => request[p].id \in approved
    BY <1>6, <1>0, HeldTypes DEF SaveSlug, At, RowsAreApproved
  <2>2. row.status = request[p].row.status
    BY <2>1 DEF VenueRow
  <2>3. CASE SlugTakenByOther(row.slug, request[p].id)
    BY <1>6, <2>3, <1>4 DEF SaveSlug
  <2>4. CASE ~ SlugTakenByOther(row.slug, request[p].id)
    <3>1. /\ venue' = [venue EXCEPT ![request[p].id] = row] /\ approved' = approved
          /\ request' = [request EXCEPT ![p] = Idle]
      BY <1>6, <2>4 DEF SaveSlug, GoTo
    <3> HIDE DEF row
    <3> QED
      BY <1>0, <2>1, <2>2, <3>1, WriteKeepsApproved
  <2> QED
    BY <2>3, <2>4
<1>7. CASE CheckLimits(p) \/ RecordChange(p)
  <2> DEFINE next == IF CheckLimits(p) THEN [request[p] EXCEPT !.pc = "record"]
                     ELSE [request[p] EXCEPT !.pc = "rename"]
  <2>1. /\ request[p] \in Progress /\ request[p].pc \in {"limits", "record"} /\ request[p].id \in Venue
        /\ request[p].row.status = "active" => request[p].id \in approved
    BY <1>7, <1>0, HeldTypes DEF CheckLimits, RecordChange, At, RowsAreApproved, TypeOK
  <2>2. next.id = request[p].id /\ next.row = request[p].row
    BY <2>1 DEF Progress, Holding, Idle
  <2>3. request' = [request EXCEPT ![p] = next] /\ UNCHANGED <<venue, approved>>
    BY <1>7 DEF CheckLimits, RecordChange, ReadOnly, GoTo, tables, history
  <2> HIDE DEF next
  <2> QED
    BY <1>0, <2>1, <2>2, <2>3, ReadKeepsApproved
<1>8. CASE SetDefault(p)
  <2>1. \A v \in Venue : venue'[v].status = venue[v].status
    BY <1>8 DEF SetDefault, TypeOK, VenueRow
  <2>2. request' = [request EXCEPT ![p] = Idle] /\ approved' = approved
    BY <1>8 DEF SetDefault, GoTo, history
  <2> QED
    BY <1>0, <2>1, <2>2 DEF RowsAreApproved, TypeOK
<1>9. CASE DeleteVenue(p)
  <2> DEFINE v == request[p].id
             row == [venue[v] EXCEPT !.status = "removed"]
             next == IF request[p].row.isDefault
                     THEN [pc |-> "reassign", owner |-> request[p].row.owner] ELSE Idle
  <2>1. v \in Venue
    BY <1>9, <1>0, HeldTypes DEF DeleteVenue, At
  <2>2. row.status # "active"
    BY <2>1 DEF TypeOK, VenueRow
  <2>3. next.pc \notin HoldsRow
    BY <1>0
  <2>4. venue' = [venue EXCEPT ![v] = row] /\ request' = [request EXCEPT ![p] = next] /\ approved' = approved
    BY <1>9 DEF DeleteVenue, GoTo
  <2> HIDE DEF v, row, next
  <2> QED
    BY <1>0, <2>1, <2>2, <2>3, <2>4, WriteKeepsApproved
<1>10. CASE FindRemaining(p)
  <2>1. ASSUME NEW oldest \in OwnedBy(request[p].owner),
               ReadOnly(p, [pc |-> "promote", id |-> oldest, row |-> venue[oldest]])
        PROVE  RowsAreApproved'
    <3> DEFINE next == [pc |-> "promote", id |-> oldest, row |-> venue[oldest]]
    <3>1. oldest \in Venue
      BY DEF OwnedBy
    <3>2. next.id \in Venue /\ (next.row.status = "active" => next.id \in approved)
          /\ request' = [request EXCEPT ![p] = next] /\ UNCHANGED <<venue, approved>>
      BY <2>1, <3>1 DEF ReadOnly, GoTo, tables, history, RowsAreApproved
    <3> HIDE DEF next
    <3> QED
      BY <1>0, <3>2, ReadKeepsApproved
  <2> QED
    BY <1>10, <1>4, <2>1 DEF FindRemaining
<1>11. CASE Promote(p)
  <2> DEFINE row == [request[p].row EXCEPT !.isDefault = TRUE]
  <2>1. /\ request[p].id \in Venue /\ request[p].row \in VenueRow
        /\ request[p].row.status = "active" => request[p].id \in approved
    BY <1>11, <1>0, HeldTypes DEF Promote, At, RowsAreApproved
  <2>2. row.status = request[p].row.status
    BY <2>1 DEF VenueRow
  <2>3. Save(p, request[p].id, row, Idle)
    BY <1>11 DEF Promote
  <2> HIDE DEF row
  <2> QED
    BY <1>0, <2>1, <2>2, <2>3, SaveKeepsApproved
<1>12. CASE SaveLogo(p)
  <2> DEFINE row == [request[p].row EXCEPT !.logo = request[p].logo]
             next == [pc |-> "unlink", old |-> request[p].row.logo]
  <2>1. /\ request[p].id \in Venue /\ request[p].row \in VenueRow
        /\ request[p].row.status = "active" => request[p].id \in approved
    BY <1>12, <1>0, HeldTypes DEF SaveLogo, At, RowsAreApproved
  <2>2. row.status = request[p].row.status /\ next.pc = "unlink"
    BY <2>1 DEF VenueRow
  <2>3. Save(p, request[p].id, row, next)
    BY <1>12 DEF SaveLogo
  <2> HIDE DEF row, next
  <2> QED
    BY <1>0, <2>1, <2>2, <2>3, SaveKeepsApproved
<1>13. ASSUME NEW v \in Venue, InsertVenue(p, v) PROVE RowsAreApproved'
  <2> DEFINE row == [status |-> "pending_approval", owner |-> request[p].owner,
                     isDefault |-> request[p].isDefault, isHidden |-> FALSE,
                     slug |-> request[p].slug, logo |-> NoLogo]
  <2>1. row.status # "active" /\ Save(p, v, row, Idle)
    BY <1>13 DEF InsertVenue
  <2> HIDE DEF row
  <2> QED
    BY <1>0, <2>1, SaveKeepsApproved
<1>14. ASSUME NEW v \in Venue, NEW next, request' = [request EXCEPT ![p] = next],
              UNCHANGED <<venue, approved>>,
              next.pc \in HoldsRow => next.id = v /\ next.row = venue[v]
       PROVE  RowsAreApproved'
  BY <1>0, <1>14, ReadKeepsApproved DEF RowsAreApproved
<1>15. ASSUME NEW v \in Venue, LoadForUpdate(p, v) \/ CountBookings(p, v) PROVE RowsAreApproved'
  <2>1. PICK kind \in Kind, pc \in {"update", "counted"} : Load(p, v, kind, pc)
    BY <1>15 DEF LoadForUpdate, CountBookings, Kind
  <2>2. request' = [request EXCEPT ![p] = [pc |-> pc, id |-> v, row |-> venue[v]]]
        /\ UNCHANGED <<venue, approved>>
    BY <2>1 DEF Load, Begin, tables, history
  <2> QED
    BY <2>2, <1>14
<1>16. ASSUME NEW v \in Venue, LoadForDefault(p, v) PROVE RowsAreApproved'
  <2>1. request' = [request EXCEPT ![p] = [pc |-> "setDefault", id |-> v, owner |-> venue[v].owner]]
        /\ UNCHANGED <<venue, approved>>
    BY <1>16 DEF LoadForDefault, Begin, tables, history
  <2> QED
    BY <2>1, <1>14
<1>17. ASSUME NEW v \in Venue, LoadForLogo(p, v) PROVE RowsAreApproved'
  <2>1. request' = [request EXCEPT ![p] =
                      [pc |-> "logo", id |-> v, row |-> venue[v], logo |-> uploads + 1]]
        /\ UNCHANGED <<venue, approved>>
    BY <1>17 DEF LoadForLogo, history
  <2> QED
    BY <2>1, <1>14
<1>18. ASSUME NEW v \in Venue, NEW what \in Dependent, LoadForChild(p, v, what) PROVE RowsAreApproved'
  <2>1. PICK pc \in {"attach", "detach"} : Begin(p, "child", [pc |-> pc, id |-> v, what |-> what])
    BY <1>18 DEF LoadForChild
  <2>2. request' = [request EXCEPT ![p] = [pc |-> pc, id |-> v, what |-> what]]
        /\ UNCHANGED <<venue, approved>>
    BY <2>1 DEF Begin, tables, history
  <2> QED
    BY <2>2, <1>14
<1> QED
  BY <1>1, <1>2, <1>3, <1>4, <1>5, <1>6, <1>7, <1>8, <1>9, <1>10, <1>11, <1>12, <1>13,
     <1>15, <1>16, <1>17, <1>18
  DEF OwnerStep, RefuseSlug, RefuseNewSlug, RefuseLimits

\* An approval is recorded with the row it makes active.
LEMMA AdminStepKeepsApproved ==
    ASSUME TypeOK, RowsAreApproved, NEW a \in Admin, AdminStep(a)
    PROVE  RowsAreApproved'
<1> USE DEF HoldsRow
<1>0. a \in Request /\ Idle.pc = "idle"
  BY DEF Request, Idle
<1>1. ASSUME NEW v \in Venue, ReadPending(a, v) PROVE RowsAreApproved'
  <2>1. PICK pc \in {"approve", "reject"} : Load(a, v, "decide", pc)
    BY <1>1 DEF ReadPending
  <2> DEFINE next == [pc |-> pc, id |-> v, row |-> venue[v]]
  <2>2. next.id = v /\ next.row.status # "active"
        /\ request' = [request EXCEPT ![a] = next] /\ UNCHANGED <<venue, approved>>
    BY <1>1, <2>1 DEF ReadPending, Load, Begin, tables, history
  <2> HIDE DEF next
  <2> QED
    BY <1>0, <2>2, ReadKeepsApproved
<1>2. CASE SaveDecision(a)
  <2> DEFINE row == [request[a].row EXCEPT !.status = Decision(a)]
  <2>1. request[a].id \in Venue /\ request[a].row \in VenueRow
    BY <1>2, <1>0, HeldTypes DEF SaveDecision
  <2>2. row.status = Decision(a)
    BY <2>1 DEF VenueRow
  <2>3. CASE SlugTakenByOther(row.slug, request[a].id)
    BY <1>2, <2>3, <1>0, ReadKeepsApproved DEF SaveDecision, Fail, ReadOnly, GoTo, tables, history
  <2>4. CASE ~ SlugTakenByOther(row.slug, request[a].id)
    <3>1. /\ venue' = [venue EXCEPT ![request[a].id] = row]
          /\ approved' = IF At(a, "approve") THEN approved \cup {request[a].id} ELSE approved
          /\ request' = [request EXCEPT ![a] = Idle]
      BY <1>2, <2>4 DEF SaveDecision, GoTo
    <3>2. row.status = "active" => request[a].id \in approved'
      BY <2>2, <3>1 DEF Decision
    <3> HIDE DEF row
    <3> QED
      BY <1>0, <2>1, <3>1, <3>2, WriteKeepsApproved
  <2> QED
    BY <2>3, <2>4
<1> QED
  BY <1>1, <1>2 DEF AdminStep

\* Only a venue an admin approved is ever active, for any owners and any
\* requests in progress together.
THEOREM ActiveIsAlwaysApproved == Spec => []ActiveMeansApproved
<1>1. Init => RowsAreApproved
  BY DEF Init, RowsAreApproved, Idle, HoldsRow
<1>2. TypeOK /\ RowsAreApproved /\ [Next]_vars => RowsAreApproved'
  <2> SUFFICES ASSUME TypeOK, RowsAreApproved, [Next]_vars PROVE RowsAreApproved'
    OBVIOUS
  <2>1. ASSUME NEW v \in Venue, Book(v) PROVE RowsAreApproved'
    BY <2>1 DEF Book, history, RowsAreApproved
  <2>2. CASE Tick
    BY <2>2 DEF Tick, tables, history, RowsAreApproved
  <2>3. CASE Restart
    BY <2>3 DEF Restart, tables, history, RowsAreApproved, Idle, HoldsRow
  <2>4. CASE UNCHANGED vars
    BY <2>4 DEF vars, tables, history, RowsAreApproved
  <2> QED
    BY <2>1, <2>2, <2>3, <2>4, OwnerStepKeepsApproved, AdminStepKeepsApproved DEF Next
<1>3. RowsAreApproved => ActiveMeansApproved
  BY DEF RowsAreApproved, ActiveMeansApproved
<1> QED
  BY <1>1, <1>2, <1>3, VenuesTypeCorrect, PTL DEF Spec

-----------------------------------------------------------------------------
(* What holds as long as requests come one at a time.                       *)

\* No two requests are in progress together.
OneAtATime == \A p, q \in Request : p # q => request[p] = Idle \/ request[q] = Idle

\* The row a request holds is the one in the table.
HeldIsCurrent(p) ==
    /\ request[p].pc \in HoldsRow => /\ Exists(request[p].id)
                                     /\ request[p].row = venue[request[p].id]
    /\ request[p].pc \in {"approve", "reject"} => request[p].row.status = "pending_approval"
    /\ request[p].pc \in {"setDefault", "attach", "detach"} => Exists(request[p].id)
    /\ At(p, "setDefault") => request[p].owner = venue[request[p].id].owner

AloneIsCurrent == alone => OneAtATime /\ \A p \in Request : HeldIsCurrent(p)

\* All but p are idle, before and after a step.
Others(p) == \A q \in Request \ {p} : request[q] = Idle /\ request'[q] = Idle

\* Any later step.
LEMMA Goes ==
    ASSUME TypeOK, NEW p \in Request, NEW next, GoTo(p, next)
    PROVE  request'[p] = next /\ UNCHANGED <<today, whole>>
BY DEF GoTo, TypeOK

\* A step that only reads.
LEMMA Reads ==
    ASSUME TypeOK, NEW p \in Request, NEW next, ReadOnly(p, next)
    PROVE  /\ request'[p] = next
           /\ UNCHANGED <<today, whole, venue, slugHistory, attached, booked, files, uploads, slugChanges>>
BY Goes DEF ReadOnly, tables, history

\* An exception.
LEMMA Fails ==
    ASSUME TypeOK, NEW p \in Request, Fail(p)
    PROVE  /\ request'[p] = Idle
           /\ UNCHANGED <<today, whole, venue, slugHistory, attached, booked, files, uploads, slugChanges>>
BY Reads DEF Fail

\* The first step of a request.
LEMMA Begins ==
    ASSUME TypeOK, NEW p \in Request, NEW kind, NEW next, Begin(p, kind, next)
    PROVE  /\ request[p] = Idle /\ request'[p] = next
           /\ UNCHANGED <<today, whole, venue, slugHistory, attached, booked, files, uploads, slugChanges>>
BY DEF Begin, TypeOK, tables, history

\* save, which the unique index of the slugs may refuse.
LEMMA Saves ==
    ASSUME TypeOK, NEW p \in Request, NEW v, NEW row, NEW next, Save(p, v, row, next)
    PROVE  /\ UNCHANGED <<today, whole, slugHistory, attached, booked, files, uploads, slugChanges>>
           /\ \/ request'[p] = Idle /\ venue' = venue /\ SlugTakenByOther(row.slug, v)
              \/ request'[p] = next /\ venue' = [venue EXCEPT ![v] = row] /\ ~ SlugTakenByOther(row.slug, v)
BY Goes, Fails DEF Save, history

\* As long as requests come one at a time, a step is one of the only request.
LEMMA StepOfOne ==
    ASSUME TypeOK, AloneIsCurrent, NEW p \in Request, OwnerStep(p) \/ AdminStep(p), alone'
    PROVE  alone /\ Others(p)
<1>1. PICK next :
        /\ request' = [request EXCEPT ![p] = next]
        /\ \/ request[p].pc # "idle" /\ alone' = alone
           \/ alone' = (alone /\ \A q \in Request : request[q] = Idle)
  <2>1. CASE AdminStep(p)
    BY <2>1 DEF AdminStep, ReadPending, SaveDecision, Load, Begin, Fail, ReadOnly, GoTo, At
  <2>2. CASE OwnerStep(p)
    BY <2>2 DEF OwnerStep, CountVenues, ChooseSlug, CheckSlugFree, RefuseNewSlug, RefuseSlug, SaveUpdate, SaveSlug,
      CheckLimits, RefuseLimits, RecordChange, SetDefault, DeleteVenue, FindRemaining, Promote, SaveLogo, UnlinkLogo,
      SaveChild, InsertVenue, LoadForUpdate, LoadForDefault, CountBookings, LoadForLogo, LoadForChild,
      Load, Begin, Fail, ReadOnly, GoTo, Save, At
  <2> QED
    BY <2>1, <2>2
<1>2. Idle.pc = "idle"
  BY DEF Idle
<1>3. alone /\ \A q \in Request \ {p} : request[q] = Idle
  BY <1>1, <1>2 DEF AloneIsCurrent, OneAtATime
<1> QED
  BY <1>1, <1>3 DEF Others, TypeOK

\* A row is read when it is in the table, and only its holder changes it.
LEMMA StepKeepsCurrent ==
    ASSUME TypeOK, AloneIsCurrent, NEW p \in Request, OwnerStep(p) \/ AdminStep(p)
    PROVE  AloneIsCurrent'
<1> SUFFICES ASSUME alone' PROVE (OneAtATime /\ \A q \in Request : HeldIsCurrent(q))'
  BY DEF AloneIsCurrent
<1>1. alone /\ Others(p) /\ HeldIsCurrent(p)
  BY StepOfOne DEF AloneIsCurrent
<1>2. HeldIsCurrent(p)'
  <2> USE DEF HoldsRow, At
  <2>i. Idle.pc = "idle"
    BY DEF Idle
  <2>1. request[p] \in Progress /\ request \in [Request -> Progress]
    BY DEF TypeOK
  <2>2. CASE request'[p].pc \notin HoldsRow \cup {"setDefault", "attach", "detach"}
    BY <2>2 DEF HeldIsCurrent
  <2>3. ASSUME NEW v \in Venue, LoadForUpdate(p, v) \/ CountBookings(p, v) \/ LoadForDefault(p, v) \/ LoadForLogo(p, v)
           \/ ReadPending(p, v)
        PROVE  HeldIsCurrent(p)'
    <3>1. /\ UNCHANGED venue
          /\ Exists(v)
          /\ request'[p].id = v
          /\ request'[p].pc # "setDefault" => request'[p].row = venue[v]
          /\ request'[p].pc = "setDefault" => request'[p].owner = venue[v].owner
          /\ request'[p].pc \in {"approve", "reject"} => venue[v].status = "pending_approval"
          /\ request'[p].pc \notin {"attach", "detach"}
      <4>1. CASE LoadForLogo(p, v)
        <5> DEFINE next == [pc |-> "logo", id |-> v, row |-> venue[v], logo |-> uploads + 1]
        <5>1. request' = [request EXCEPT ![p] = next] /\ UNCHANGED venue /\ Exists(v)
          BY <4>1 DEF LoadForLogo
        <5>2. next.id = v /\ next.row = venue[v] /\ next.pc = "logo"
          OBVIOUS
        <5> HIDE DEF next
        <5> QED
          BY <2>1, <5>1, <5>2
      <4> QED
        BY <2>3, <4>1, Begins DEF LoadForUpdate, CountBookings, LoadForDefault, ReadPending, Load
    <3> QED
      BY <3>1 DEF HeldIsCurrent, Exists
  <2>8. ASSUME NEW v \in Venue, NEW what \in Dependent, LoadForChild(p, v, what) PROVE HeldIsCurrent(p)'
    <3>1. UNCHANGED venue /\ Exists(v) /\ request'[p].id = v /\ request'[p].pc \in {"attach", "detach"}
      BY <2>8, Begins DEF LoadForChild
    <3> QED
      BY <3>1 DEF HeldIsCurrent, Exists
  <2>4. ASSUME NEW s \in Slug, CheckSlugFree(p, s) PROVE HeldIsCurrent(p)'
    BY <1>1, <2>1, <2>4 DEF CheckSlugFree, ReadOnly, GoTo, HeldIsCurrent, Exists, tables
  <2>5. CASE CheckLimits(p) \/ RecordChange(p)
    BY <1>1, <2>1, <2>5 DEF CheckLimits, RecordChange, ReadOnly, GoTo, HeldIsCurrent, Exists, tables, Progress, Holding, Idle
  <2>6. CASE FindRemaining(p)
    BY <1>1, <2>1, <2>6, <2>i DEF FindRemaining, ReadOnly, GoTo, HeldIsCurrent, Exists, tables, OwnedBy, Fail
  <2>7. CASE request'[p].pc \in HoldsRow \cup {"setDefault", "attach", "detach"}
    <3>1. request'[p] # Idle
      BY <2>7, <2>i
    <3>2. ~ Fail(p) /\ ~ SaveDecision(p)
      BY <3>1, <2>1 DEF SaveDecision, Fail, ReadOnly, GoTo
    <3>3. ~ RefuseSlug(p) /\ ~ RefuseLimits(p) /\ \A s \in Slug : ~ RefuseNewSlug(p, s)
      BY <3>2 DEF RefuseSlug, RefuseLimits, RefuseNewSlug
    <3>4. \A h \in BOOLEAN : ~ SaveUpdate(p, h) /\ ~ SaveSlug(p, h)
      BY <3>1, <3>2, <2>1 DEF SaveUpdate, SaveSlug, Save, GoTo
    <3>5. ~ SetDefault(p) /\ ~ DeleteVenue(p) /\ ~ Promote(p) /\ ~ SaveLogo(p) /\ ~ UnlinkLogo(p) /\ ~ SaveChild(p)
      BY <2>7, <2>i, <3>1, Goes, Saves DEF SetDefault, DeleteVenue, Promote, SaveLogo, UnlinkLogo, SaveChild
    <3>6. /\ \A v \in Venue : ~ InsertVenue(p, v)
          /\ \A o \in Owner : ~ CountVenues(p, o)
          /\ \A s \in Slug : ~ ChooseSlug(p, s)
      BY <2>7, <3>1, Goes, Saves, Begins, Reads DEF InsertVenue, CountVenues, ChooseSlug
    <3> QED
      BY <3>3, <3>4, <3>5, <3>6, <3>2, <2>3, <2>4, <2>5, <2>6, <2>8 DEF OwnerStep, AdminStep
  <2> QED
    BY <2>2, <2>7
<1>3. \A q \in Request : HeldIsCurrent(q)'
  BY <1>1, <1>2 DEF Others, HeldIsCurrent, HoldsRow, Idle, At
<1>4. OneAtATime'
  BY <1>1 DEF Others, OneAtATime
<1> QED
  BY <1>3, <1>4

\* The requests' first steps read, and hold what they read.
LEMMA LoadsHold ==
    ASSUME TypeOK, NEW p \in Request, NEW v \in Venue,
           \/ LoadForUpdate(p, v) \/ CountBookings(p, v) \/ LoadForDefault(p, v) \/ ReadPending(p, v)
           \/ \E what \in Dependent : LoadForChild(p, v, what)
    PROVE  /\ request[p] = Idle
           /\ UNCHANGED <<today, whole, venue, slugHistory, attached, booked, files, uploads, slugChanges>>
           /\ request'[p].pc \in {"update", "counted", "setDefault", "approve", "reject", "attach", "detach"}
           /\ request'[p].pc = "counted" => request'[p].id \notin booked
<1> DEFINE Held == /\ request[p] = Idle
                   /\ UNCHANGED <<today, whole, venue, slugHistory, attached, booked, files, uploads, slugChanges>>
                   /\ request'[p].pc \in {"update", "counted", "setDefault", "approve", "reject", "attach", "detach"}
                   /\ request'[p].pc = "counted" => request'[p].id \notin booked
<1>1. ASSUME NEW kind, NEW pc \in {"update", "counted", "approve", "reject"}, Load(p, v, kind, pc),
             pc = "counted" => v \notin booked
      PROVE  Held
  BY <1>1, Begins DEF Load
<1>2. ASSUME LoadForUpdate(p, v) \/ CountBookings(p, v) \/ ReadPending(p, v) PROVE Held
  BY <1>1, <1>2 DEF LoadForUpdate, CountBookings, ReadPending
<1>3. ASSUME LoadForDefault(p, v) PROVE Held
  BY <1>3, Begins DEF LoadForDefault
<1>4. ASSUME NEW what \in Dependent, LoadForChild(p, v, what) PROVE Held
  BY <1>4, Begins DEF LoadForChild
<1> QED
  BY <1>2, <1>3, <1>4

\* Steps between a request's first and its last that only read, or fail.
LEMMA LooksHold ==
    ASSUME TypeOK, NEW p \in Request,
           \/ RefuseSlug(p) \/ RefuseLimits(p) \/ FindRemaining(p) \/ Fail(p)
           \/ \E s \in Slug : ChooseSlug(p, s) \/ CheckSlugFree(p, s) \/ RefuseNewSlug(p, s)
           \/ \E o \in Owner : CountVenues(p, o)
    PROVE  /\ UNCHANGED <<today, whole, venue, slugHistory, attached, booked, files, uploads, slugChanges>>
           /\ request'[p].pc \in {"idle", "name", "insert", "limits", "promote"}
<1> DEFINE Held == /\ UNCHANGED <<today, whole, venue, slugHistory, attached, booked, files, uploads, slugChanges>>
                   /\ request'[p].pc \in {"idle", "name", "insert", "limits", "promote"}
<1>1. ASSUME Fail(p) PROVE Held
  BY <1>1, Fails DEF Idle
<1>2. ASSUME RefuseSlug(p) \/ RefuseLimits(p) \/ \E s \in Slug : RefuseNewSlug(p, s) PROVE Held
  BY <1>1, <1>2 DEF RefuseSlug, RefuseLimits, RefuseNewSlug
<1>3. ASSUME FindRemaining(p) PROVE Held
  <2>1. ASSUME NEW v, ReadOnly(p, [pc |-> "promote", id |-> v, row |-> venue[v]]) PROVE Held
    BY <2>1, Reads
  <2> QED
    BY <1>1, <1>3, <2>1 DEF FindRemaining
<1>4. ASSUME NEW s \in Slug, ChooseSlug(p, s) \/ CheckSlugFree(p, s) PROVE Held
  BY <1>4, Reads DEF ChooseSlug, CheckSlugFree
<1>5. ASSUME NEW o \in Owner, CountVenues(p, o) PROVE Held
  BY <1>5, Begins DEF CountVenues
<1> QED
  BY <1>1, <1>2, <1>3, <1>4, <1>5

\* What saves of a row leave behind.
LEMMA SavesHold ==
    ASSUME TypeOK, NEW p \in Request,
           \/ \E h \in BOOLEAN : SaveUpdate(p, h)
           \/ SaveLogo(p) \/ Promote(p) \/ \E v \in Venue : InsertVenue(p, v)
    PROVE  /\ UNCHANGED <<today, whole, slugHistory, attached, booked, files, uploads, slugChanges>>
           /\ request'[p].pc \in {"idle", "unlink"}
<1> DEFINE Held == /\ UNCHANGED <<today, whole, slugHistory, attached, booked, files, uploads, slugChanges>>
                   /\ request'[p].pc \in {"idle", "unlink"}
<1>1. ASSUME NEW v, NEW row, NEW next, Save(p, v, row, next), next.pc \in {"idle", "unlink"} PROVE Held
  BY <1>1, Saves DEF Idle
<1>2. ASSUME NEW h \in BOOLEAN, SaveUpdate(p, h) PROVE Held
  BY <1>1, <1>2 DEF SaveUpdate, Idle
<1>3. ASSUME Promote(p) PROVE Held
  BY <1>1, <1>3 DEF Promote, Idle
<1>4. ASSUME SaveLogo(p) PROVE Held
  BY <1>1, <1>4 DEF SaveLogo
<1>5. ASSUME NEW v \in Venue, InsertVenue(p, v) PROVE Held
  BY <1>1, <1>5 DEF InsertVenue, Idle
<1> QED
  BY <1>2, <1>3, <1>4, <1>5

\* uploadLogo begins with a file on disk.
LEMMA UploadHolds ==
    ASSUME TypeOK, NEW p \in Request, NEW v \in Venue, LoadForLogo(p, v)
    PROVE  /\ request[p] = Idle /\ request'[p].pc = "logo" /\ request'[p].logo = uploads + 1
           /\ request'[p].id = v /\ request'[p].row = venue[v]
           /\ files' = files \cup {uploads + 1} /\ uploads' = uploads + 1
           /\ UNCHANGED <<today, whole, venue, slugHistory, attached, booked, slugChanges>>
<1> DEFINE next == [pc |-> "logo", id |-> v, row |-> venue[v], logo |-> uploads + 1]
<1>1. request' = [request EXCEPT ![p] = next]
  BY DEF LoadForLogo
<1>2. next.pc = "logo" /\ next.id = v /\ next.row = venue[v] /\ next.logo = uploads + 1
  OBVIOUS
<1> HIDE DEF next
<1>3. request'[p] = next
  BY <1>1 DEF TypeOK
<1> QED
  BY <1>2, <1>3 DEF LoadForLogo, history

-----------------------------------------------------------------------------
\* No two venues share a slug: the unique index of the table.
SlugsDiffer ==
    \A u, v \in Venue : u # v /\ Exists(u) /\ Exists(v) => venue[u].slug # venue[v].slug

\* save and the transaction of changeSlug are refused otherwise.
LEMMA SlugsStayDifferent ==
    ASSUME TypeOK, SlugsDiffer, [Next]_vars
    PROVE  SlugsDiffer'
<1>1. ASSUME UNCHANGED venue PROVE SlugsDiffer'
  BY <1>1 DEF SlugsDiffer, Exists
<1>2. ASSUME NEW v \in Venue, NEW row, venue' = [venue EXCEPT ![v] = row], ~ SlugTakenByOther(row.slug, v)
      PROVE  SlugsDiffer'
  <2>1. venue'[v] = row /\ \A u \in Venue \ {v} : venue'[u] = venue[u]
    BY <1>2 DEF TypeOK
  <2> QED
    BY <1>2, <2>1 DEF SlugsDiffer, Exists, SlugTakenByOther
<1>3. ASSUME NEW p \in Request, NEW v \in Venue, NEW row, NEW next, Save(p, v, row, next) PROVE SlugsDiffer'
  BY <1>1, <1>2, <1>3, Saves
<1>4. ASSUME NEW p \in Request, OwnerStep(p) PROVE SlugsDiffer'
  <2>1. CASE SetDefault(p)
    <3>1. \A v \in Venue : venue'[v].slug = venue[v].slug /\ venue'[v].status = venue[v].status
      BY <2>1 DEF SetDefault, TypeOK, VenueRow
    <3> QED
      BY <3>1 DEF SlugsDiffer, Exists
  <2>2. CASE DeleteVenue(p)
    <3>1. \A v \in Venue : venue'[v].slug = venue[v].slug /\ venue'[v].status \in {"removed", venue[v].status}
      BY <2>2 DEF DeleteVenue, TypeOK, VenueRow
    <3> QED
      BY <3>1 DEF SlugsDiffer, Exists, VenueStatus
  <2>3. ASSUME NEW h \in BOOLEAN, SaveSlug(p, h) PROVE SlugsDiffer'
    <3>1. request[p].id \in Venue
      BY <2>3, HeldTypes DEF SaveSlug, At, HoldsRow
    <3>2. CASE Fail(p)
      BY <1>1, <3>2, Fails
    <3> QED
      BY <1>2, <2>3, <3>1, <3>2 DEF SaveSlug
  <2>4. ASSUME NEW h \in BOOLEAN, SaveUpdate(p, h) PROVE SlugsDiffer'
    BY <1>3, <2>4, HeldTypes DEF SaveUpdate, At, HoldsRow
  <2>5. CASE Promote(p) \/ SaveLogo(p)
    BY <1>3, <2>5, HeldTypes DEF Promote, SaveLogo, At, HoldsRow
  <2>6. ASSUME NEW v \in Venue, InsertVenue(p, v) PROVE SlugsDiffer'
    BY <1>3, <2>6 DEF InsertVenue
  <2>7. ASSUME NEW v \in Venue, LoadForUpdate(p, v) \/ CountBookings(p, v) \/ LoadForDefault(p, v) \/ LoadForLogo(p, v)
                 \/ \E what \in Dependent : LoadForChild(p, v, what)
        PROVE SlugsDiffer'
    BY <1>1, <2>7, Begins DEF LoadForUpdate, CountBookings, LoadForDefault, LoadForLogo, LoadForChild, Load
  <2>8. CASE RefuseSlug(p) \/ RefuseLimits(p) \/ CheckLimits(p) \/ FindRemaining(p) \/ \E s \in Slug : ChooseSlug(p, s) \/ CheckSlugFree(p, s) \/ RefuseNewSlug(p, s)
    BY <1>1, <2>8, Fails, Reads DEF RefuseSlug, RefuseLimits, CheckLimits, FindRemaining, ChooseSlug, CheckSlugFree, RefuseNewSlug
  <2>9. CASE RecordChange(p) \/ UnlinkLogo(p) \/ SaveChild(p)
    BY <1>1, <2>9 DEF RecordChange, UnlinkLogo, SaveChild
  <2>10. ASSUME NEW o \in Owner, CountVenues(p, o) PROVE SlugsDiffer'
    BY <1>1, <2>10, Begins DEF CountVenues
  <2> QED
    BY <1>4, <2>1, <2>2, <2>3, <2>4, <2>5, <2>6, <2>7, <2>8, <2>9, <2>10 DEF OwnerStep
<1>5. ASSUME NEW p \in Request, AdminStep(p) PROVE SlugsDiffer'
  <2>1. ASSUME NEW v \in Venue, ReadPending(p, v) PROVE SlugsDiffer'
    BY <1>1, <2>1, Begins DEF ReadPending, Load
  <2>2. CASE SaveDecision(p)
    <3>1. request[p].id \in Venue
      BY <2>2, HeldTypes DEF SaveDecision, At, HoldsRow
    <3>2. CASE Fail(p)
      BY <1>1, <3>2, Fails
    <3> QED
      BY <1>2, <2>2, <3>1, <3>2 DEF SaveDecision
  <2> QED
    BY <1>5, <2>1, <2>2 DEF AdminStep
<1>6. CASE Tick \/ Restart \/ UNCHANGED vars \/ \E v \in Venue : Book(v)
  BY <1>1, <1>6 DEF Tick, Restart, Book, vars, tables
<1> QED
  BY <1>4, <1>5, <1>6 DEF Next, Request

-----------------------------------------------------------------------------
\* No venue of o is the default one.
NoDefault(o) == \A v \in OwnedBy(o) : ~ venue[v].isDefault

\* What a request plans about the default venue is true of the table.
PlansDefault(p) ==
    /\ request[p].pc \in {"name", "insert"} => request[p].isDefault = (OwnedBy(request[p].owner) = {})
    /\ At(p, "reassign") => NoDefault(request[p].owner)
    /\ At(p, "promote") => NoDefault(request[p].row.owner)

\* No owner has two default venues.
DefaultsDiffer == \A o \in Owner : \A u, v \in Defaults(o) : u = v

\* A request that removed the default venue of o is on its way to the next one.
Restoring(p, o) ==
    \/ At(p, "reassign") /\ request[p].owner = o
    \/ At(p, "promote") /\ request[p].row.owner = o

\* An owner without a default venue has none, or is about to get it back.
OwnersHaveDefaults ==
    \A o \in Owner : OwnedBy(o) # {} /\ NoDefault(o) => \E p \in Request : Restoring(p, o)

\* What OneDefault needs to be inductive.
DefaultsAreKept ==
    alone => /\ DefaultsDiffer
             /\ \A p \in Request : PlansDefault(p)
             /\ whole => OwnersHaveDefaults

\* The same venues, of the same owners, are default ones.
SameDefaults ==
    \A v \in Venue : /\ Exists(v)' <=> Exists(v)
                     /\ Exists(v) => venue'[v].owner = venue[v].owner /\ venue'[v].isDefault = venue[v].isDefault

\* A row saved with the owner and the flag it had.
LEMMA RewriteKeepsDefaults ==
    ASSUME TypeOK, NEW v \in Venue, Exists(v), NEW row,
           venue' = venue \/ venue' = [venue EXCEPT ![v] = row],
           row.status \in VenueStatus, row.owner = venue[v].owner, row.isDefault = venue[v].isDefault
    PROVE  SameDefaults
BY DEF SameDefaults, Exists, TypeOK

\* What is said of an owner's venues then stays.
LEMMA SameDefaultsMeans ==
    ASSUME TypeOK, SameDefaults
    PROVE  \A o : /\ OwnedBy(o)' = OwnedBy(o)
                  /\ NoDefault(o)' <=> NoDefault(o)
                  /\ Defaults(o)' = Defaults(o)
BY DEF SameDefaults, OwnedBy, NoDefault, Defaults

\* A step that changes no default, and whose request still plans what is true.
LEMMA QuietKeepsDefaults ==
    ASSUME TypeOK, AloneIsCurrent, DefaultsAreKept, NEW p \in Request, alone, Others(p),
           SameDefaults, whole' => whole, PlansDefault(p)',
           \A o \in Owner : Restoring(p, o) => OwnedBy(o) = {} \/ Restoring(p, o)'
    PROVE  DefaultsAreKept'
<1>1. DefaultsDiffer'
  BY SameDefaultsMeans DEF DefaultsAreKept, DefaultsDiffer
<1>2. \A q \in Request : PlansDefault(q)'
  BY DEF Others, PlansDefault, Idle, At
<1>3. \A q \in Request \ {p} : \A o : ~ Restoring(q, o)
  BY DEF Restoring, Others, At, Idle
<1>4. whole' => OwnersHaveDefaults'
  BY SameDefaultsMeans, <1>3 DEF DefaultsAreKept, OwnersHaveDefaults
<1> QED
  BY <1>1, <1>2, <1>4 DEF DefaultsAreKept

\* create, setDefault, remove and the promotion after it, and all the rest.
LEMMA StepKeepsDefaults ==
    ASSUME TypeOK, AloneIsCurrent, SlugsDiffer, DefaultsAreKept, NEW p \in Request, OwnerStep(p) \/ AdminStep(p)
    PROVE  DefaultsAreKept'
<1> SUFFICES ASSUME alone' PROVE DefaultsAreKept'
  BY DEF DefaultsAreKept
<1>1. alone /\ Others(p) /\ HeldIsCurrent(p) /\ PlansDefault(p)
  BY StepOfOne DEF AloneIsCurrent, DefaultsAreKept
<1> USE DEF HoldsRow, At
<1>i. Idle.pc = "idle"
  BY DEF Idle
<1>2. ASSUME SameDefaults, whole' = whole, request[p].pc \notin {"reassign", "promote"},
             request'[p].pc \notin {"name", "insert", "reassign", "promote"}
      PROVE  DefaultsAreKept'
  BY <1>1, <1>2, QuietKeepsDefaults DEF PlansDefault, Restoring
<1>3. ASSUME venue' = venue PROVE SameDefaults
  BY <1>3 DEF SameDefaults, Exists
<1>4. ASSUME NEW o \in Owner, CountVenues(p, o) PROVE DefaultsAreKept'
  <2>1. /\ request[p] = Idle /\ request'[p] = [pc |-> "name", owner |-> o, isDefault |-> OwnedBy(o) = {}]
        /\ SameDefaults /\ whole' = whole
    BY <1>4, <1>3, Begins DEF CountVenues
  <2>2. PlansDefault(p)'
    BY <2>1, SameDefaultsMeans DEF PlansDefault
  <2> QED
    BY <1>1, <1>i, <2>1, <2>2, QuietKeepsDefaults DEF Restoring
<1>5. ASSUME NEW s \in Slug, ChooseSlug(p, s) PROVE DefaultsAreKept'
  <2>1. /\ request[p].pc = "name"
        /\ request'[p] = [pc |-> "insert", owner |-> request[p].owner, isDefault |-> request[p].isDefault, slug |-> s]
        /\ SameDefaults /\ whole' = whole
    BY <1>5, <1>3, Reads DEF ChooseSlug
  <2>2. PlansDefault(p)'
    BY <1>1, <2>1, SameDefaultsMeans DEF PlansDefault
  <2> QED
    BY <1>1, <2>1, <2>2, QuietKeepsDefaults DEF Restoring
<1>6. CASE Fail(p) /\ request[p].pc \notin {"reassign", "promote"}
  BY <1>2, <1>3, <1>6, <1>i, Fails
<1>7. CASE CheckLimits(p) \/ RecordChange(p) \/ UnlinkLogo(p) \/ SaveChild(p) \/ \E s \in Slug : CheckSlugFree(p, s)
  <2>1. venue' = venue /\ whole' = whole /\ request[p].pc \notin {"reassign", "promote"}
    BY <1>7, Reads, Goes DEF CheckLimits, RecordChange, UnlinkLogo, SaveChild, CheckSlugFree
  <2>2. request[p] \in Progress
    BY DEF TypeOK
  <2>3. PICK next : request'[p] = next /\ next.pc \in {"record", "rename", "idle", "limits"}
    <3>1. CASE CheckLimits(p) \/ RecordChange(p)
      <4>1. request[p].pc \in {"limits", "record"}
        BY <3>1 DEF CheckLimits, RecordChange
      <4>2. [request[p] EXCEPT !.pc = "record"].pc = "record" /\ [request[p] EXCEPT !.pc = "rename"].pc = "rename"
        BY <2>2, <4>1 DEF Progress, Holding, Idle
      <4> QED
        BY <3>1, <4>2, Reads, Goes DEF CheckLimits, RecordChange
    <3>2. CASE UnlinkLogo(p) \/ SaveChild(p)
      BY <1>i, <3>2, Goes DEF UnlinkLogo, SaveChild
    <3>3. ASSUME NEW s \in Slug, CheckSlugFree(p, s) PROVE \E next : request'[p] = next /\ next.pc = "limits"
      BY <3>3, Reads DEF CheckSlugFree
    <3> QED
      BY <1>7, <3>1, <3>2, <3>3
  <2> QED
    BY <1>2, <1>3, <2>1, <2>3
<1>8. ASSUME NEW v \in Venue,
             \/ LoadForUpdate(p, v) \/ CountBookings(p, v) \/ LoadForDefault(p, v) \/ ReadPending(p, v)
             \/ \E what \in Dependent : LoadForChild(p, v, what)
      PROVE  DefaultsAreKept'
  <2>1. /\ request[p] = Idle /\ venue' = venue /\ whole' = whole
        /\ request'[p].pc \in {"update", "counted", "setDefault", "approve", "reject", "attach", "detach"}
    BY <1>8, LoadsHold
  <2> QED
    BY <1>2, <1>3, <1>i, <2>1
<1>9. ASSUME NEW v \in Venue, LoadForLogo(p, v) PROVE DefaultsAreKept'
  BY <1>2, <1>3, <1>9, <1>i, UploadHolds
<1>10. ASSUME NEW row, NEW next, Save(p, request[p].id, row, next), request[p].pc \in HoldsRow \ {"promote"},
              row.status \in VenueStatus, row.owner = request[p].row.owner,
              row.isDefault = request[p].row.isDefault, next.pc \in {"idle", "unlink"}
       PROVE  DefaultsAreKept'
  <2>1. request[p].id \in Venue /\ Exists(request[p].id) /\ request[p].row = venue[request[p].id]
    BY <1>1, <1>10, HeldTypes DEF HeldIsCurrent
  <2>2. whole' = whole /\ request'[p].pc \in {"idle", "unlink"}
        /\ (venue' = venue \/ venue' = [venue EXCEPT ![request[p].id] = row])
    BY <1>10, <1>i, Saves
  <2>3. SameDefaults
    BY <1>10, <2>1, <2>2, RewriteKeepsDefaults
  <2> QED
    BY <1>2, <1>10, <2>2, <2>3
<1>11. ASSUME NEW h \in BOOLEAN, SaveUpdate(p, h) PROVE DefaultsAreKept'
  <2> DEFINE row == [request[p].row EXCEPT !.isHidden = h]
  <2>1. request[p].row \in VenueRow /\ Exists(request[p].id) /\ request[p].row = venue[request[p].id]
    BY <1>1, <1>11, HeldTypes DEF SaveUpdate, HeldIsCurrent
  <2>2. row.status \in VenueStatus /\ row.owner = request[p].row.owner /\ row.isDefault = request[p].row.isDefault
    BY <2>1 DEF VenueRow, Exists
  <2>3. Save(p, request[p].id, row, Idle) /\ request[p].pc = "update"
    BY <1>11 DEF SaveUpdate
  <2> HIDE DEF row
  <2> QED
    BY <1>10, <1>i, <2>2, <2>3
<1>12. CASE SaveLogo(p)
  <2> DEFINE row == [request[p].row EXCEPT !.logo = request[p].logo]
             next == [pc |-> "unlink", old |-> request[p].row.logo]
  <2>1. request[p].row \in VenueRow /\ Exists(request[p].id) /\ request[p].row = venue[request[p].id]
    BY <1>1, <1>12, HeldTypes DEF SaveLogo, HeldIsCurrent
  <2>2. row.status \in VenueStatus /\ row.owner = request[p].row.owner /\ row.isDefault = request[p].row.isDefault
    BY <2>1 DEF VenueRow, Exists
  <2>3. Save(p, request[p].id, row, next) /\ request[p].pc = "logo" /\ next.pc = "unlink"
    BY <1>12 DEF SaveLogo
  <2> HIDE DEF row, next
  <2> QED
    BY <1>10, <2>2, <2>3
<1>13. ASSUME NEW h \in BOOLEAN, SaveSlug(p, h) PROVE DefaultsAreKept'
  <2> DEFINE row == [request[p].row EXCEPT !.slug = request[p].slug, !.isHidden = h]
  <2>1. request[p].row \in VenueRow /\ request[p].id \in Venue /\ Exists(request[p].id) /\ request[p].row = venue[request[p].id]
    BY <1>1, <1>13, HeldTypes DEF SaveSlug, HeldIsCurrent
  <2>2. row.status \in VenueStatus /\ row.owner = request[p].row.owner /\ row.isDefault = request[p].row.isDefault
    BY <2>1 DEF VenueRow, Exists
  <2>3. Fail(p) \/ (venue' = [venue EXCEPT ![request[p].id] = row] /\ GoTo(p, Idle))
    BY <1>13 DEF SaveSlug
  <2>4. request[p].pc = "rename"
    BY <1>13 DEF SaveSlug
  <2> HIDE DEF row
  <2>5. CASE venue' = [venue EXCEPT ![request[p].id] = row] /\ GoTo(p, Idle)
    <3>1. SameDefaults
      BY <2>1, <2>2, <2>5, RewriteKeepsDefaults
    <3> QED
      BY <1>2, <1>i, <2>4, <2>5, <3>1, Goes
  <2> QED
    BY <1>6, <2>3, <2>4, <2>5
<1>14. CASE SaveDecision(p)
  <2> DEFINE row == [request[p].row EXCEPT !.status = Decision(p)]
  <2>1. request[p].row \in VenueRow /\ request[p].id \in Venue /\ Exists(request[p].id) /\ request[p].row = venue[request[p].id]
    BY <1>1, <1>14, HeldTypes DEF SaveDecision, HeldIsCurrent
  <2>2. row.status \in VenueStatus /\ row.owner = request[p].row.owner /\ row.isDefault = request[p].row.isDefault
    BY <2>1 DEF VenueRow, VenueStatus, Decision
  <2>3. Fail(p) \/ (venue' = [venue EXCEPT ![request[p].id] = row] /\ GoTo(p, Idle))
    BY <1>14 DEF SaveDecision
  <2>4. request[p].pc \in {"approve", "reject"}
    BY <1>14 DEF SaveDecision
  <2> HIDE DEF row
  <2>5. CASE venue' = [venue EXCEPT ![request[p].id] = row] /\ GoTo(p, Idle)
    <3>1. SameDefaults
      BY <2>1, <2>2, <2>5, RewriteKeepsDefaults
    <3> QED
      BY <1>2, <1>i, <2>4, <2>5, <3>1, Goes
  <2> QED
    BY <1>6, <2>3, <2>4, <2>5
<1>15. CASE FindRemaining(p)
  <2> DEFINE o == request[p].owner
  <2>1. request[p].pc = "reassign" /\ NoDefault(o) /\ o \in Owner
    BY <1>1, <1>15, HeldTypes DEF FindRemaining, PlansDefault
  <2>2. CASE OwnedBy(o) = {} /\ Fail(p)
    <3>1. SameDefaults /\ whole' = whole /\ request'[p].pc = "idle"
      BY <1>3, <1>i, <2>2, Fails
    <3>2. PlansDefault(p)'
      BY <3>1 DEF PlansDefault
    <3> QED
      BY <1>1, <2>1, <2>2, <3>1, <3>2, QuietKeepsDefaults DEF Restoring
  <2>3. ASSUME NEW v \in OwnedBy(o), ReadOnly(p, [pc |-> "promote", id |-> v, row |-> venue[v]])
        PROVE  DefaultsAreKept'
    <3>1. SameDefaults /\ whole' = whole /\ request'[p].pc = "promote" /\ request'[p].row = venue[v]
      BY <1>3, <2>3, Reads
    <3>2. venue[v].owner = o
      BY DEF OwnedBy
    <3>3. PlansDefault(p)'
      BY <2>1, <3>1, <3>2, SameDefaultsMeans DEF PlansDefault
    <3> QED
      BY <1>1, <2>1, <3>1, <3>2, <3>3, QuietKeepsDefaults DEF Restoring
  <2> QED
    BY <1>15, <2>2, <2>3 DEF FindRemaining
<1>16. ASSUME DefaultsDiffer', request'[p] = Idle \/ PlansDefault(p)',
              whole' = whole,
              whole => \A o \in Owner : OwnedBy(o)' # {} /\ NoDefault(o)' => Restoring(p, o)'
       PROVE  DefaultsAreKept'
  <2>1. \A q \in Request : PlansDefault(q)'
    BY <1>1, <1>16, <1>i DEF Others, PlansDefault
  <2> QED
    BY <2>1, <1>16 DEF DefaultsAreKept, OwnersHaveDefaults
<1>17. CASE SetDefault(p)
  <2> DEFINE c == request[p].id
  <2>0. PICK o \in Owner : o = request[p].owner
    BY <1>17, HeldTypes DEF SetDefault
  <2>1. c \in Venue /\ Exists(c) /\ o = venue[c].owner /\ request[p].pc = "setDefault" /\ o \in Owner
    BY <1>1, <1>17, <2>0, HeldTypes DEF SetDefault, HeldIsCurrent
  <2>2. \A v \in Venue : /\ venue'[v].status = venue[v].status /\ venue'[v].owner = venue[v].owner
                         /\ Exists(v) => venue'[v].isDefault = DefaultFlag(venue[v], v, c, o)
    BY <1>17, <2>0 DEF SetDefault, TypeOK, VenueRow
  <2>3. request'[p] = Idle /\ whole' = whole
    BY <1>17, Goes DEF SetDefault
  <2> HIDE DEF c
  <2>4. \A x : OwnedBy(x)' = OwnedBy(x)
    BY <2>2 DEF OwnedBy, Exists
  <2>5. Defaults(o)' = {c}
    BY <2>1, <2>2, <2>4 DEF Defaults, OwnedBy, DefaultFlag
  <2>6. \A x \in Owner \ {o} : Defaults(x)' = Defaults(x)
    BY <2>1, <2>2, <2>4 DEF Defaults, OwnedBy, DefaultFlag
  <2>7. DefaultsDiffer'
    BY <1>1, <2>5, <2>6 DEF DefaultsDiffer, DefaultsAreKept
  <2>8. \A x : NoDefault(x) <=> Defaults(x) = {}
    BY DEF NoDefault, Defaults
  <2>9. \A x : NoDefault(x)' <=> Defaults(x)' = {}
    BY DEF NoDefault, Defaults
  <2>10. \A q \in Request : \A x : ~ Restoring(q, x)
    BY <1>1, <1>i, <1>17 DEF Restoring, Others, SetDefault
  <2>11. whole => \A x \in Owner : ~ (OwnedBy(x)' # {} /\ NoDefault(x)')
    BY <1>1, <2>4, <2>5, <2>6, <2>8, <2>9, <2>10 DEF DefaultsAreKept, OwnersHaveDefaults
  <2> QED
    BY <1>16, <2>3, <2>7, <2>11
<1>18. CASE DeleteVenue(p)
  <2> DEFINE d == request[p].id
             row == request[p].row
  <2>1. d \in Venue /\ Exists(d) /\ row = venue[d] /\ request[p].pc = "counted" /\ row \in VenueRow
    BY <1>1, <1>18, HeldTypes DEF DeleteVenue, HeldIsCurrent
  <2>2. /\ venue'[d].status = "removed"
        /\ \A v \in Venue \ {d} : venue'[v] = venue[v]
        /\ venue' = [venue EXCEPT ![d].status = "removed"]
    BY <1>18, <2>1 DEF DeleteVenue, TypeOK, VenueRow
  <2>3. /\ whole' = whole
        /\ request'[p] = IF row.isDefault THEN [pc |-> "reassign", owner |-> row.owner] ELSE Idle
    BY <1>18, Goes DEF DeleteVenue
  <2> HIDE DEF d, row
  <2>4. \A x : OwnedBy(x)' = OwnedBy(x) \ {d}
    BY <2>1, <2>2 DEF OwnedBy, Exists, VenueStatus
  <2>5. \A x : Defaults(x)' = Defaults(x) \ {d}
    BY <2>2, <2>4 DEF Defaults, OwnedBy
  <2>6. \A x : (NoDefault(x) <=> Defaults(x) = {})
    BY DEF NoDefault, Defaults
  <2>13. \A x : (NoDefault(x)' <=> Defaults(x)' = {})
    BY DEF NoDefault, Defaults
  <2>7. DefaultsDiffer'
    BY <1>1, <2>5 DEF DefaultsDiffer, DefaultsAreKept
  <2>8. \A q \in Request : \A x : ~ Restoring(q, x)
    BY <1>1, <1>i, <2>1 DEF Restoring, Others
  <2>9. \A x : d \in Defaults(x) <=> (x = row.owner /\ row.isDefault)
    BY <2>1 DEF Defaults, OwnedBy
  <2>10. PICK o \in Owner : o = row.owner
    BY <2>1 DEF VenueRow
  <2>11. CASE row.isDefault
    <3>1. request'[p].pc = "reassign" /\ request'[p].owner = o
      BY <2>3, <2>10, <2>11
    <3>2. Defaults(o)' = {}
      BY <1>1, <2>5, <2>9, <2>10, <2>11 DEF DefaultsAreKept, DefaultsDiffer
    <3>3. PlansDefault(p)'
      BY <2>13, <3>1, <3>2 DEF PlansDefault
    <3>4. whole => \A x \in Owner : OwnedBy(x)' # {} /\ NoDefault(x)' => x = o
      BY <1>1, <2>4, <2>5, <2>6, <2>13, <2>8, <2>9, <2>10 DEF DefaultsAreKept, OwnersHaveDefaults
    <3>5. whole => \A x \in Owner : OwnedBy(x)' # {} /\ NoDefault(x)' => Restoring(p, x)'
      BY <3>1, <3>4 DEF Restoring
    <3> QED
      BY <1>16, <2>3, <2>7, <3>3, <3>5
  <2>12. CASE ~ row.isDefault
    <3>1. whole => \A x \in Owner : ~ (OwnedBy(x)' # {} /\ NoDefault(x)')
      BY <1>1, <2>4, <2>5, <2>6, <2>13, <2>8, <2>9, <2>12 DEF DefaultsAreKept, OwnersHaveDefaults
    <3> QED
      BY <1>16, <2>3, <2>7, <2>12, <3>1
  <2> QED
    BY <2>11, <2>12
<1>19. CASE Promote(p)
  <2> DEFINE c == request[p].id
             row == [request[p].row EXCEPT !.isDefault = TRUE]
  <2>0. PICK o \in Owner : o = request[p].row.owner
    BY <1>19, HeldTypes DEF Promote, VenueRow
  <2>1. c \in Venue /\ Exists(c) /\ request[p].row = venue[c] /\ request[p].row \in VenueRow /\ NoDefault(o)
        /\ request[p].pc = "promote"
    BY <1>1, <1>19, <2>0, HeldTypes DEF Promote, HeldIsCurrent, PlansDefault
  <2>2. row.status \in VenueStatus /\ row.owner = o /\ row.isDefault /\ row.slug = venue[c].slug
    BY <2>0, <2>1 DEF VenueRow, Exists
  <2>3. Save(p, c, row, Idle)
    BY <1>19 DEF Promote
  <2>4. ~ SlugTakenByOther(row.slug, c)
    BY <2>1, <2>2 DEF SlugTakenByOther, SlugsDiffer
  <2> HIDE DEF c, row
  <2>5. venue' = [venue EXCEPT ![c] = row] /\ request'[p] = Idle /\ whole' = whole
    BY <2>3, <2>4, Saves
  <2>6. venue'[c] = row /\ \A v \in Venue \ {c} : venue'[v] = venue[v]
    BY <2>1, <2>5 DEF TypeOK
  <2>7. venue[c].owner = o
    BY <2>0, <2>1
  <2>8. \A x : OwnedBy(x)' = OwnedBy(x)
    BY <2>1, <2>2, <2>6, <2>7 DEF OwnedBy, Exists
  <2>9. Defaults(o)' = {c}
    BY <2>1, <2>2, <2>6, <2>7, <2>8 DEF Defaults, OwnedBy, NoDefault
  <2>10. \A x \in Owner \ {o} : Defaults(x)' = Defaults(x)
    BY <2>1, <2>2, <2>6, <2>7, <2>8 DEF Defaults, OwnedBy
  <2>11. DefaultsDiffer'
    BY <1>1, <2>9, <2>10 DEF DefaultsDiffer, DefaultsAreKept
  <2>12. \A x : (NoDefault(x) <=> Defaults(x) = {})
    BY DEF NoDefault, Defaults
  <2>13. \A x : (NoDefault(x)' <=> Defaults(x)' = {})
    BY DEF NoDefault, Defaults
  <2>14. \A q \in Request : \A x : Restoring(q, x) => x = o
    BY <1>1, <1>i, <2>0, <2>1 DEF Restoring, Others
  <2>15. whole => \A x \in Owner : ~ (OwnedBy(x)' # {} /\ NoDefault(x)')
    BY <1>1, <2>8, <2>9, <2>10, <2>12, <2>13, <2>14 DEF DefaultsAreKept, OwnersHaveDefaults
  <2> QED
    BY <1>16, <2>5, <2>11, <2>15
<1>20. ASSUME NEW v \in Venue, InsertVenue(p, v) PROVE DefaultsAreKept'
  <2>0. PICK o \in Owner : o = request[p].owner
    BY <1>20, HeldTypes DEF InsertVenue
  <2> DEFINE row == [status |-> "pending_approval", owner |-> o,
                     isDefault |-> request[p].isDefault, isHidden |-> FALSE,
                     slug |-> request[p].slug, logo |-> NoLogo]
  <2>1. /\ ~ Exists(v) /\ request[p].pc = "insert"
        /\ request[p].isDefault = (OwnedBy(o) = {})
    BY <1>1, <1>20, <2>0, HeldTypes DEF InsertVenue, Exists, VenueStatus, PlansDefault
  <2>2. row.status \in VenueStatus /\ row.owner = o /\ row.isDefault = request[p].isDefault
    BY DEF VenueStatus
  <2>3. Save(p, v, row, Idle)
    BY <1>20, <2>0 DEF InsertVenue
  <2> HIDE DEF row
  <2>4. \/ venue' = venue /\ request'[p] = Idle /\ whole' = whole
        \/ venue' = [venue EXCEPT ![v] = row] /\ request'[p] = Idle /\ whole' = whole
    BY <2>3, Saves
  <2>5. CASE venue' = venue
    BY <1>2, <1>3, <1>i, <2>1, <2>4, <2>5
  <2>6. CASE venue' = [venue EXCEPT ![v] = row]
    <3>1. venue'[v] = row /\ \A u \in Venue \ {v} : venue'[u] = venue[u]
      BY <2>6 DEF TypeOK
    <3>2. OwnedBy(o)' = OwnedBy(o) \cup {v} /\ \A x \in Owner \ {o} : OwnedBy(x)' = OwnedBy(x)
      BY <2>1, <2>2, <3>1 DEF OwnedBy, Exists
    <3>3. \A x \in Owner \ {o} : Defaults(x)' = Defaults(x)
      BY <2>1, <2>2, <3>1, <3>2 DEF Defaults, OwnedBy
    <3>4. Defaults(o)' = IF OwnedBy(o) = {} THEN {v} ELSE Defaults(o)
      BY <2>1, <2>2, <3>1, <3>2 DEF Defaults, OwnedBy
    <3>5. DefaultsDiffer'
      BY <1>1, <2>1, <3>3, <3>4 DEF DefaultsDiffer, DefaultsAreKept
    <3>6. \A x : (NoDefault(x) <=> Defaults(x) = {})
      BY DEF NoDefault, Defaults
    <3>7. \A x : (NoDefault(x)' <=> Defaults(x)' = {})
      BY DEF NoDefault, Defaults
    <3>8. \A q \in Request : \A x : ~ Restoring(q, x)
      BY <1>1, <1>i, <2>1 DEF Restoring, Others
    <3>9. whole => \A x \in Owner : ~ (OwnedBy(x)' # {} /\ NoDefault(x)')
      BY <1>1, <3>2, <3>3, <3>4, <3>6, <3>7, <3>8 DEF DefaultsAreKept, OwnersHaveDefaults
    <3> QED
      BY <1>16, <2>4, <3>5, <3>9
  <2> QED
    BY <2>4, <2>5, <2>6
<1>21. CASE RefuseSlug(p) \/ RefuseLimits(p) \/ \E s \in Slug : RefuseNewSlug(p, s)
  BY <1>6, <1>21 DEF RefuseSlug, RefuseLimits, RefuseNewSlug
<1> QED
  BY <1>4, <1>5, <1>7, <1>8, <1>9, <1>11, <1>12, <1>13, <1>14, <1>15, <1>17, <1>18, <1>19, <1>20, <1>21
  DEF OwnerStep, AdminStep

\* A set without two elements has at most one.
LEMMA AtMostOneCounts ==
    ASSUME NEW S, \A u, v \in S : u = v
    PROVE  Cardinality(S) <= 1
<1>1. CASE S = {}
  BY <1>1, FS_EmptySet
<1>2. ASSUME NEW x \in S PROVE Cardinality(S) <= 1
  <2>1. S = {x}
    OBVIOUS
  <2> QED
    BY <2>1, FS_Singleton
<1> QED
  BY <1>1, <1>2

-----------------------------------------------------------------------------
\* Days of changes that keep the limits.
SpacedOut(days) ==
    \A i, j \in DOMAIN days :
        i < j => /\ days[j] - days[i] >= MinGap
                 /\ j - i >= MaxChanges => days[j] - days[i] > Window

\* Every change of v's slug is in the history table, with n rows after the last.
Recorded(v, n) ==
    \A i \in DOMAIN slugChanges[v] : \E k \in DOMAIN slugHistory[v] :
        /\ slugHistory[v][k] = slugChanges[v][i]
        /\ Len(slugHistory[v]) - k >= Len(slugChanges[v]) - i + n

\* A day on which the limits let a slug change is far enough from all before.
LEMMA LimitsSpaceOut ==
    ASSUME NEW days \in Seq(Nat), NEW day \in Nat, SpacedOut(days), WithinLimits(days, day)
    PROVE  SpacedOut(Append(days, day))
<1> DEFINE n == Len(days)
<1>1. n \in Nat /\ DOMAIN days = 1..n
  OBVIOUS
<1>2. \A i \in 1..n : days[i] \in Nat
  OBVIOUS
<1>6. \A i, j \in 1..n : i < j => days[j] - days[i] >= MinGap /\ (j - i >= MaxChanges => days[j] - days[i] > Window)
  BY <1>1 DEF SpacedOut
<1>7. n # 0 => days[n] <= day - MinGap
  BY DEF WithinLimits
<1>3. ASSUME NEW i \in 1..n PROVE day - days[i] >= MinGap
  <2> HIDE DEF n
  <2>1. days[n] <= day - MinGap /\ days[n] \in Nat
    BY <1>1, <1>2, <1>7
  <2>2. days[i] <= days[n]
    <3>1. CASE i = n
      BY <3>1, <1>2
    <3>2. CASE i < n
      BY <3>2, <1>1, <1>2, <1>6, VenuesAssumption
    <3> QED
      BY <3>1, <3>2, <1>1
  <2> QED
    BY <2>1, <2>2, <1>2, VenuesAssumption
<1>4. ASSUME NEW i \in 1..n, n + 1 - i >= MaxChanges PROVE day - days[i] > Window
  <2> SUFFICES ASSUME days[i] >= day - Window PROVE FALSE
    BY <1>2, VenuesAssumption
  <2> DEFINE recent == {j \in DOMAIN days : days[j] >= day - Window}
  <2>1. i..n \subseteq recent
    <3> SUFFICES ASSUME NEW j \in i..n PROVE days[j] >= day - Window
      BY <1>1
    <3>1. CASE j = i
      BY <3>1
    <3>2. CASE j > i
      <4>1. days[j] - days[i] >= MinGap
        BY <3>2, <1>1, <1>6
      <4> QED
        BY <4>1, <1>2, <1>1, VenuesAssumption
    <3> QED
      BY <3>1, <3>2
  <2>2. IsFiniteSet(recent)
    <3>1. IsFiniteSet(1..n) /\ recent \subseteq 1..n
      BY <1>1, FS_Interval
    <3> QED
      BY <3>1, FS_Subset
  <2>3. Cardinality(i..n) = n + 1 - i
    BY <1>1, FS_Interval
  <2>4. Cardinality(i..n) <= Cardinality(recent)
    BY <2>1, <2>2, FS_Subset
  <2>5. Cardinality(recent) < MaxChanges /\ Cardinality(recent) \in Nat
    BY <2>2, FS_CardinalityType DEF WithinLimits
  <2> HIDE DEF recent
  <2> QED
    BY <1>1, <1>4, <2>3, <2>4, <2>5, VenuesAssumption
<1>5. /\ DOMAIN Append(days, day) = 1..(n + 1) /\ Append(days, day)[n + 1] = day
      /\ \A i \in 1..n : Append(days, day)[i] = days[i]
  OBVIOUS
<1> HIDE DEF n
<1> SUFFICES ASSUME NEW i \in 1..(n + 1), NEW j \in 1..(n + 1), i < j
             PROVE  /\ Append(days, day)[j] - Append(days, day)[i] >= MinGap
                    /\ j - i >= MaxChanges => Append(days, day)[j] - Append(days, day)[i] > Window
  BY <1>5 DEF SpacedOut
<1>8. i \in 1..n
  BY <1>1
<1>9. CASE j = n + 1
  BY <1>1, <1>3, <1>4, <1>5, <1>8, <1>9
<1>10. CASE j \in 1..n
  <2>1. Append(days, day)[j] = days[j] /\ Append(days, day)[i] = days[i]
    BY <1>5, <1>8, <1>10
  <2> QED
    BY <1>6, <1>8, <1>10, <2>1
<1> QED
  BY <1>1, <1>9, <1>10

\* A change that is saved after it was recorded.
LEMMA SavedChangeIsSpaced ==
    ASSUME NEW sh \in Seq(Nat), NEW sc \in Seq(Nat), sh # <<>>, SpacedOut(sh), SpacedOut(sc),
           \A i \in DOMAIN sc : \E k \in DOMAIN sh : sh[k] = sc[i] /\ Len(sh) - k >= Len(sc) - i + 1
    PROVE  /\ SpacedOut(Append(sc, sh[Len(sh)]))
           /\ \A i \in DOMAIN Append(sc, sh[Len(sh)]) : \E k \in DOMAIN sh :
                 sh[k] = Append(sc, sh[Len(sh)])[i] /\ Len(sh) - k >= Len(Append(sc, sh[Len(sh)])) - i + 0
<1> DEFINE m == Len(sh)
           n == Len(sc)
           day == sh[m]
<1>1. m \in Nat \ {0} /\ DOMAIN sh = 1..m /\ n \in Nat /\ DOMAIN sc = 1..n /\ day \in Nat
  OBVIOUS
<1>2. \A i \in 1..m : sh[i] \in Nat
  OBVIOUS
<1>3. \A i \in 1..n : sc[i] \in Nat
  OBVIOUS
<1>4. \A i \in 1..n : \E k \in 1..m : sh[k] = sc[i] /\ m - k >= n - i + 1
  BY <1>1
<1>s. \A i, j \in 1..m : i < j => sh[j] - sh[i] >= MinGap /\ (j - i >= MaxChanges => sh[j] - sh[i] > Window)
  BY <1>1 DEF SpacedOut
<1>5. ASSUME NEW i \in 1..n
      PROVE  day - sc[i] >= MinGap /\ (n + 1 - i >= MaxChanges => day - sc[i] > Window)
  <2>1. PICK k \in 1..m : sh[k] = sc[i] /\ m - k >= n - i + 1
    BY <1>4
  <2>2. k < m /\ m - k >= n + 1 - i
    BY <1>1, <2>1
  <2> HIDE DEF n, m
  <2>3. sh[m] - sh[k] >= MinGap /\ (m - k >= MaxChanges => sh[m] - sh[k] > Window)
    BY <1>1, <1>s, <2>2
  <2> QED
    BY <1>1, <2>1, <2>2, <2>3, VenuesAssumption
<1>6. /\ DOMAIN Append(sc, day) = 1..(n + 1) /\ Append(sc, day)[n + 1] = day /\ Len(Append(sc, day)) = n + 1
      /\ \A i \in 1..n : Append(sc, day)[i] = sc[i]
  OBVIOUS
<1>d. day = sh[m]
  OBVIOUS
<1>7. \A i, j \in 1..n : i < j => sc[j] - sc[i] >= MinGap /\ (j - i >= MaxChanges => sc[j] - sc[i] > Window)
  BY <1>1 DEF SpacedOut
<1> HIDE DEF m, n, day
<1>8. SpacedOut(Append(sc, day))
  <2> SUFFICES ASSUME NEW i \in 1..(n + 1), NEW j \in 1..(n + 1), i < j
               PROVE  /\ Append(sc, day)[j] - Append(sc, day)[i] >= MinGap
                      /\ j - i >= MaxChanges => Append(sc, day)[j] - Append(sc, day)[i] > Window
    BY <1>6 DEF SpacedOut
  <2>3. i \in 1..n
    BY <1>1
  <2>1. CASE j = n + 1
    BY <1>1, <1>5, <1>6, <2>1, <2>3
  <2>2. CASE j \in 1..n
    <3>1. Append(sc, day)[j] = sc[j] /\ Append(sc, day)[i] = sc[i]
      BY <1>6, <2>2, <2>3
    <3>2. sc[j] - sc[i] >= MinGap /\ (j - i >= MaxChanges => sc[j] - sc[i] > Window)
      BY <1>7, <2>2, <2>3
    <3> QED
      BY <3>1, <3>2
  <2>4. j = n + 1 \/ j \in 1..n
    BY <1>1
  <2> QED
    BY <2>1, <2>2, <2>4
<1>9. ASSUME NEW i \in 1..(n + 1)
      PROVE  \E k \in 1..m : sh[k] = Append(sc, day)[i] /\ m - k >= n + 1 - i + 0
  <2>1. CASE i = n + 1
    <3>1. m \in 1..m /\ sh[m] = Append(sc, day)[i] /\ m - m >= n + 1 - i + 0
      BY <1>1, <1>6, <1>d, <2>1
    <3> QED
      BY <3>1
  <2>2. CASE i \in 1..n
    <3>1. PICK k \in 1..m : sh[k] = sc[i] /\ m - k >= n - i + 1
      BY <1>4, <2>2
    <3>2. m - k >= n + 1 - i + 0
      BY <1>1, <2>2, <3>1
    <3> QED
      BY <1>6, <2>2, <3>1, <3>2
  <2> QED
    BY <1>1, <2>1, <2>2
<1>10. day = sh[Len(sh)] /\ m = Len(sh)
  BY DEF m, day
<1>11. /\ SpacedOut(Append(sc, day))
       /\ \A i \in DOMAIN Append(sc, day) : \E k \in DOMAIN sh :
                 sh[k] = Append(sc, day)[i] /\ m - k >= Len(Append(sc, day)) - i + 0
  <2>1. DOMAIN sh = 1..m /\ DOMAIN Append(sc, day) = 1..(n + 1) /\ Len(Append(sc, day)) = n + 1
    BY <1>1, <1>6
  <2>2. ASSUME NEW i \in DOMAIN Append(sc, day)
        PROVE  \E k \in DOMAIN sh : sh[k] = Append(sc, day)[i] /\ m - k >= Len(Append(sc, day)) - i + 0
    <3>1. i \in 1..(n + 1)
      BY <2>1
    <3>2. PICK k \in 1..m : sh[k] = Append(sc, day)[i] /\ m - k >= n + 1 - i + 0
      BY <1>9, <3>1
    <3>3. (n + 1) - i + 0 = n + 1 - i + 0
      BY <1>1, <3>1
    <3>4. Len(Append(sc, day)) - i + 0 = (n + 1) - i + 0
      BY <2>1, Zenon
    <3> QED
      BY <2>1, <3>2, <3>3, <3>4, Zenon
  <2> QED
    BY <1>8, <2>2
<1> QED
  BY <1>10, <1>11

-----------------------------------------------------------------------------
\* A request that has passed the limits, and one that has recorded its change.
PlansSlug(p) ==
    /\ At(p, "record") => WithinLimits(slugHistory[request[p].id], today)
    /\ At(p, "rename") => LET days == slugHistory[request[p].id] IN
                            /\ days # <<>> /\ days[Len(days)] = today
                            /\ Recorded(request[p].id, 1)

\* What SlugChangesAreLimited needs to be inductive: the history table keeps the
\* limits and holds every change, with a row to spare for one not saved yet.
SlugsAreSpaced ==
    alone => /\ \A v \in Venue : SpacedOut(slugHistory[v]) /\ SpacedOut(slugChanges[v]) /\ Recorded(v, 0)
             /\ \A p \in Request : PlansSlug(p)

\* changeSlug checks, records and saves; remove clears both.
LEMMA StepKeepsSlugs ==
    ASSUME TypeOK, AloneIsCurrent, SlugsAreSpaced, NEW p \in Request, OwnerStep(p) \/ AdminStep(p)
    PROVE  SlugsAreSpaced'
<1> SUFFICES ASSUME alone' PROVE SlugsAreSpaced'
  BY DEF SlugsAreSpaced
<1>1. alone /\ Others(p) /\ PlansSlug(p)
  BY StepOfOne DEF AloneIsCurrent, SlugsAreSpaced
<1>i. Idle.pc = "idle"
  BY DEF Idle
<1>2. ASSUME PlansSlug(p)',
             \A v \in Venue : (SpacedOut(slugHistory[v]) /\ SpacedOut(slugChanges[v]) /\ Recorded(v, 0))'
      PROVE  SlugsAreSpaced'
  BY <1>1, <1>i, <1>2 DEF SlugsAreSpaced, PlansSlug, Others, At
<1>3. ASSUME UNCHANGED <<slugHistory, slugChanges>>
      PROVE  \A v \in Venue : (SpacedOut(slugHistory[v]) /\ SpacedOut(slugChanges[v]) /\ Recorded(v, 0))'
  BY <1>1, <1>3 DEF SlugsAreSpaced, Recorded
<1>4. ASSUME UNCHANGED <<slugHistory, slugChanges>>, request'[p].pc \notin {"record", "rename"}
      PROVE  SlugsAreSpaced'
  BY <1>2, <1>3, <1>4 DEF PlansSlug, At
<1>t. /\ slugHistory \in [Venue -> Seq(0..LastDay)] /\ slugChanges \in [Venue -> Seq(0..LastDay)]
      /\ today \in Nat
      /\ \A v \in Venue : slugHistory[v] \in Seq(Nat) /\ slugChanges[v] \in Seq(Nat)
  <2>1. \A s : s \in Seq(0..LastDay) => s \in Seq(Nat)
    BY VenuesAssumption
  <2> QED
    BY <2>1, VenuesAssumption DEF TypeOK
<1>5. CASE CheckLimits(p)
  <2> DEFINE next == [request[p] EXCEPT !.pc = "record"]
  <2>1. request[p].pc = "limits" /\ request[p] \in Progress /\ WithinLimits(slugHistory[request[p].id], today)
    BY <1>5 DEF CheckLimits, At, TypeOK
  <2>2. next.pc = "record" /\ next.id = request[p].id
    BY <2>1 DEF Progress, Holding, Idle
  <2>3. request'[p] = next /\ UNCHANGED <<today, slugHistory, slugChanges>>
    BY <1>5, Reads DEF CheckLimits
  <2> HIDE DEF next
  <2>4. PlansSlug(p)'
    BY <2>1, <2>2, <2>3 DEF PlansSlug, At, WithinLimits
  <2> QED
    BY <1>2, <1>3, <2>3, <2>4
<1>6. CASE RecordChange(p)
  <2> DEFINE next == [request[p] EXCEPT !.pc = "rename"]
  <2>0. PICK d \in Venue : d = request[p].id
    BY <1>6, HeldTypes DEF RecordChange, At, HoldsRow
  <2>1. request[p].pc = "record" /\ request[p] \in Progress /\ WithinLimits(slugHistory[d], today)
    BY <1>1, <1>6, <2>0 DEF RecordChange, At, TypeOK, PlansSlug
  <2>2. next.pc = "rename" /\ next.id = d
    BY <2>0, <2>1 DEF Progress, Holding, Idle
  <2>3. request'[p] = next /\ UNCHANGED <<today, slugChanges>>
        /\ slugHistory' = [slugHistory EXCEPT ![d] = Append(@, today)]
    BY <1>6, <2>0, Goes DEF RecordChange, history
  <2> HIDE DEF next
  <2>4. slugHistory'[d] = Append(slugHistory[d], today) /\ \A v \in Venue \ {d} : slugHistory'[v] = slugHistory[v]
    BY <1>t, <2>3
  <2>5. SpacedOut(slugHistory'[d])
    BY <1>1, <1>t, <2>1, <2>4, LimitsSpaceOut DEF SlugsAreSpaced
  <2>6. Recorded(d, 0)
    BY <1>1 DEF SlugsAreSpaced
  <2>7. /\ DOMAIN slugHistory[d] = 1..Len(slugHistory[d]) /\ Len(slugHistory[d]) \in Nat
        /\ DOMAIN slugHistory'[d] = 1..(Len(slugHistory[d]) + 1) /\ Len(slugHistory'[d]) = Len(slugHistory[d]) + 1
        /\ slugHistory'[d][Len(slugHistory[d]) + 1] = today
        /\ \A k \in 1..Len(slugHistory[d]) : slugHistory'[d][k] = slugHistory[d][k]
        /\ DOMAIN slugChanges[d] = 1..Len(slugChanges[d]) /\ Len(slugChanges[d]) \in Nat
    BY <1>t, <2>4
  <2>8. Recorded(d, 1)' /\ Recorded(d, 0)'
    <3> SUFFICES ASSUME NEW i \in DOMAIN slugChanges[d]
                 PROVE  \E k \in DOMAIN slugHistory'[d] :
                            /\ slugHistory'[d][k] = slugChanges[d][i]
                            /\ Len(slugHistory'[d]) - k >= Len(slugChanges[d]) - i + 1
                            /\ Len(slugHistory'[d]) - k >= Len(slugChanges[d]) - i + 0
      BY <2>3 DEF Recorded
    <3>1. PICK k \in DOMAIN slugHistory[d] :
              slugHistory[d][k] = slugChanges[d][i] /\ Len(slugHistory[d]) - k >= Len(slugChanges[d]) - i + 0
      BY <2>6 DEF Recorded
    <3>2. /\ k \in DOMAIN slugHistory'[d] /\ slugHistory'[d][k] = slugChanges[d][i]
          /\ (Len(slugHistory[d]) + 1) - k >= Len(slugChanges[d]) - i + 1
          /\ (Len(slugHistory[d]) + 1) - k >= Len(slugChanges[d]) - i + 0
      <4> DEFINE m == Len(slugHistory[d])
                 n == Len(slugChanges[d])
      <4>1. m \in Nat /\ n \in Nat /\ k \in 1..m /\ i \in 1..n /\ m - k >= n - i + 0
        BY <2>7, <3>1
      <4>2. k \in DOMAIN slugHistory'[d] /\ slugHistory'[d][k] = slugChanges[d][i]
        BY <2>7, <3>1
      <4> HIDE DEF m, n
      <4>3. (m + 1) - k >= n - i + 1 /\ (m + 1) - k >= n - i + 0
        BY <4>1
      <4> QED
        BY <4>2, <4>3 DEF m, n
    <3> QED
      BY <2>7, <3>2
  <2>9. PlansSlug(p)'
    <3>1. slugHistory'[d] # <<>> /\ slugHistory'[d][Len(slugHistory'[d])] = today'
      BY <2>3, <2>4, <2>7
    <3> QED
      BY <2>2, <2>3, <2>8, <3>1 DEF PlansSlug, At
  <2>10. ASSUME NEW v \in Venue PROVE (SpacedOut(slugHistory[v]) /\ SpacedOut(slugChanges[v]) /\ Recorded(v, 0))'
    <3>1. CASE v = d
      BY <1>1, <2>3, <2>5, <2>8, <3>1 DEF SlugsAreSpaced
    <3>2. CASE v # d
      BY <1>1, <2>3, <2>4, <3>2 DEF SlugsAreSpaced, Recorded
    <3> QED
      BY <3>1, <3>2
  <2> QED
    BY <1>2, <2>9, <2>10
<1>7. CASE Fail(p)
  BY <1>4, <1>7, <1>i, Fails
<1>8. ASSUME NEW h \in BOOLEAN, SaveSlug(p, h) PROVE SlugsAreSpaced'
  <2>1. CASE Fail(p)
    BY <1>7, <2>1
  <2>2. CASE ~ Fail(p)
    <3>0. PICK d \in Venue : d = request[p].id
      BY <1>8, HeldTypes DEF SaveSlug, At, HoldsRow
    <3>1. /\ slugHistory[d] # <<>> /\ slugHistory[d][Len(slugHistory[d])] = today /\ Recorded(d, 1)
      BY <1>1, <1>8, <3>0 DEF SaveSlug, PlansSlug
    <3>2. request'[p] = Idle /\ UNCHANGED slugHistory
          /\ slugChanges' = [slugChanges EXCEPT ![d] = Append(@, today)]
      BY <1>8, <2>2, <3>0, Goes DEF SaveSlug
    <3>3. slugChanges'[d] = Append(slugChanges[d], slugHistory[d][Len(slugHistory[d])])
          /\ \A v \in Venue \ {d} : slugChanges'[v] = slugChanges[v]
      BY <1>t, <3>1, <3>2
    <3>4. SpacedOut(slugHistory[d]) /\ SpacedOut(slugChanges[d])
      BY <1>1 DEF SlugsAreSpaced
    <3>5. SpacedOut(slugChanges'[d]) /\ Recorded(d, 0)'
      <4>1. \A i \in DOMAIN slugChanges[d] : \E k \in DOMAIN slugHistory[d] :
              slugHistory[d][k] = slugChanges[d][i] /\ Len(slugHistory[d]) - k >= Len(slugChanges[d]) - i + 1
        BY <3>1 DEF Recorded
      <4> DEFINE new == Append(slugChanges[d], slugHistory[d][Len(slugHistory[d])])
      <4>2. /\ SpacedOut(new)
            /\ \A i \in DOMAIN new : \E k \in DOMAIN slugHistory[d] :
                 slugHistory[d][k] = new[i] /\ Len(slugHistory[d]) - k >= Len(new) - i + 0
        BY <1>t, <3>1, <3>4, <4>1, SavedChangeIsSpaced
      <4> HIDE DEF new
      <4>3. slugChanges'[d] = new /\ slugHistory'[d] = slugHistory[d]
        BY <3>2, <3>3 DEF new
      <4> QED
        BY <4>2, <4>3 DEF Recorded
    <3>6. ASSUME NEW v \in Venue PROVE (SpacedOut(slugHistory[v]) /\ SpacedOut(slugChanges[v]) /\ Recorded(v, 0))'
      <4>1. CASE v = d
        BY <3>2, <3>4, <3>5, <4>1
      <4>2. CASE v # d
        BY <1>1, <3>2, <3>3, <4>2 DEF SlugsAreSpaced, Recorded
      <4> QED
        BY <4>1, <4>2
    <3>7. PlansSlug(p)'
      BY <1>i, <3>2 DEF PlansSlug, At
    <3> QED
      BY <1>2, <3>6, <3>7
  <2> QED
    BY <2>1, <2>2
<1>9. CASE DeleteVenue(p)
  <2>0. PICK d \in Venue : d = request[p].id
    BY <1>9, HeldTypes DEF DeleteVenue, At, HoldsRow
  <2>1. /\ slugHistory' = [slugHistory EXCEPT ![d] = <<>>] /\ slugChanges' = [slugChanges EXCEPT ![d] = <<>>]
        /\ request'[p].pc \in {"idle", "reassign"}
    BY <1>9, <1>i, <2>0, Goes DEF DeleteVenue
  <2>2. /\ slugHistory'[d] = <<>> /\ slugChanges'[d] = <<>>
        /\ \A v \in Venue \ {d} : slugHistory'[v] = slugHistory[v] /\ slugChanges'[v] = slugChanges[v]
    BY <1>t, <2>1
  <2>3. ASSUME NEW v \in Venue PROVE (SpacedOut(slugHistory[v]) /\ SpacedOut(slugChanges[v]) /\ Recorded(v, 0))'
    <3>1. CASE v = d
      BY <2>2, <3>1 DEF SpacedOut, Recorded
    <3>2. CASE v # d
      BY <1>1, <2>2, <3>2 DEF SlugsAreSpaced, Recorded
    <3> QED
      BY <3>1, <3>2
  <2> QED
    BY <1>2, <2>1, <2>3 DEF PlansSlug, At
<1>10. CASE SaveDecision(p)
  BY <1>4, <1>7, <1>10, <1>i, Goes DEF SaveDecision
<1>11. CASE SetDefault(p) \/ UnlinkLogo(p) \/ SaveChild(p)
  BY <1>4, <1>11, <1>i, Goes DEF SetDefault, UnlinkLogo, SaveChild, history
<1> QED
  BY <1>4, <1>5, <1>6, <1>8, <1>9, <1>10, <1>11, LoadsHold, LooksHold, SavesHold, UploadHolds DEF OwnerStep, AdminStep

-----------------------------------------------------------------------------
\* No logo is shown by two venues.
LogosDiffer ==
    \A u, v \in Venue : u # v /\ Exists(u) /\ Exists(v) /\ venue[u].logo # NoLogo => venue[u].logo # venue[v].logo
\* A logo that is shown is on disk.
LogosAreOnDisk == \A v \in Venue : Exists(v) /\ venue[v].logo # NoLogo => venue[v].logo \in files
\* Some venue shows l.
Shown(l) == \E v \in Venue : Exists(v) /\ venue[v].logo = l

\* A logo uploaded and not saved, and one replaced and not removed, are not shown.
PlansLogo(p) ==
    /\ At(p, "logo") => request[p].logo \in files /\ ~ Shown(request[p].logo)
    /\ At(p, "unlink") /\ request[p].old # NoLogo => ~ Shown(request[p].old)

\* What LogoIsOnDisk needs to be inductive.
LogosAreKept == alone => LogosDiffer /\ LogosAreOnDisk /\ \A p \in Request : PlansLogo(p)

\* No venue gets a logo it did not have.
SameLogos == \A v \in Venue : (Exists(v)' => Exists(v)) /\ (Exists(v)' => venue'[v].logo = venue[v].logo)

\* uploadLogo saves the new name before it removes the old file.
LEMMA StepKeepsLogos ==
    ASSUME TypeOK, AloneIsCurrent, LogosAreKept, NEW p \in Request, OwnerStep(p) \/ AdminStep(p)
    PROVE  LogosAreKept'
<1> SUFFICES ASSUME alone' PROVE LogosAreKept'
  BY DEF LogosAreKept
<1>1. alone /\ Others(p) /\ PlansLogo(p) /\ HeldIsCurrent(p) /\ LogosDiffer /\ LogosAreOnDisk
  BY StepOfOne DEF AloneIsCurrent, LogosAreKept
<1> USE DEF At, HoldsRow
<1>i. Idle.pc = "idle"
  BY DEF Idle
<1>2. ASSUME PlansLogo(p)', LogosDiffer', LogosAreOnDisk' PROVE LogosAreKept'
  BY <1>1, <1>i, <1>2 DEF LogosAreKept, PlansLogo, Others
<1>3. ASSUME SameLogos, files \subseteq files' PROVE LogosDiffer' /\ LogosAreOnDisk'
  BY <1>1, <1>3 DEF SameLogos, LogosDiffer, LogosAreOnDisk
<1>4. ASSUME SameLogos, files' = files, request'[p].pc \notin {"logo", "unlink"} PROVE LogosAreKept'
  BY <1>2, <1>3, <1>4 DEF PlansLogo
<1>5. ASSUME venue' = venue PROVE SameLogos
  BY <1>5 DEF SameLogos, Exists
<1>6. ASSUME NEW v \in Venue, NEW row, venue' = [venue EXCEPT ![v] = row],
             row.status \in VenueStatus => Exists(v) /\ row.logo = venue[v].logo
      PROVE  SameLogos
  <2>1. venue'[v] = row /\ \A u \in Venue \ {v} : venue'[u] = venue[u]
    BY <1>6 DEF TypeOK
  <2> QED
    BY <1>6, <2>1 DEF SameLogos, Exists
<1>7. CASE Fail(p)
  BY <1>4, <1>5, <1>7, <1>i, Fails
<1>8. ASSUME NEW h \in BOOLEAN, SaveUpdate(p, h) PROVE LogosAreKept'
  <2> DEFINE row == [request[p].row EXCEPT !.isHidden = h]
  <2>1. request[p].row \in VenueRow /\ request[p].id \in Venue /\ Exists(request[p].id) /\ request[p].row = venue[request[p].id]
    BY <1>1, <1>8, HeldTypes DEF SaveUpdate, HeldIsCurrent
  <2>2. row.logo = venue[request[p].id].logo
    BY <2>1 DEF VenueRow
  <2>3. Save(p, request[p].id, row, Idle)
    BY <1>8 DEF SaveUpdate
  <2> HIDE DEF row
  <2>4. files' = files /\ request'[p] = Idle /\ (venue' = venue \/ venue' = [venue EXCEPT ![request[p].id] = row])
    BY <2>3, Saves
  <2> QED
    BY <1>4, <1>5, <1>6, <1>i, <2>1, <2>2, <2>4
<1>9. CASE Promote(p)
  <2> DEFINE row == [request[p].row EXCEPT !.isDefault = TRUE]
  <2>1. request[p].row \in VenueRow /\ request[p].id \in Venue /\ Exists(request[p].id) /\ request[p].row = venue[request[p].id]
    BY <1>1, <1>9, HeldTypes DEF Promote, HeldIsCurrent
  <2>2. row.logo = venue[request[p].id].logo
    BY <2>1 DEF VenueRow
  <2>3. Save(p, request[p].id, row, Idle)
    BY <1>9 DEF Promote
  <2> HIDE DEF row
  <2>4. files' = files /\ request'[p] = Idle /\ (venue' = venue \/ venue' = [venue EXCEPT ![request[p].id] = row])
    BY <2>3, Saves
  <2> QED
    BY <1>4, <1>5, <1>6, <1>i, <2>1, <2>2, <2>4
<1>10. ASSUME NEW h \in BOOLEAN, SaveSlug(p, h) PROVE LogosAreKept'
  <2> DEFINE row == [request[p].row EXCEPT !.slug = request[p].slug, !.isHidden = h]
  <2>1. request[p].row \in VenueRow /\ request[p].id \in Venue /\ Exists(request[p].id) /\ request[p].row = venue[request[p].id]
    BY <1>1, <1>10, HeldTypes DEF SaveSlug, HeldIsCurrent
  <2>2. row.logo = venue[request[p].id].logo
    BY <2>1 DEF VenueRow
  <2>3. Fail(p) \/ (venue' = [venue EXCEPT ![request[p].id] = row] /\ GoTo(p, Idle) /\ files' = files)
    BY <1>10 DEF SaveSlug
  <2> HIDE DEF row
  <2> QED
    BY <1>4, <1>6, <1>7, <1>i, <2>1, <2>2, <2>3, Goes
<1>11. CASE SaveDecision(p)
  <2> DEFINE row == [request[p].row EXCEPT !.status = Decision(p)]
  <2>1. request[p].row \in VenueRow /\ request[p].id \in Venue /\ Exists(request[p].id) /\ request[p].row = venue[request[p].id]
    BY <1>1, <1>11, HeldTypes DEF SaveDecision, HeldIsCurrent
  <2>2. row.logo = venue[request[p].id].logo
    BY <2>1 DEF VenueRow
  <2>3. Fail(p) \/ (venue' = [venue EXCEPT ![request[p].id] = row] /\ GoTo(p, Idle) /\ files' = files)
    BY <1>11 DEF SaveDecision
  <2> HIDE DEF row
  <2> QED
    BY <1>4, <1>6, <1>7, <1>i, <2>1, <2>2, <2>3, Goes
<1>12. CASE SetDefault(p)
  <2>1. \A v \in Venue : venue'[v].status = venue[v].status /\ venue'[v].logo = venue[v].logo
    BY <1>12 DEF SetDefault, TypeOK, VenueRow
  <2>2. SameLogos
    BY <2>1 DEF SameLogos, Exists
  <2> QED
    BY <1>4, <1>12, <1>i, <2>2, Goes DEF SetDefault
<1>13. CASE DeleteVenue(p)
  <2>1. request[p].id \in Venue
    BY <1>13, HeldTypes DEF DeleteVenue
  <2>2. \A v \in Venue : venue'[v].logo = venue[v].logo /\ venue'[v].status \in {venue[v].status, "removed"}
    BY <1>13, <2>1 DEF DeleteVenue, TypeOK, VenueRow
  <2>3. SameLogos
    BY <2>2 DEF SameLogos, Exists, VenueStatus
  <2>4. request'[p].pc \in {"idle", "reassign"} /\ files' = files
    BY <1>13, <1>i, Goes DEF DeleteVenue
  <2> QED
    BY <1>4, <2>3, <2>4
<1>14. ASSUME NEW v \in Venue, InsertVenue(p, v) PROVE LogosAreKept'
  <2> DEFINE row == [status |-> "pending_approval", owner |-> request[p].owner,
                     isDefault |-> request[p].isDefault, isHidden |-> FALSE,
                     slug |-> request[p].slug, logo |-> NoLogo]
  <2>1. Save(p, v, row, Idle) /\ row.logo = NoLogo
    BY <1>14 DEF InsertVenue
  <2> HIDE DEF row
  <2>2. files' = files /\ request'[p] = Idle /\ (venue' = venue \/ venue' = [venue EXCEPT ![v] = row])
    BY <2>1, Saves
  <2>3. CASE venue' = [venue EXCEPT ![v] = row]
    <3>1. venue'[v].logo = NoLogo /\ \A u \in Venue \ {v} : venue'[u] = venue[u]
      BY <2>1, <2>3 DEF TypeOK
    <3>2. LogosDiffer' /\ LogosAreOnDisk'
      BY <1>1, <2>2, <3>1 DEF LogosDiffer, LogosAreOnDisk, Exists
    <3> QED
      BY <1>2, <1>i, <2>2, <3>2 DEF PlansLogo
  <2> QED
    BY <1>4, <1>5, <1>i, <2>2, <2>3
<1>15. ASSUME NEW v \in Venue, LoadForLogo(p, v) PROVE LogosAreKept'
  <2>1. /\ request'[p].pc = "logo" /\ request'[p].logo = uploads + 1 /\ venue' = venue
        /\ files' = files \cup {uploads + 1}
    BY <1>15, UploadHolds
  <2>2. uploads + 1 \notin files /\ uploads + 1 # NoLogo
    BY VenuesAssumption DEF TypeOK, NoLogo
  <2>3. ~ Shown(uploads + 1)
    BY <1>1, <2>2 DEF LogosAreOnDisk, Shown
  <2>4. PlansLogo(p)'
    BY <2>1, <2>3 DEF PlansLogo, Shown, Exists
  <2> QED
    BY <1>2, <1>3, <1>5, <2>1, <2>4
<1>16. CASE SaveLogo(p)
  <2> DEFINE row == [request[p].row EXCEPT !.logo = request[p].logo]
             next == [pc |-> "unlink", old |-> request[p].row.logo]
             d == request[p].id
             l == request[p].logo
  <2>1. /\ request[p].row \in VenueRow /\ d \in Venue /\ Exists(d) /\ request[p].row = venue[d]
        /\ l \in files /\ ~ Shown(l)
    BY <1>1, <1>16, HeldTypes DEF SaveLogo, HeldIsCurrent, PlansLogo
  <2>2. row.logo = l
    BY <2>1 DEF VenueRow
  <2>3. Save(p, d, row, next) /\ next.pc = "unlink" /\ next.old = venue[d].logo
    BY <1>16, <2>1 DEF SaveLogo
  <2> HIDE DEF row, next, d, l
  <2>4. \/ venue' = venue /\ request'[p] = Idle /\ files' = files
        \/ venue' = [venue EXCEPT ![d] = row] /\ request'[p] = next /\ files' = files
    BY <2>3, Saves
  <2>5. CASE venue' = [venue EXCEPT ![d] = row] /\ request'[p] = next /\ files' = files
    <3>1. venue'[d].logo = l /\ \A u \in Venue \ {d} : venue'[u] = venue[u]
      BY <2>1, <2>2, <2>5 DEF TypeOK
    <3>2. \A u \in Venue : Exists(u) => venue[u].logo # l
      BY <2>1 DEF Shown
    <3>3. LogosDiffer'
      BY <1>1, <3>1, <3>2 DEF LogosDiffer, Exists
    <3>4. LogosAreOnDisk'
      BY <1>1, <2>1, <2>5, <3>1 DEF LogosAreOnDisk, Exists
    <3>5. venue[d].logo # NoLogo => \A u \in Venue : Exists(u)' => venue'[u].logo # venue[d].logo
      BY <1>1, <2>1, <3>1, <3>2 DEF LogosDiffer, Exists
    <3>6. PlansLogo(p)'
      BY <2>3, <2>5, <3>5 DEF PlansLogo, Shown
    <3> QED
      BY <1>2, <3>3, <3>4, <3>6
  <2> QED
    BY <1>4, <1>5, <1>i, <2>4, <2>5
<1>17. CASE UnlinkLogo(p)
  <2>1. files' = files \ {request[p].old} /\ venue' = venue /\ request'[p] = Idle /\ request[p].pc = "unlink"
    BY <1>17, Goes DEF UnlinkLogo
  <2>2. \A v \in Venue : Exists(v) /\ venue[v].logo # NoLogo => venue[v].logo # request[p].old
    BY <1>1, <2>1 DEF PlansLogo, Shown
  <2>3. LogosAreOnDisk'
    BY <1>1, <2>1, <2>2 DEF LogosAreOnDisk, Exists
  <2>4. LogosDiffer'
    BY <1>1, <2>1 DEF LogosDiffer, Exists
  <2> QED
    BY <1>2, <1>i, <2>1, <2>3, <2>4 DEF PlansLogo
<1>18. CASE SaveChild(p)
  BY <1>4, <1>5, <1>18, <1>i, Goes DEF SaveChild
<1>19. CASE CheckLimits(p) \/ RecordChange(p)
  <2>1. venue' = venue /\ files' = files
    BY <1>19, Reads DEF CheckLimits, RecordChange
  <2>2. request[p] \in Progress /\ request[p].pc \in {"limits", "record"}
    BY <1>19 DEF CheckLimits, RecordChange, TypeOK
  <2>3. [request[p] EXCEPT !.pc = "record"].pc = "record" /\ [request[p] EXCEPT !.pc = "rename"].pc = "rename"
    BY <2>2 DEF Progress, Holding, Idle
  <2>4. request'[p].pc \in {"record", "rename"}
    BY <1>19, <2>3, Reads, Goes DEF CheckLimits, RecordChange
  <2> QED
    BY <1>4, <1>5, <2>1, <2>4
<1> QED
  BY <1>4, <1>5, <1>8, <1>9, <1>10, <1>11, <1>12, <1>13, <1>14, <1>15, <1>16, <1>17, <1>18, <1>19,
     LoadsHold, LooksHold DEF OwnerStep, AdminStep

-----------------------------------------------------------------------------
\* What was removed stays removed and left nothing, and what is about to be
\* removed has no booking.
RemovalsAreComplete ==
    /\ RemovalIsComplete
    /\ alone => \A p \in Request : At(p, "counted") => request[p].id \notin booked

\* A decision once taken stands, and so does a removal.
StatusStands ==
    \A v \in Venue :
        /\ venue[v].status \in {"active", "rejected"} => venue'[v].status \in {venue[v].status, "removed"}
        /\ venue[v].status = "removed" => venue'[v].status = "removed"

\* No venue changes its status.
SameStatus == \A v \in Venue : venue'[v].status = venue[v].status

\* Which venues a step of a request takes to another status.
LEMMA StatusMoves ==
    ASSUME TypeOK, AloneIsCurrent, alone', NEW p \in Request, OwnerStep(p) \/ AdminStep(p)
    PROVE  \/ SameStatus
           \/ \E v \in Venue :
                /\ \A u \in Venue \ {v} : venue'[u].status = venue[u].status
                /\ \/ venue[v].status = "absent" /\ venue'[v].status = "pending_approval"
                   \/ venue[v].status = "pending_approval" /\ venue'[v].status \in {"active", "rejected"}
                   \/ Exists(v) /\ venue'[v].status = "removed" /\ DeleteVenue(p) /\ v = request[p].id
<1> DEFINE Moved == \/ SameStatus
                    \/ \E v \in Venue :
                        /\ \A u \in Venue \ {v} : venue'[u].status = venue[u].status
                        /\ \/ venue[v].status = "absent" /\ venue'[v].status = "pending_approval"
                           \/ venue[v].status = "pending_approval" /\ venue'[v].status \in {"active", "rejected"}
                           \/ Exists(v) /\ venue'[v].status = "removed" /\ DeleteVenue(p) /\ v = request[p].id
<1> USE DEF At, HoldsRow
<1>1. alone /\ HeldIsCurrent(p)
  BY StepOfOne DEF AloneIsCurrent
<1>2. ASSUME venue' = venue PROVE Moved
  BY <1>2 DEF SameStatus
<1>3. ASSUME NEW v \in Venue, NEW row, venue' = [venue EXCEPT ![v] = row], row.status = venue[v].status
      PROVE  Moved
  BY <1>3 DEF SameStatus, TypeOK
<1>4. CASE Fail(p)
  BY <1>2, <1>4, Fails
<1>5. ASSUME request[p].pc \in HoldsRow
      PROVE  /\ request[p].row \in VenueRow /\ request[p].id \in Venue /\ Exists(request[p].id)
             /\ request[p].row = venue[request[p].id]
  BY <1>1, <1>5, HeldTypes DEF HeldIsCurrent
<1>6. ASSUME NEW h \in BOOLEAN, SaveUpdate(p, h) PROVE Moved
  <2> DEFINE row == [request[p].row EXCEPT !.isHidden = h]
  <2>1. row.status = venue[request[p].id].status /\ request[p].id \in Venue
    BY <1>5, <1>6 DEF SaveUpdate, VenueRow
  <2>2. Save(p, request[p].id, row, Idle)
    BY <1>6 DEF SaveUpdate
  <2> HIDE DEF row, Moved
  <2> QED
    BY <1>2, <1>3, <2>1, <2>2, Saves
<1>7. ASSUME Promote(p) PROVE Moved
  <2> DEFINE row == [request[p].row EXCEPT !.isDefault = TRUE]
  <2>1. row.status = venue[request[p].id].status /\ request[p].id \in Venue
    BY <1>5, <1>7 DEF Promote, VenueRow
  <2>2. Save(p, request[p].id, row, Idle)
    BY <1>7 DEF Promote
  <2> HIDE DEF row, Moved
  <2> QED
    BY <1>2, <1>3, <2>1, <2>2, Saves
<1>8. ASSUME SaveLogo(p) PROVE Moved
  <2> DEFINE row == [request[p].row EXCEPT !.logo = request[p].logo]
             next == [pc |-> "unlink", old |-> request[p].row.logo]
  <2>1. row.status = venue[request[p].id].status /\ request[p].id \in Venue
    BY <1>5, <1>8 DEF SaveLogo, VenueRow
  <2>2. Save(p, request[p].id, row, next)
    BY <1>8 DEF SaveLogo
  <2> HIDE DEF row, next, Moved
  <2> QED
    BY <1>2, <1>3, <2>1, <2>2, Saves
<1>9. ASSUME NEW h \in BOOLEAN, SaveSlug(p, h) PROVE Moved
  <2> DEFINE row == [request[p].row EXCEPT !.slug = request[p].slug, !.isHidden = h]
  <2>1. row.status = venue[request[p].id].status /\ request[p].id \in Venue
    BY <1>5, <1>9 DEF SaveSlug, VenueRow
  <2>2. Fail(p) \/ venue' = [venue EXCEPT ![request[p].id] = row]
    BY <1>9 DEF SaveSlug
  <2> HIDE DEF row, Moved
  <2> QED
    BY <1>2, <1>3, <2>1, <2>2, Fails
<1>10. ASSUME SaveDecision(p) PROVE Moved
  <2> DEFINE row == [request[p].row EXCEPT !.status = Decision(p)]
  <2>1. /\ row.status \in {"active", "rejected"} /\ request[p].id \in Venue
        /\ venue[request[p].id].status = "pending_approval"
    BY <1>1, <1>5, <1>10 DEF SaveDecision, VenueRow, Decision, HeldIsCurrent
  <2>2. Fail(p) \/ venue' = [venue EXCEPT ![request[p].id] = row]
    BY <1>10 DEF SaveDecision
  <2> HIDE DEF row
  <2>3. CASE venue' = [venue EXCEPT ![request[p].id] = row]
    <3>1. venue'[request[p].id] = row /\ \A u \in Venue \ {request[p].id} : venue'[u] = venue[u]
      BY <2>1, <2>3 DEF TypeOK
    <3> QED
      BY <2>1, <3>1
  <2> HIDE DEF Moved
  <2> QED
    BY <1>2, <2>2, <2>3, Fails
<1>11. ASSUME SetDefault(p) PROVE Moved
  BY <1>11 DEF SetDefault, TypeOK, VenueRow, SameStatus
<1>12. ASSUME DeleteVenue(p) PROVE Moved
  <2>1. request[p].id \in Venue /\ Exists(request[p].id)
    BY <1>5, <1>12 DEF DeleteVenue
  <2>2. venue'[request[p].id].status = "removed" /\ \A u \in Venue \ {request[p].id} : venue'[u] = venue[u]
    BY <1>12, <2>1 DEF DeleteVenue, TypeOK, VenueRow
  <2> QED
    BY <1>12, <2>1, <2>2
<1>13. ASSUME NEW v \in Venue, InsertVenue(p, v) PROVE Moved
  <2> DEFINE row == [status |-> "pending_approval", owner |-> request[p].owner,
                     isDefault |-> request[p].isDefault, isHidden |-> FALSE,
                     slug |-> request[p].slug, logo |-> NoLogo]
  <2>1. Save(p, v, row, Idle) /\ row.status = "pending_approval" /\ venue[v].status = "absent"
    BY <1>13 DEF InsertVenue
  <2> HIDE DEF row
  <2>2. venue' = venue \/ venue' = [venue EXCEPT ![v] = row]
    BY <2>1, Saves
  <2>3. CASE venue' = [venue EXCEPT ![v] = row]
    <3>1. venue'[v] = row /\ \A u \in Venue \ {v} : venue'[u] = venue[u]
      BY <2>3 DEF TypeOK
    <3> QED
      BY <2>1, <3>1
  <2> HIDE DEF Moved
  <2> QED
    BY <1>2, <2>2, <2>3
<1>14. ASSUME CheckLimits(p) \/ RecordChange(p) \/ UnlinkLogo(p) \/ SaveChild(p) PROVE Moved
  BY <1>2, <1>14, Reads DEF CheckLimits, RecordChange, UnlinkLogo, SaveChild
<1> HIDE DEF Moved
<1>15. Moved
  BY <1>2, <1>6, <1>7, <1>8, <1>9, <1>10, <1>11, <1>12, <1>13, <1>14,
     LoadsHold, LooksHold, UploadHolds DEF OwnerStep, AdminStep
<1> QED
  BY <1>15 DEF Moved

\* remove takes along what it must, and nothing is added to what is gone.
LEMMA StepKeepsRemovals ==
    ASSUME TypeOK, AloneIsCurrent, RemovalsAreComplete, NEW p \in Request, OwnerStep(p) \/ AdminStep(p)
    PROVE  RemovalsAreComplete'
<1> SUFFICES ASSUME alone' PROVE RemovalsAreComplete'
  BY DEF RemovalsAreComplete, RemovalIsComplete
<1> USE DEF At, HoldsRow
<1>1. alone /\ Others(p) /\ HeldIsCurrent(p)
  BY StepOfOne DEF AloneIsCurrent
<1>i. Idle.pc = "idle"
  BY DEF Idle
<1>2. ASSUME request'[p].pc = "counted" => request'[p].id \notin booked', RemovalIsComplete' PROVE RemovalsAreComplete'
  BY <1>1, <1>i, <1>2 DEF RemovalsAreComplete, Others
<1>3. ~ DeleteVenue(p) => \A v \in Venue : venue'[v].status = "removed" => venue[v].status = "removed"
  BY StatusMoves DEF SameStatus
<1>4. ASSUME ~ DeleteVenue(p), UNCHANGED <<attached, slugHistory, booked>>,
             request'[p].pc = "counted" => request'[p].id \notin booked'
      PROVE  RemovalsAreComplete'
  BY <1>1, <1>2, <1>3, <1>4 DEF RemovalsAreComplete, RemovalIsComplete
<1>5. CASE DeleteVenue(p)
  <2>0. PICK d \in Venue : d = request[p].id
    BY <1>5, HeldTypes DEF DeleteVenue
  <2>1. d \notin booked
    BY <1>1, <1>5, <2>0 DEF DeleteVenue, RemovalsAreComplete
  <2>2. /\ slugHistory'[d] = <<>> /\ \A v \in Venue \ {d} : slugHistory'[v] = slugHistory[v]
        /\ attached'[d] = attached[d] \ Cascade /\ \A v \in Venue \ {d} : attached'[v] = attached[v]
        /\ \A v \in Venue \ {d} : venue'[v] = venue[v]
        /\ booked' = booked
    BY <1>5, <2>0 DEF DeleteVenue, TypeOK
  <2>3. attached'[d] \subseteq {"hours"}
    BY <2>2 DEF TypeOK, Dependent, Cascade
  <2>4. RemovalIsComplete'
    BY <1>1, <2>1, <2>2, <2>3 DEF RemovalIsComplete, RemovalsAreComplete
  <2>5. request'[p].pc \in {"idle", "reassign"}
    BY <1>5, <1>i, Goes DEF DeleteVenue
  <2> QED
    BY <1>2, <2>4, <2>5
<1>6. CASE SaveChild(p)
  <2>0. PICK d \in Venue : d = request[p].id
    BY <1>6, HeldTypes DEF SaveChild
  <2>1. Exists(d)
    BY <1>1, <1>6, <2>0 DEF SaveChild, HeldIsCurrent
  <2>2. /\ venue' = venue /\ slugHistory' = slugHistory /\ booked' = booked /\ request'[p] = Idle
        /\ \A v \in Venue \ {d} : attached'[v] = attached[v]
    BY <1>6, <2>0, Goes DEF SaveChild, TypeOK
  <2>3. RemovalIsComplete'
    BY <1>1, <2>1, <2>2 DEF RemovalIsComplete, RemovalsAreComplete, Exists, VenueStatus
  <2> QED
    BY <1>2, <1>i, <2>2, <2>3
<1>7. CASE RecordChange(p)
  <2>0. PICK d \in Venue : d = request[p].id
    BY <1>7, HeldTypes DEF RecordChange
  <2>1. Exists(d)
    BY <1>1, <1>7, <2>0 DEF RecordChange, HeldIsCurrent
  <2>2. /\ venue' = venue /\ attached' = attached /\ booked' = booked
        /\ \A v \in Venue \ {d} : slugHistory'[v] = slugHistory[v]
    BY <1>7, <2>0 DEF RecordChange, TypeOK
  <2>3. request'[p].pc = "rename"
    <3>1. request[p] \in Progress /\ request[p].pc = "record"
      BY <1>7 DEF RecordChange, TypeOK
    <3>2. [request[p] EXCEPT !.pc = "rename"].pc = "rename"
      BY <3>1 DEF Progress, Holding, Idle
    <3> QED
      BY <1>7, <3>2, Goes DEF RecordChange
  <2>4. RemovalIsComplete'
    BY <1>1, <2>1, <2>2 DEF RemovalIsComplete, RemovalsAreComplete, Exists, VenueStatus
  <2> QED
    BY <1>2, <2>3, <2>4
<1>8. CASE CheckLimits(p)
  <2>1. request[p] \in Progress /\ request[p].pc = "limits"
    BY <1>8 DEF CheckLimits, TypeOK
  <2>2. [request[p] EXCEPT !.pc = "record"].pc = "record"
    BY <2>1 DEF Progress, Holding, Idle
  <2>3. request'[p].pc = "record" /\ UNCHANGED <<attached, slugHistory, booked>>
    BY <1>8, <2>2, Reads DEF CheckLimits
  <2> QED
    BY <1>4, <1>5, <2>3
<1>9. CASE Fail(p)
  BY <1>4, <1>5, <1>9, <1>i, Fails
<1>10. CASE SaveDecision(p) \/ \E h \in BOOLEAN : SaveSlug(p, h)
  BY <1>4, <1>5, <1>9, <1>10, <1>i, Goes DEF SaveDecision, SaveSlug
<1>11. CASE SetDefault(p) \/ UnlinkLogo(p)
  BY <1>4, <1>5, <1>11, <1>i, Goes DEF SetDefault, UnlinkLogo
<1> QED
  BY <1>4, <1>5, <1>6, <1>7, <1>8, <1>10, <1>11, LoadsHold, LooksHold, SavesHold, UploadHolds DEF OwnerStep, AdminStep

-----------------------------------------------------------------------------
\* What holds of the tables and of a request as long as requests come one at a
\* time, and is kept by every step.
VenuesInvariant ==
    /\ TypeOK
    /\ AloneIsCurrent
    /\ SlugsDiffer
    /\ DefaultsAreKept
    /\ SlugsAreSpaced
    /\ LogosAreKept
    /\ RemovalsAreComplete

\* The steps around the requests change no venue, and begin and hold nothing.
LEMMA SurroundingsKeep ==
    ASSUME VenuesInvariant, (\E v \in Venue : Book(v)) \/ Tick \/ Restart \/ UNCHANGED vars
    PROVE  /\ AloneIsCurrent' /\ DefaultsAreKept' /\ SlugsAreSpaced' /\ LogosAreKept' /\ RemovalsAreComplete'
<1> USE DEF VenuesInvariant
<1>1. CASE Restart
  <2>1. \A p \in Request : request'[p] = Idle
    BY <1>1 DEF Restart
  <2>2. Idle.pc = "idle" /\ ~ whole' /\ UNCHANGED <<tables, today, history, alone>>
    BY <1>1 DEF Restart, Idle
  <2>3. AloneIsCurrent'
    BY <2>1, <2>2 DEF AloneIsCurrent, OneAtATime, HeldIsCurrent, HoldsRow, At
  <2>4. DefaultsAreKept'
    BY <2>1, <2>2 DEF DefaultsAreKept, DefaultsDiffer, PlansDefault, Defaults, OwnedBy, Exists, At, tables
  <2>5. SlugsAreSpaced'
    BY <2>1, <2>2 DEF SlugsAreSpaced, PlansSlug, Recorded, At, tables, history
  <2>6. LogosAreKept'
    BY <2>1, <2>2 DEF LogosAreKept, LogosDiffer, LogosAreOnDisk, PlansLogo, Exists, At, tables
  <2>7. RemovalsAreComplete'
    BY <2>1, <2>2 DEF RemovalsAreComplete, RemovalIsComplete, At, tables
  <2> QED
    BY <2>3, <2>4, <2>5, <2>6, <2>7
<1>2. ASSUME UNCHANGED <<venue, slugHistory, attached, files, uploads, request, slugChanges, whole>>,
             alone' => alone
      PROVE  AloneIsCurrent' /\ DefaultsAreKept' /\ LogosAreKept'
  <2>1. AloneIsCurrent'
    BY <1>2 DEF AloneIsCurrent, OneAtATime, HeldIsCurrent, At, Exists
  <2>2. DefaultsAreKept'
    BY <1>2 DEF DefaultsAreKept, DefaultsDiffer, OwnersHaveDefaults, Restoring, NoDefault, PlansDefault, Defaults, OwnedBy, Exists, At
  <2>3. LogosAreKept'
    BY <1>2 DEF LogosAreKept, LogosDiffer, LogosAreOnDisk, PlansLogo, Shown, Exists, At
  <2> QED
    BY <2>1, <2>2, <2>3
<1>3. ASSUME NEW v \in Venue, Book(v)
      PROVE  AloneIsCurrent' /\ DefaultsAreKept' /\ SlugsAreSpaced' /\ LogosAreKept' /\ RemovalsAreComplete'
  <2>1. /\ UNCHANGED <<venue, slugHistory, attached, files, uploads, request, slugChanges, whole, today>>
        /\ alone' = (alone /\ \A q \in Request : request[q] = Idle)
        /\ booked' = booked \cup {v} /\ venue[v].status = "active"
    BY <1>3 DEF Book, history
  <2>2. SlugsAreSpaced'
    BY <2>1 DEF SlugsAreSpaced, PlansSlug, Recorded, WithinLimits, At
  <2>3. RemovalIsComplete'
    BY <2>1 DEF RemovalsAreComplete, RemovalIsComplete
  <2>4. ASSUME alone', NEW p \in Request PROVE request'[p].pc = "idle"
    <3>1. \A q \in Request : request[q] = Idle
      BY <2>1, <2>4
    <3> QED
      BY <2>1, <3>1 DEF Idle
  <2>5. RemovalsAreComplete'
    BY <2>3, <2>4 DEF RemovalsAreComplete, At
  <2> QED
    BY <1>2, <2>1, <2>2, <2>5
<1>4. CASE Tick
  <2>1. /\ UNCHANGED <<venue, slugHistory, attached, booked, files, uploads, request, slugChanges, whole, alone>>
        /\ \A q \in Request : request[q] = Idle
    BY <1>4 DEF Tick, tables, history
  <2>2. SlugsAreSpaced'
    BY <2>1 DEF SlugsAreSpaced, PlansSlug, Recorded, At, Idle
  <2>3. RemovalsAreComplete'
    BY <2>1 DEF RemovalsAreComplete, RemovalIsComplete, At
  <2> QED
    BY <1>2, <2>1, <2>2, <2>3
<1>5. CASE UNCHANGED vars
  <2>1. UNCHANGED <<venue, slugHistory, attached, booked, files, uploads, request, slugChanges, whole, alone, today>>
    BY <1>5 DEF vars, tables, history
  <2>2. SlugsAreSpaced'
    BY <2>1 DEF SlugsAreSpaced, PlansSlug, Recorded, WithinLimits, At
  <2>3. RemovalsAreComplete'
    BY <2>1 DEF RemovalsAreComplete, RemovalIsComplete, At
  <2> QED
    BY <1>2, <2>1, <2>2, <2>3
<1> QED
  BY <1>1, <1>3, <1>4, <1>5

\* It holds in every reachable state, whatever restarts cut short.
THEOREM VenuesInvariance == Spec => []VenuesInvariant
<1>1. Init => AloneIsCurrent /\ SlugsDiffer /\ DefaultsAreKept /\ SlugsAreSpaced /\ LogosAreKept /\ RemovalsAreComplete
  <2> SUFFICES ASSUME Init
               PROVE  AloneIsCurrent /\ SlugsDiffer /\ DefaultsAreKept /\ SlugsAreSpaced /\ LogosAreKept /\ RemovalsAreComplete
    OBVIOUS
  <2>1. /\ \A v \in Venue : venue[v].status = "absent" /\ ~ Exists(v)
        /\ \A p \in Request : request[p] = Idle /\ request[p].pc = "idle"
        /\ \A v \in Venue : slugHistory[v] = <<>> /\ slugChanges[v] = <<>>
    BY DEF Init, Exists, VenueStatus, Idle
  <2>2. AloneIsCurrent /\ SlugsDiffer
    BY <2>1 DEF AloneIsCurrent, OneAtATime, HeldIsCurrent, HoldsRow, At, SlugsDiffer
  <2>3. DefaultsAreKept
    BY <2>1 DEF DefaultsAreKept, DefaultsDiffer, OwnersHaveDefaults, PlansDefault, Defaults, OwnedBy, At
  <2>4. SlugsAreSpaced
    BY <2>1 DEF SlugsAreSpaced, SpacedOut, Recorded, PlansSlug, At
  <2>5. LogosAreKept
    BY <2>1 DEF LogosAreKept, LogosDiffer, LogosAreOnDisk, PlansLogo, At
  <2>6. RemovalsAreComplete
    BY <2>1 DEF RemovalsAreComplete, RemovalIsComplete, At
  <2> QED
    BY <2>2, <2>3, <2>4, <2>5, <2>6
<1>2. VenuesInvariant /\ TypeOK' /\ [Next]_vars => VenuesInvariant'
  <2> SUFFICES ASSUME VenuesInvariant, TypeOK', [Next]_vars PROVE VenuesInvariant'
    OBVIOUS
  <2>1. SlugsDiffer'
    BY SlugsStayDifferent DEF VenuesInvariant
  <2>2. ASSUME NEW p \in Request, OwnerStep(p) \/ AdminStep(p)
        PROVE  AloneIsCurrent' /\ DefaultsAreKept' /\ SlugsAreSpaced' /\ LogosAreKept' /\ RemovalsAreComplete'
    BY <2>2, StepKeepsCurrent, StepKeepsDefaults, StepKeepsSlugs, StepKeepsLogos, StepKeepsRemovals DEF VenuesInvariant
  <2>3. CASE (\E v \in Venue : Book(v)) \/ Tick \/ Restart \/ UNCHANGED vars
    BY <2>1, <2>3, SurroundingsKeep DEF VenuesInvariant
  <2> QED
    BY <2>1, <2>2, <2>3 DEF Next, Request, VenuesInvariant
<1> QED
  BY <1>1, <1>2, VenuesTypeCorrect, PTL DEF Spec, VenuesInvariant

\* One request at a time, an owner has one default venue at most, and one
\* exactly when no request is in progress and none was ever cut short.
THEOREM OwnersHaveOneDefault == Spec => []OneDefault
<1>1. VenuesInvariant => OneDefault
  <2> SUFFICES ASSUME VenuesInvariant, alone, NEW o \in Owner
               PROVE  /\ Cardinality(Defaults(o)) <= 1
                      /\ (whole /\ AllIdle /\ OwnedBy(o) # {}) => Defaults(o) # {}
    BY DEF OneDefault
  <2>1. \A u, v \in Defaults(o) : u = v
    BY DEF VenuesInvariant, DefaultsAreKept, DefaultsDiffer
  <2>2. Cardinality(Defaults(o)) <= 1
    BY <2>1, AtMostOneCounts
  <2>3. ASSUME whole, AllIdle, OwnedBy(o) # {} PROVE Defaults(o) # {}
    <3>1. \A p \in Request : ~ Restoring(p, o)
      BY <2>3 DEF AllIdle, Idle, Restoring, At
    <3> QED
      BY <2>3, <3>1 DEF VenuesInvariant, DefaultsAreKept, OwnersHaveDefaults, NoDefault, Defaults
  <2> QED
    BY <2>2, <2>3
<1> QED
  BY <1>1, VenuesInvariance, PTL

\* One request at a time, a public slug changes as seldom as the limits say,
\* for any limits, restarts and failed saves.
THEOREM SlugChangesKeepTheLimits == Spec => []SlugChangesAreLimited
<1>1. VenuesInvariant => SlugChangesAreLimited
  BY DEF VenuesInvariant, SlugsAreSpaced, SlugChangesAreLimited, SpacedOut
<1> QED
  BY <1>1, VenuesInvariance, PTL

\* One request at a time, a venue never shows a logo that is gone.
THEOREM LogosStayOnDisk == Spec => []LogoIsOnDisk
<1>1. VenuesInvariant => LogoIsOnDisk
  BY DEF VenuesInvariant, LogosAreKept, LogosAreOnDisk, LogoIsOnDisk
<1> QED
  BY <1>1, VenuesInvariance, PTL

\* One request at a time, a removed venue leaves nothing but its hours.
THEOREM RemovalsLeaveNothing == Spec => []RemovalIsComplete
<1>1. VenuesInvariant => RemovalIsComplete
  BY DEF VenuesInvariant, RemovalsAreComplete
<1> QED
  BY <1>1, VenuesInvariance, PTL

\* One request at a time, decisions and removals stand.
THEOREM VenueDecisionsStand == Spec => DecisionsStand
<1>1. VenuesInvariant /\ [Next]_vars
        => [alone' => \A v \in Venue :
              /\ venue[v].status \in {"active", "rejected"} => venue'[v].status \in {venue[v].status, "removed"}
              /\ venue[v].status = "removed" => venue'[v].status = "removed"]_vars
  <2> SUFFICES ASSUME VenuesInvariant, [Next]_vars, alone' PROVE StatusStands
    BY DEF StatusStands
  <2>1. ASSUME NEW p \in Request, OwnerStep(p) \/ AdminStep(p) PROVE StatusStands
    BY <2>1, StatusMoves DEF VenuesInvariant, SameStatus, StatusStands, Exists, VenueStatus
  <2>2. ASSUME venue' = venue PROVE StatusStands
    BY <2>2 DEF StatusStands
  <2>3. CASE (\E v \in Venue : Book(v)) \/ Tick \/ Restart \/ UNCHANGED vars
    BY <2>2, <2>3 DEF Book, Tick, Restart, vars, tables
  <2> QED
    BY <2>1, <2>3 DEF Next, Request
<1> QED
  BY <1>1, VenuesInvariance, PTL DEF Spec, DecisionsStand
=============================================================================
