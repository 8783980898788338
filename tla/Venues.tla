------------------------------- MODULE Venues -------------------------------
(***************************************************************************)
(* VenuesService (apps/api/src/courts/venues.service.ts): the venue rows,  *)
(* which of an owner's venues is the default, the public slugs with the    *)
(* history that limits their changes, approval, logo files and removal.    *)
(*                                                                         *)
(* A request in progress is a record of what it has read and not yet used. *)
(* save(entity) writes the row that was READ with the handler's change,    *)
(* inserts it when it is gone, and fails on the unique index of the slugs. *)
(***************************************************************************)
EXTENDS Integers, Sequences, FiniteSets

CONSTANTS
    Owner,
    MaxVenue,       \* ids are 1..MaxVenue, in order of created_at
    Slug,
    Process,        \* requests of owners that may be in progress together
    Admin,          \* approvals and rejections, likewise
    MinGap,         \* 60 days, in the unit of the clock
    Window,         \* 180 days
    MaxChanges,     \* 3
    LastDay,        \* bound of the clock
    MaxLogo,        \* bound of the logos uploaded
    Mixes           \* what may happen in one behaviour: sets of the kinds below

ASSUME VenuesAssumption ==
    /\ MaxVenue \in Nat /\ LastDay \in Nat /\ MaxLogo \in Nat
    /\ Process \cap Admin = {}
    /\ MinGap \in Nat /\ Window \in Nat /\ MaxChanges \in Nat \ {0}

Request == Process \cup Admin
Venue == 1..MaxVenue
VenueStatus == {"pending_approval", "active", "rejected"}
NoLogo == 0

VenueRow == [status: VenueStatus \cup {"absent", "removed"}, owner: Owner,
             isDefault: BOOLEAN, isHidden: BOOLEAN, slug: Slug, logo: 0..MaxLogo]

Kind == {"create", "update", "rename", "default", "remove", "logo", "child",
         "decide", "book", "day", "restart"}

ASSUME MixesAssumption == Mixes \subseteq SUBSET Kind

\* What remove must take along, beside the slug history.
Dependent == {"court", "image", "hours"}

VARIABLES
    venue,          \* [Venue -> VenueRow]
    slugHistory,    \* [Venue -> days of the rows of venue_slug_history, oldest first]
    attached,       \* [Venue -> SUBSET Dependent], rows of other tables
    booked,         \* venues with a booking
    files,          \* logos on disk, named in the order of their uploads
    uploads,        \* how many were uploaded
    mix,            \* the kinds of this behaviour; never changes
    request,        \* [Request -> progress]
    today,
    approved,       \* history: venues an admin's approval was saved for
    slugChanges,    \* history: days on which the row's slug really changed
    alone,          \* history: no two requests overlapped so far
    whole           \* history: no restart cut a request short so far

tables == <<venue, slugHistory, attached, booked, files, uploads>>
history == <<approved, slugChanges>>
vars == <<tables, mix, request, today, history, alone, whole>>

Idle == [pc |-> "idle"]
Exists(v) == venue[v].status \in VenueStatus
OwnedBy(o) == {v \in Venue : Exists(v) /\ venue[v].owner = o}
SlugTakenByOther(s, v) == \E u \in Venue \ {v} : Exists(u) /\ venue[u].slug = s

Holding(pcs) == [pc: pcs, id: Venue, row: VenueRow]
Progress ==
    {Idle}
    \cup [pc: {"name"}, owner: Owner, isDefault: BOOLEAN]
    \cup [pc: {"insert"}, owner: Owner, isDefault: BOOLEAN, slug: Slug]
    \cup Holding({"update", "promote", "approve", "reject", "counted"})
    \cup [pc: {"limits", "record", "rename"}, id: Venue, row: VenueRow, slug: Slug]
    \cup [pc: {"logo"}, id: Venue, row: VenueRow, logo: 1..MaxLogo]
    \cup [pc: {"unlink"}, old: 0..MaxLogo]
    \cup [pc: {"setDefault"}, id: Venue, owner: Owner]
    \cup [pc: {"reassign"}, owner: Owner]
    \cup [pc: {"attach", "detach"}, id: Venue, what: Dependent]

\* Every column and every request in progress holds a value of its type.
TypeOK ==
    /\ venue \in [Venue -> VenueRow]
    /\ slugHistory \in [Venue -> Seq(0..LastDay)]
    /\ attached \in [Venue -> SUBSET Dependent]
    /\ booked \subseteq Venue
    /\ files \subseteq 1..uploads
    /\ uploads \in 0..MaxLogo
    /\ request \in [Request -> Progress]
    /\ mix \in Mixes
    /\ today \in 0..LastDay
    /\ approved \subseteq Venue
    /\ slugChanges \in [Venue -> Seq(0..LastDay)]
    /\ alone \in BOOLEAN
    /\ whole \in BOOLEAN

Init ==
    /\ \E o \in Owner, s \in Slug :
        venue = [v \in Venue |-> [status |-> "absent", owner |-> o, isDefault |-> FALSE,
                                  isHidden |-> FALSE, slug |-> s, logo |-> NoLogo]]
    /\ slugHistory = [v \in Venue |-> <<>>]
    /\ attached = [v \in Venue |-> {}]
    /\ booked = {}
    /\ files = {}
    /\ uploads = 0
    /\ request = [p \in Request |-> Idle]
    /\ mix \in Mixes
    /\ today = 0
    /\ approved = {}
    /\ slugChanges = [v \in Venue |-> <<>>]
    /\ alone = TRUE
    /\ whole = TRUE

-----------------------------------------------------------------------------
(* Steps of a request: how it begins, goes on and ends.                    *)

Begin(p, kind, progress) ==
    /\ kind \in mix
    /\ request[p] = Idle
    /\ request' = [request EXCEPT ![p] = progress]
    /\ alone' = (alone /\ \A q \in Request : request[q] = Idle)
    /\ UNCHANGED <<tables, mix, today, history, whole>>

At(p, pc) == request[p].pc = pc

GoTo(p, progress) ==
    /\ request' = [request EXCEPT ![p] = progress]
    /\ UNCHANGED <<mix, today, alone, whole>>

\* A step that only reads, or an exception that ends the request.
ReadOnly(p, progress) == GoTo(p, progress) /\ UNCHANGED <<tables, history>>
Fail(p) == ReadOnly(p, Idle)

\* save(row) of venue v by p, which then goes on as next says.
Save(p, v, row, next) ==
    IF SlugTakenByOther(row.slug, v)
    THEN Fail(p)
    ELSE /\ venue' = [venue EXCEPT ![v] = row]
         /\ GoTo(p, next)
         /\ UNCHANGED <<slugHistory, attached, booked, files, uploads, history>>

-----------------------------------------------------------------------------
(* create *)

\* create, up to its count of the owner's venues.
CountVenues(p, o) ==
    Begin(p, "create", [pc |-> "name", owner |-> o, isDefault |-> OwnedBy(o) = {}])

\* resolveSlugForCreate: the slug asked for, or one made from the name with a
\* random suffix; either was free when it was looked up.
ChooseSlug(p, s) ==
    /\ At(p, "name")
    /\ ~ SlugTakenByOther(s, 0)
    /\ ReadOnly(p, [pc |-> "insert", owner |-> request[p].owner,
                    isDefault |-> request[p].isDefault, slug |-> s])

\* The slug asked for is taken, or twenty candidates are.
RefuseSlug(p) ==
    /\ At(p, "name")
    /\ \E v \in Venue : Exists(v)
    /\ Fail(p)

\* Mutant: a new venue is public at once.
InsertVenueActive(p, v) ==
    /\ At(p, "insert")
    /\ venue[v].status = "absent"
    /\ \A u \in 1..(v - 1) : venue[u].status # "absent"
    /\ Save(p, v, [status |-> "active", owner |-> request[p].owner,
                   isDefault |-> request[p].isDefault, isHidden |-> FALSE,
                   slug |-> request[p].slug, logo |-> NoLogo], Idle)

\* create, its save.
InsertVenue(p, v) ==
    /\ At(p, "insert")
    /\ venue[v].status = "absent"
    /\ \A u \in 1..(v - 1) : venue[u].status # "absent"
    /\ Save(p, v, [status |-> "pending_approval", owner |-> request[p].owner,
                   isDefault |-> request[p].isDefault, isHidden |-> FALSE,
                   slug |-> request[p].slug, logo |-> NoLogo], Idle)

-----------------------------------------------------------------------------
(* update *)

Load(p, v, kind, pc) ==
    /\ Exists(v)
    /\ Begin(p, kind, [pc |-> pc, id |-> v, row |-> venue[v]])

\* update, up to its read of the venue.
LoadForUpdate(p, v) == Load(p, v, "update", "update")

\* update without a new slug: its save of the row read.
SaveUpdate(p, isHidden) ==
    /\ At(p, "update")
    /\ Save(p, request[p].id, [request[p].row EXCEPT !.isHidden = isHidden], Idle)

\* changeSlug, up to the look-up of the new slug.
CheckSlugFree(p, s) ==
    /\ "rename" \in mix
    /\ At(p, "update")
    /\ s # request[p].row.slug
    /\ ~ SlugTakenByOther(s, request[p].id)
    /\ ReadOnly(p, [pc |-> "limits", id |-> request[p].id, row |-> request[p].row, slug |-> s])

RefuseNewSlug(p, s) ==
    /\ "rename" \in mix
    /\ At(p, "update")
    /\ s # request[p].row.slug
    /\ SlugTakenByOther(s, request[p].id)
    /\ Fail(p)

\* Mutant: a change that is exactly as old as the window no longer counts.
WithinLimitsLoosely(days, day) ==
    /\ Cardinality({i \in DOMAIN days : days[i] > day - Window}) < MaxChanges
    /\ days # <<>> => days[Len(days)] <= day - MinGap

\* The limits on the rows of venue_slug_history: fewer than three in 180 days,
\* none in the last 60.
WithinLimits(days, day) ==
    /\ Cardinality({i \in DOMAIN days : days[i] >= day - Window}) < MaxChanges
    /\ days # <<>> => days[Len(days)] <= day - MinGap

\* changeSlug, its count and its last row, two reads of one table.
CheckLimits(p) ==
    /\ At(p, "limits")
    /\ WithinLimits(slugHistory[request[p].id], today)
    /\ ReadOnly(p, [request[p] EXCEPT !.pc = "record"])

RefuseLimits(p) ==
    /\ At(p, "limits")
    /\ ~ WithinLimits(slugHistory[request[p].id], today)
    /\ Fail(p)

\* changeSlug, its transaction: the old slug is recorded.
RecordChange(p) ==
    /\ At(p, "record")
    /\ slugHistory' = [slugHistory EXCEPT ![request[p].id] = Append(@, today)]
    /\ GoTo(p, [request[p] EXCEPT !.pc = "rename"])
    /\ UNCHANGED <<venue, attached, booked, files, uploads, history>>

\* update, its save of the row with the new slug.
SaveSlug(p, isHidden) ==
    /\ At(p, "rename")
    /\ LET v == request[p].id
           row == [request[p].row EXCEPT !.slug = request[p].slug, !.isHidden = isHidden]
       IN  IF SlugTakenByOther(row.slug, v)
           THEN Fail(p)
           ELSE /\ venue' = [venue EXCEPT ![v] = row]
                /\ slugChanges' = [slugChanges EXCEPT ![v] = Append(@, today)]
                /\ GoTo(p, Idle)
                /\ UNCHANGED <<slugHistory, attached, booked, files, uploads, approved>>

-----------------------------------------------------------------------------
(* setDefault *)

LoadForDefault(p, v) ==
    /\ Exists(v)
    /\ Begin(p, "default", [pc |-> "setDefault", id |-> v, owner |-> venue[v].owner])

\* Mutant: the flag of the former default is not cleared.
SetDefaultFlag(row, v, chosen, o) == IF v = chosen THEN TRUE ELSE row.isDefault

\* The two UPDATEs of setDefault: all of the owner's flags, then the chosen row's.
DefaultFlag(row, v, chosen, o) ==
    IF v = chosen THEN TRUE ELSE row.isDefault /\ row.owner # o

\* setDefault, its transaction; it changes rows that exist, whatever became of
\* the one chosen.
SetDefault(p) ==
    /\ At(p, "setDefault")
    /\ venue' = [v \in Venue |-> IF Exists(v)
                    THEN [venue[v] EXCEPT !.isDefault =
                            DefaultFlag(venue[v], v, request[p].id, request[p].owner)]
                    ELSE venue[v]]
    /\ GoTo(p, Idle)
    /\ UNCHANGED <<slugHistory, attached, booked, files, uploads, history>>

-----------------------------------------------------------------------------
(* remove *)

\* remove, up to its count of the bookings of the venue's courts.
CountBookings(p, v) ==
    /\ v \notin booked
    /\ Load(p, v, "remove", "counted")

\* Mutant: the images stay behind.
TakenAlong == {"court"}

\* The tables remove deletes from, beside venue_slug_history and venues.
Cascade == {"court", "image"}

\* remove, its transaction.  It goes on if the row READ was the default one.
DeleteVenue(p) ==
    /\ At(p, "counted")
    /\ LET v == request[p].id IN
        /\ venue' = [venue EXCEPT ![v].status = "removed"]
        /\ slugHistory' = [slugHistory EXCEPT ![v] = <<>>]
        /\ attached' = [attached EXCEPT ![v] = @ \ Cascade]
        /\ slugChanges' = [slugChanges EXCEPT ![v] = <<>>]
        /\ GoTo(p, IF request[p].row.isDefault
                   THEN [pc |-> "reassign", owner |-> request[p].row.owner]
                   ELSE Idle)
    /\ UNCHANGED <<booked, files, uploads, approved>>

\* remove, its read of the venues that remain: the oldest one is next.
FindRemaining(p) ==
    /\ At(p, "reassign")
    /\ LET remaining == OwnedBy(request[p].owner) IN
        \/ remaining = {} /\ Fail(p)
        \/ \E oldest \in remaining :
            /\ \A v \in remaining : oldest <= v
            /\ ReadOnly(p, [pc |-> "promote", id |-> oldest, row |-> venue[oldest]])

Promote(p) ==
    /\ At(p, "promote")
    /\ Save(p, request[p].id, [request[p].row EXCEPT !.isDefault = TRUE], Idle)

-----------------------------------------------------------------------------
(* Logo, images, operating hours, courts *)

\* uploadLogo, up to its read of the venue; the file is on disk before that.
LoadForLogo(p, v) ==
    /\ Exists(v)
    /\ "logo" \in mix
    /\ uploads < MaxLogo
    /\ request[p] = Idle
    /\ uploads' = uploads + 1
    /\ files' = files \cup {uploads + 1}
    /\ request' = [request EXCEPT ![p] =
                    [pc |-> "logo", id |-> v, row |-> venue[v], logo |-> uploads + 1]]
    /\ alone' = (alone /\ \A q \in Request : request[q] = Idle)
    /\ UNCHANGED <<venue, slugHistory, attached, booked, mix, today, history, whole>>

\* Mutant: the new logo is removed in place of the old one.
SaveLogoUnlinkNew(p) ==
    /\ At(p, "logo")
    /\ Save(p, request[p].id, [request[p].row EXCEPT !.logo = request[p].logo],
            [pc |-> "unlink", old |-> request[p].logo])

SaveLogo(p) ==
    /\ At(p, "logo")
    /\ Save(p, request[p].id, [request[p].row EXCEPT !.logo = request[p].logo],
            [pc |-> "unlink", old |-> request[p].row.logo])

\* uploadLogo, the removal of the former logo, if there was one.
UnlinkLogo(p) ==
    /\ At(p, "unlink")
    /\ files' = files \ {request[p].old}
    /\ GoTo(p, Idle)
    /\ UNCHANGED <<venue, slugHistory, attached, booked, uploads, history>>

\* addImage, setOperatingHours and the creation of a court, up to the read of
\* the venue; removeImage likewise.
LoadForChild(p, v, what) ==
    /\ Exists(v)
    /\ \/ Begin(p, "child", [pc |-> "attach", id |-> v, what |-> what])
       \/ /\ what = "image" /\ what \in attached[v]
          /\ Begin(p, "child", [pc |-> "detach", id |-> v, what |-> what])

SaveChild(p) ==
    /\ request[p].pc \in {"attach", "detach"}
    /\ attached' = [attached EXCEPT ![request[p].id] =
            IF At(p, "attach") THEN @ \cup {request[p].what} ELSE @ \ {request[p].what}]
    /\ GoTo(p, Idle)
    /\ UNCHANGED <<venue, slugHistory, booked, files, uploads, history>>

-----------------------------------------------------------------------------
(* approveVenue, rejectVenue: transitionStatus *)

\* Mutant: a venue that was decided about may be decided about again.
ReadAnyForDecision(p, v) ==
    \E pc \in {"approve", "reject"} : Load(p, v, "decide", pc)

\* transitionStatus, up to its check that the venue is pending.
ReadPending(p, v) ==
    /\ venue[v].status = "pending_approval"
    /\ \E pc \in {"approve", "reject"} : Load(p, v, "decide", pc)

\* Mutant: the action is saved in place of the status.
DecisionAsVerb(p) == request[p].pc

Decision(p) == IF At(p, "approve") THEN "active" ELSE "rejected"

SaveDecision(p) ==
    /\ request[p].pc \in {"approve", "reject"}
    /\ LET v == request[p].id
           row == [request[p].row EXCEPT !.status = Decision(p)]
       IN  IF SlugTakenByOther(row.slug, v)
           THEN Fail(p)
           ELSE /\ venue' = [venue EXCEPT ![v] = row]
                /\ approved' = IF At(p, "approve") THEN approved \cup {v} ELSE approved
                /\ GoTo(p, Idle)
                /\ UNCHANGED <<slugHistory, attached, booked, files, uploads, slugChanges>>

-----------------------------------------------------------------------------
(* What happens around the requests *)

\* A customer books a court of an approved venue; that counts as a request.
Book(v) ==
    /\ "book" \in mix
    /\ venue[v].status = "active"
    /\ "court" \in attached[v]
    /\ booked' = booked \cup {v}
    /\ alone' = (alone /\ \A q \in Request : request[q] = Idle)
    /\ UNCHANGED <<venue, slugHistory, attached, files, uploads, mix, request, today, history, whole>>

\* A day, or the unit that stands for several; requests take minutes.
Tick ==
    /\ "day" \in mix
    /\ today < LastDay
    /\ \A p \in Request : request[p] = Idle
    /\ today' = today + 1
    /\ UNCHANGED <<tables, mix, request, history, alone, whole>>

\* The server restarts: requests in progress are gone, rows and files stay.
Restart ==
    /\ "restart" \in mix
    /\ \E p \in Request : request[p] # Idle
    /\ request' = [p \in Request |-> Idle]
    /\ whole' = FALSE
    /\ UNCHANGED <<tables, mix, today, history, alone>>

OwnerStep(p) ==
    \/ \E o \in Owner : CountVenues(p, o)
    \/ \E s \in Slug : ChooseSlug(p, s) \/ CheckSlugFree(p, s) \/ RefuseNewSlug(p, s)
    \/ RefuseSlug(p)
    \/ \E isHidden \in BOOLEAN : SaveUpdate(p, isHidden) \/ SaveSlug(p, isHidden)
    \/ CheckLimits(p) \/ RefuseLimits(p) \/ RecordChange(p)
    \/ SetDefault(p)
    \/ DeleteVenue(p) \/ FindRemaining(p) \/ Promote(p)
    \/ SaveLogo(p) \/ UnlinkLogo(p)
    \/ SaveChild(p)
    \/ \E v \in Venue :
        \/ InsertVenue(p, v)
        \/ LoadForUpdate(p, v)
        \/ LoadForDefault(p, v)
        \/ CountBookings(p, v)
        \/ LoadForLogo(p, v)
        \/ \E what \in Dependent : LoadForChild(p, v, what)

AdminStep(a) ==
    \/ \E v \in Venue : ReadPending(a, v)
    \/ SaveDecision(a)

Next ==
    \/ \E p \in Process : OwnerStep(p)
    \/ \E a \in Admin : AdminStep(a)
    \/ \E v \in Venue : Book(v)
    \/ Tick
    \/ Restart

Spec == Init /\ [][Next]_vars

-----------------------------------------------------------------------------
(* Properties.  Several hold only as long as requests come one at a time   *)
(* (alone): the service locks nothing.                                     *)

AllIdle == \A p \in Request : request[p] = Idle
Defaults(o) == {v \in OwnedBy(o) : venue[v].isDefault}

\* An owner never has two default venues, whatever restarts cut short; and as
\* long as none did, an owner with venues has one whenever no request is in
\* progress (create, setDefault, remove).
OneDefault ==
    alone => \A o \in Owner :
        /\ Cardinality(Defaults(o)) <= 1
        /\ (whole /\ AllIdle /\ OwnedBy(o) # {}) => Defaults(o) # {}

\* What the design says of is_default, of any requests: never two of them.
AtMostOneDefault == \A o \in Owner : Cardinality(Defaults(o)) <= 1

\* A venue's public slug changes at most three times in any 180 days and stays
\* for 60 days at least, also when a recorded change was never saved (changeSlug).
SlugChangesAreLimited ==
    alone => \A v \in Venue : \A i, j \in DOMAIN slugChanges[v] :
        i < j => /\ slugChanges[v][j] - slugChanges[v][i] >= MinGap
                 /\ j - i >= MaxChanges => slugChanges[v][j] - slugChanges[v][i] > Window

\* Only a venue an admin approved is ever active, whatever stale rows updates,
\* logo uploads, promotions and decisions write back.
ActiveMeansApproved ==
    \A v \in Venue : venue[v].status = "active" => v \in approved

\* The logo a venue shows is on disk (uploadLogo removes the former one).
LogoIsOnDisk ==
    alone => \A v \in Venue : Exists(v) /\ venue[v].logo # NoLogo => venue[v].logo \in files

\* A venue that is removed leaves neither courts nor images nor slug history
\* behind, nor a booking that had been made in it; its operating hours do stay.
RemovalIsComplete ==
    alone => \A v \in Venue : venue[v].status = "removed" =>
        /\ attached[v] \subseteq {"hours"}
        /\ slugHistory[v] = <<>>
        /\ v \notin booked

\* An approval or rejection is not changed, and a removed venue does not come
\* back, while requests come one at a time (transitionStatus, save).
DecisionsStand ==
    [][alone' => \A v \in Venue :
        /\ venue[v].status \in {"active", "rejected"} => venue'[v].status \in {venue[v].status, "removed"}
        /\ venue[v].status = "removed" => venue'[v].status = "removed"]_vars
=============================================================================
