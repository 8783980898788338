----------------------------- MODULE BookingPage -----------------------------
(***************************************************************************)
(* The public booking page (apps/web, dat-san/page.tsx) of one customer    *)
(* against the server, with other customers booking meanwhile.             *)
(*                                                                         *)
(* A place is a court on a date: the page's courtId and date, which change *)
(* one at a time but always as here, one value to another.  Slots of a     *)
(* place are numbered from 1; a list of availability is a place and the    *)
(* slots of it that are free, which is all the page looks at.              *)
(***************************************************************************)
EXTENDS Integers, FiniteSets

CONSTANTS
    Place,      \* courts on dates
    Foreign,    \* those whose court is another venue's: only a link names them
    First,      \* where the page starts without a usable court in the link
    Length,     \* [Place -> number of slots of its grid]
    Durations,  \* DURATION_OPTIONS, in slots
    MaxOthers,  \* bound of the slots booked by other customers
    MaxLoad,    \* bound of the availability requests under way together
    MaxPost,    \* bound of the orders under way together
    NoPlace, NoList

ASSUME BookingPageAssumption ==
    /\ Foreign \subseteq Place /\ NoPlace \notin Place
    /\ First \in (Place \ Foreign) \cup {NoPlace}
    /\ Length \in [Place -> Nat]
    /\ 1 \in Durations /\ Durations \subseteq Nat \ {0}
    /\ MaxOthers \in Nat /\ MaxLoad \in Nat \ {0} /\ MaxPost \in Nat \ {0}

Load == 1..MaxLoad
Post == 1..MaxPost

Slots(p) == 1..Length[p]

VARIABLES
    venue,      \* the venue's own request: "loading", "shown" or "missing"
    place,      \* the court and date selected
    list,       \* the slots on the screen: NoList, or of which place and the free ones
    pick,       \* selectedIndex, 0 for none
    duration,   \* durationSlots
    preset,     \* the link's start time, 0 once applied or when there is none
    submitting,
    confirmed,  \* the order the page reports as made, <<>> before
    load,       \* [Load -> the place an availability request under way asks of]
    post,       \* [Post -> order under way]
    taken,      \* the server: [Place -> booked slots]
    mine,       \* the server: the orders of this page that were booked
    patience,   \* history: "waits"; "early", a duration was chosen while a list was on
                \* its way; or "hasty", something else was (Hasty)
    lost        \* history: the answer to an order did not reach the page as sent (bound: once)

choice == <<place, pick, duration, preset>>
server == <<taken, mine>>
vars == <<venue, choice, list, submitting, confirmed, load, post, server, patience, lost>>

NoPost == [at |-> "none"]
SlotsFrom(from, n) == from..(from + n - 1)

Slot == UNION {Slots(p) : p \in Place}
Lists == [of: Place, free: SUBSET Slot]
Order == [of: Place, from: Slot, n: Durations, seen: Place]

\* A list has only slots of its place, and an order under way was confirmed
\* on a page that showed a list.
TypeOK ==
    /\ venue \in {"loading", "shown", "missing"}
    /\ place \in Place \cup {NoPlace}
    /\ list = NoList \/ (list \in Lists /\ list.free \subseteq Slots(list.of))
    /\ pick \in {0} \cup Slot /\ duration \in Durations /\ preset \in {0} \cup Slot
    /\ submitting \in BOOLEAN
    /\ load \in [Load -> Place \cup {NoPlace}]
    /\ post \in [Post -> {NoPost} \cup [at: {"sent", "booked", "taken", "refused"}, order: Order]]
    /\ taken \in [Place -> SUBSET Slot] /\ \A p \in Place : taken[p] \subseteq Slots(p)
    /\ mine \subseteq Order /\ (confirmed = <<>> \/ confirmed \in Order)
    /\ patience \in {"waits", "early", "hasty"} /\ lost \in BOOLEAN

Loading == \E l \in Load : load[l] # NoPlace
Posting == \E q \in Post : post[q] # NoPost

\* The customer did not wait, or the network made things overlap.
Hasty(overlap) == patience' = IF overlap THEN "hasty" ELSE patience

\* The page reads slots[selectedIndex + durationSlots - 1].end of the slots it
\* shows when a slot is selected: past their end there is none, and React
\* takes the page down.
Broken ==
    /\ venue = "shown" /\ confirmed = <<>> /\ list # NoList
    /\ pick # 0 /\ pick + duration - 1 > Length[list.of]

Usable == venue = "shown" /\ confirmed = <<>> /\ ~Broken

Request(p) ==
    \E l \in Load :
        /\ load[l] = NoPlace /\ \A k \in 1..(l - 1) : load[k] # NoPlace
        /\ load' = [load EXCEPT ![l] = p]

\* Mutant: the effect does not ask for the list of the new court or date.
SelectSilently(p) ==
    /\ place' = p
    /\ IF p = NoPlace THEN UNCHANGED <<pick, duration>> ELSE pick' = 0 /\ duration' = 1
    /\ UNCHANGED load

(* The effect of a new court or date: the choice of a time starts again, a *)
(* list is asked for, and the one on the screen stays until it comes.      *)
Select(p) ==
    /\ place' = p
    /\ IF p = NoPlace
       THEN UNCHANGED <<pick, duration, load>>
       ELSE pick' = 0 /\ duration' = 1 /\ Request(p)

\* The page opens on a link that may name a court, a date and a start.
Init ==
    /\ venue = "loading" /\ place \in Place \cup {NoPlace} /\ preset \in {0} \cup Slot
    /\ list = NoList /\ pick = 0 /\ duration = 1
    /\ submitting = FALSE /\ confirmed = <<>>
    /\ load = [l \in Load |-> IF l = 1 THEN place ELSE NoPlace]
    /\ post = [q \in Post |-> NoPost]
    /\ taken = [p \in Place |-> {}]
    /\ mine = {} /\ patience = "waits" /\ lost = FALSE

(* The venue's answer: a court that is not the venue's gives way to its    *)
(* first one.                                                              *)
VenueArrives ==
    /\ venue = "loading" /\ venue' = "shown"
    /\ IF place \in Place \ Foreign
       THEN UNCHANGED <<choice, load, patience>>
       ELSE /\ Select(First)
            /\ Hasty(Loading)
            /\ UNCHANGED <<preset>>
    /\ UNCHANGED <<list, submitting, confirmed, post, server, lost>>

VenueMissing ==
    /\ venue = "loading" /\ venue' = "missing"
    /\ UNCHANGED <<choice, list, submitting, confirmed, load, post, server, patience, lost>>

ChangePlace(p) ==
    /\ Usable /\ p \in Place \ Foreign /\ p # place
    /\ Select(p)
    /\ Hasty(Loading \/ Posting)
    /\ UNCHANGED <<venue, preset, list, submitting, confirmed, post, server, lost>>

SelectDuration(n) ==
    /\ Usable
    /\ duration' = n /\ pick' = 0
    /\ patience' = IF Loading /\ patience = "waits" THEN "early" ELSE patience
    /\ UNCHANGED <<venue, place, preset, list, submitting, confirmed, load, post, server, lost>>

\* computeMaxConsecutiveDuration: the run of free slots that starts at i.
MaxConsecutive(i) ==
    LET Run == {n \in 1..(Length[list.of] - i + 1) : SlotsFrom(i, n) \subseteq list.free}
    IN Cardinality(Run)

\* Mutant: a start is offered whenever its own slot is free.
FreeStart(i) == i \in list.free

Offered(i) == i \in list.free /\ MaxConsecutive(i) >= duration

PickSlot(i) ==
    /\ Usable /\ list # NoList /\ i \in Slots(list.of)
    /\ Offered(i)
    /\ pick' = (IF pick = i THEN 0 ELSE i)
    /\ Hasty(Loading)
    /\ UNCHANGED <<venue, place, duration, preset, list, submitting, confirmed,
                   load, post, server, lost>>

\* The start the link named is selected with the first list that comes,
\* whatever place it is of and whatever duration was chosen.
ApplyPreset(free) ==
    /\ pick' = IF preset \in free THEN preset ELSE pick
    /\ preset' = 0

(* A list is shown when it comes, whatever is selected by then.  It is of  *)
(* the moment it comes: an older one is what the screen keeps for a while. *)
AvailabilityArrives(l) ==
    /\ load[l] # NoPlace /\ ~Broken
    /\ LET free == Slots(load[l]) \ taken[load[l]]
       IN list' = [of |-> load[l], free |-> free] /\ ApplyPreset(free)
    /\ load' = [load EXCEPT ![l] = NoPlace]
    /\ UNCHANGED <<venue, place, duration, submitting, confirmed, post, server, patience, lost>>

(* The API refuses: no list is shown. *)
AvailabilityRefused(l) ==
    /\ load[l] # NoPlace /\ ~Broken
    /\ list' = NoList
    /\ load' = [load EXCEPT ![l] = NoPlace]
    /\ UNCHANGED <<venue, choice, submitting, confirmed, post, server, patience, lost>>

(* The request fails on the way: nobody catches it, the old list stays. *)
AvailabilityLost(l) ==
    /\ load[l] # NoPlace
    /\ load' = [load EXCEPT ![l] = NoPlace]
    /\ Hasty(TRUE)
    /\ UNCHANGED <<venue, choice, list, submitting, confirmed, post, server, lost>>

\* Mutant: the button stays enabled while an order is under way.
CanConfirmAgain == list # NoList /\ pick # 0

CanConfirm == ~submitting /\ list # NoList /\ pick # 0

(* handleConfirm: the order is the selected court and date with the times  *)
(* of the slots on the screen (and the name and phone, taken to be filled  *)
(* in).                                                                    *)
Confirm ==
    /\ Usable /\ place # NoPlace /\ CanConfirm
    /\ submitting' = TRUE
    /\ \E q \in Post :
        /\ post[q] = NoPost /\ \A k \in 1..(q - 1) : post[k] # NoPost
        /\ post' = [post EXCEPT ![q] = [at |-> "sent",
               order |-> [of |-> place, from |-> pick, n |-> duration, seen |-> list.of]]]
    /\ Hasty(Loading)
    /\ UNCHANGED <<venue, choice, list, confirmed, load, server, lost>>

\* Mutant: an order is not held against the grid of its court.
FreeAnywhere(o) == SlotsFrom(o.from, o.n) \cap taken[o.of] = {}

FreeOnGrid(o) == SlotsFrom(o.from, o.n) \subseteq Slots(o.of) \ taken[o.of]

(* The API books slots of the grid that are free, all or none. *)
Book(q) ==
    /\ post[q].at = "sent"
    /\ LET o == post[q].order
           slots == SlotsFrom(o.from, o.n)
       IN \/ /\ FreeOnGrid(o)
             /\ taken' = [taken EXCEPT ![o.of] = @ \cup slots]
             /\ mine' = mine \cup {o}
             /\ post' = [post EXCEPT ![q].at = "booked"]
          \/ /\ slots \cap taken[o.of] # {} /\ slots \subseteq Slots(o.of)
             /\ post' = [post EXCEPT ![q].at = "taken"]
             /\ UNCHANGED server
          \/ /\ post' = [post EXCEPT ![q].at = "refused"]
             /\ UNCHANGED server
    /\ UNCHANGED <<venue, choice, list, submitting, confirmed, load, patience, lost>>

(* The web server loses the API's answer and reports an error. *)
AnswerSpoiled(q) ==
    /\ post[q].at = "booked" /\ ~lost
    /\ post' = [post EXCEPT ![q].at = "refused"]
    /\ lost' = TRUE
    /\ UNCHANGED <<venue, choice, list, submitting, confirmed, load, server, patience>>

(* The answer is lost on the way to the page: the handler ends there, with *)
(* the button disabled.                                                    *)
AnswerLost(q) ==
    /\ post[q] # NoPost /\ ~lost
    /\ post' = [post EXCEPT ![q] = NoPost]
    /\ lost' = TRUE
    /\ UNCHANGED <<venue, choice, list, submitting, confirmed, load, server, patience>>

\* A list is asked for again, of the court and date the order was for.
Reload(p) == Request(p) /\ Hasty(Loading)

\* Mutant: the button is given back only to an order that was refused for good.
SettleRefused(q) == submitting' = (post[q].at = "taken")

Settle(q) == submitting' = FALSE

ConfirmAnswered(q) ==
    /\ post[q].at \in {"booked", "taken", "refused"} /\ ~Broken
    /\ Settle(q)
    /\ post' = [post EXCEPT ![q] = NoPost]
    /\ \/ /\ post[q].at = "booked"
          /\ confirmed' = post[q].order
          /\ UNCHANGED <<pick, duration, load, patience>>
       \/ /\ post[q].at = "taken"
          /\ pick' = 0 /\ duration' = 1
          /\ Reload(post[q].order.of)
          /\ UNCHANGED confirmed
       \/ /\ post[q].at = "refused"
          /\ UNCHANGED <<pick, duration, load, patience, confirmed>>
    /\ UNCHANGED <<venue, place, preset, list, server, lost>>

TakenByOthers == {x \in Place \X Slot :
    x[2] \in taken[x[1]] /\ \A o \in mine : o.of # x[1] \/ x[2] \notin SlotsFrom(o.from, o.n)}

OthersBook(p, i) ==
    /\ i \in Slots(p) \ taken[p] /\ Cardinality(TakenByOthers) < MaxOthers
    /\ taken' = [taken EXCEPT ![p] = @ \cup {i}]
    /\ UNCHANGED <<venue, choice, list, submitting, confirmed, load, post, mine, patience, lost>>

Next ==
    \/ VenueArrives \/ VenueMissing \/ Confirm
    \/ \E p \in Place : ChangePlace(p) \/ (\E i \in Slots(p) : OthersBook(p, i))
    \/ \E n \in Durations : SelectDuration(n)
    \/ \E i \in Slot : PickSlot(i)
    \/ \E l \in Load : AvailabilityArrives(l) \/ AvailabilityRefused(l) \/ AvailabilityLost(l)
    \/ \E q \in Post : Book(q) \/ AnswerSpoiled(q) \/ AnswerLost(q) \/ ConfirmAnswered(q)

\* The API and the network get around to a request; nothing is assumed of people.
Fairness ==
    /\ \A l \in Load : WF_vars(AvailabilityArrives(l) \/ AvailabilityRefused(l))
    /\ \A q \in Post : WF_vars(Book(q)) /\ SF_vars(ConfirmAnswered(q))

Spec == Init /\ [][Next]_vars /\ Fairness

-----------------------------------------------------------------------------
(* A customer who waits for the list before picking a time orders the      *)
(* court and date whose list was on the screen (slots kept on the screen   *)
(* until the next list comes, orders made of the new court with the old    *)
(* times).                                                                 *)
OrderIsAsShown ==
    patience # "hasty" => \A q \in Post : post[q] # NoPost => post[q].order.of = post[q].order.seen

(* The page does not go down under a customer who waits for the list: the  *)
(* selected slots are always slots of the list shown.                      *)
PageHolds == patience = "waits" => ~Broken

(* What the page reports as booked is booked, it is one order, and unless  *)
(* an answer was lost the server has no other order of this page.          *)
ConfirmedIsBooked ==
    /\ confirmed # <<>> =>
        /\ confirmed \in mine
        /\ SlotsFrom(confirmed.from, confirmed.n) \subseteq taken[confirmed.of]
    /\ ~lost => Cardinality(mine) <= 1

(* The button does not stay disabled on an order whose answer is not lost: *)
(* a 409, which asks for the list again, included.                         *)
OrderIsAnswered == submitting ~> (~submitting \/ lost \/ Broken)

(* The design's promise about links: a preselection that cannot be used is *)
(* ignored (durations chosen while the list is on its way included).       *)
PresetNeverBreaks == patience # "hasty" => ~Broken
=============================================================================
