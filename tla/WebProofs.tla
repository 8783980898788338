------------------------------ MODULE WebProofs ------------------------------
(***************************************************************************)
(* Proofs about apps/web: about module BookingPage, and about the pages of *)
(* module WebPages as module Pages lets them run, for every value of the   *)
(* constants of either.                                                    *)
(***************************************************************************)
EXTENDS BookingPage, Pages, WebPages, FiniteSetTheorems, TLAPS

-----------------------------------------------------------------------------
(* The booking page *)


PostTypes == [at: {"sent", "booked", "taken", "refused"}, order: Order]

\* What the type of an order under way says of its parts.
LEMMA PostFields ==
    ASSUME TypeOK, NEW q \in Post
    PROVE  /\ post[q] = NoPost <=> post[q].at = "none"
           /\ post[q] # NoPost =>
                /\ post[q] \in PostTypes
                /\ post[q].at \in {"sent", "booked", "taken", "refused"}
                /\ post[q].order \in Order
                /\ post[q].order.of \in Place /\ post[q].order.seen \in Place
<1>1. post[q] \in {NoPost} \cup PostTypes
  BY DEF TypeOK, PostTypes
<1>2. NoPost.at = "none"
  BY DEF NoPost
<1>3. ASSUME post[q] \in PostTypes
      PROVE  post[q].at \in {"sent", "booked", "taken", "refused"} /\ post[q].order \in Order
  BY <1>3 DEF PostTypes
<1> QED
  BY <1>1, <1>2, <1>3 DEF Order

\* A list on the screen is of a place, with slots of it.
LEMMA ListFields ==
    ASSUME TypeOK, list # NoList
    PROVE  list.of \in Place /\ list.free \subseteq Slots(list.of)
  BY DEF TypeOK, Lists

LEMMA SlotsAreSlots ==
    ASSUME NEW p \in Place
    PROVE  Slots(p) \subseteq Slot /\ Slots(p) \subseteq Nat \ {0}
  BY BookingPageAssumption DEF Slots, Slot

\* A request takes a free place among those under way.
LEMMA RequestTypes ==
    ASSUME TypeOK, NEW p \in Place, Request(p)
    PROVE  load' \in [Load -> Place \cup {NoPlace}]
  BY DEF Request, TypeOK

LEMMA SelectTypes ==
    ASSUME TypeOK, NEW p \in Place \cup {NoPlace}, Select(p)
    PROVE  /\ place' = p
           /\ pick' \in {0} \cup Slot /\ duration' \in Durations
           /\ load' \in [Load -> Place \cup {NoPlace}]
<1>1. CASE p = NoPlace
  BY <1>1 DEF Select, TypeOK
<1>2. CASE p # NoPlace
  <2>1. Request(p) /\ pick' = 0 /\ duration' = 1 /\ place' = p
    BY <1>2 DEF Select
  <2> QED
    BY <1>2, <2>1, RequestTypes, BookingPageAssumption
<1> QED
  BY <1>1, <1>2

\* Types of what the choice, and what the orders, are made of.
ChoiceOK ==
    /\ venue \in {"loading", "shown", "missing"}
    /\ place \in Place \cup {NoPlace}
    /\ list = NoList \/ (list \in Lists /\ list.free \subseteq Slots(list.of))
    /\ pick \in {0} \cup Slot /\ duration \in Durations /\ preset \in {0} \cup Slot
    /\ load \in [Load -> Place \cup {NoPlace}]

OrdersOK ==
    /\ submitting \in BOOLEAN
    /\ post \in [Post -> {NoPost} \cup PostTypes]
    /\ confirmed = <<>> \/ confirmed \in Order

ServerOK ==
    /\ taken \in [Place -> SUBSET Slot] /\ \A p \in Place : taken[p] \subseteq Slots(p)
    /\ mine \subseteq Order

HistoryOK == patience \in {"waits", "early", "hasty"} /\ lost \in BOOLEAN

LEMMA TypeParts == TypeOK <=> ChoiceOK /\ OrdersOK /\ ServerOK /\ HistoryOK
  BY DEF TypeOK, ChoiceOK, OrdersOK, ServerOK, HistoryOK, PostTypes

LEMMA PartsType == ChoiceOK' /\ OrdersOK' /\ ServerOK' /\ HistoryOK' => TypeOK'
  BY DEF TypeOK, ChoiceOK, OrdersOK, ServerOK, HistoryOK, PostTypes

LEMMA HastyTypes ==
    ASSUME TypeOK, NEW overlap, Hasty(overlap)
    PROVE  patience' \in {"waits", "early", "hasty"}
  BY DEF Hasty, TypeOK

-----------------------------------------------------------------------------
(* Types are kept, one action at a time *)

LEMMA VenueTypes ==
    ASSUME TypeOK, VenueArrives \/ VenueMissing
    PROVE  TypeOK'
<1>1. CASE VenueMissing
  <2>1. ChoiceOK' /\ OrdersOK' /\ ServerOK' /\ HistoryOK'
    BY <1>1, TypeParts DEF VenueMissing, choice, server, ChoiceOK, OrdersOK, ServerOK, HistoryOK
  <2> QED
    BY <2>1, PartsType
<1>2. CASE VenueArrives
  <2>1. OrdersOK' /\ ServerOK'
    BY <1>2, TypeParts DEF VenueArrives, server, OrdersOK, ServerOK
  <2>2. CASE place \in Place \ Foreign
    <3>1. ChoiceOK' /\ HistoryOK'
      BY <1>2, <2>2, TypeParts DEF VenueArrives, choice, ChoiceOK, HistoryOK
    <3> QED
      BY <2>1, <3>1, PartsType
  <2>3. CASE place \notin Place \ Foreign
    <3>1. Select(First) /\ Hasty(Loading) /\ UNCHANGED <<preset, list, lost>> /\ venue' = "shown"
      BY <1>2, <2>3 DEF VenueArrives
    <3>2. First \in Place \cup {NoPlace}
      BY BookingPageAssumption
    <3>3. ChoiceOK'
      BY <3>1, <3>2, SelectTypes, TypeParts DEF ChoiceOK
    <3>4. HistoryOK'
      BY <3>1, HastyTypes, TypeParts DEF HistoryOK
    <3> QED
      BY <2>1, <3>3, <3>4, PartsType
  <2> QED
    BY <2>2, <2>3
<1> QED
  BY <1>1, <1>2

LEMMA CustomerTypes ==
    ASSUME TypeOK,
           \/ \E p \in Place : ChangePlace(p)
           \/ \E n \in Durations : SelectDuration(n)
           \/ \E i \in Slot : PickSlot(i)
    PROVE  TypeOK'
<1>1. ASSUME NEW p \in Place, ChangePlace(p) PROVE TypeOK'
  <2>1. /\ Select(p) /\ Hasty(Loading \/ Posting)
        /\ UNCHANGED <<venue, preset, list, submitting, confirmed, post, server, lost>>
    BY <1>1 DEF ChangePlace
  <2>2. ChoiceOK'
    BY <2>1, SelectTypes, TypeParts DEF ChoiceOK
  <2>3. HistoryOK'
    BY <2>1, HastyTypes, TypeParts DEF HistoryOK
  <2>4. OrdersOK' /\ ServerOK'
    BY <2>1, TypeParts DEF server, OrdersOK, ServerOK
  <2> QED
    BY <2>2, <2>3, <2>4, PartsType
<1>2. ASSUME NEW n \in Durations, SelectDuration(n) PROVE TypeOK'
  <2>1. ChoiceOK'
    BY <1>2, TypeParts DEF SelectDuration, ChoiceOK
  <2>2. OrdersOK' /\ ServerOK' /\ HistoryOK'
    BY <1>2, TypeParts DEF SelectDuration, server, OrdersOK, ServerOK, HistoryOK
  <2> QED
    BY <2>1, <2>2, PartsType
<1>3. ASSUME NEW i \in Slot, PickSlot(i) PROVE TypeOK'
  <2>1. ChoiceOK'
    BY <1>3, TypeParts DEF PickSlot, ChoiceOK
  <2>2. OrdersOK' /\ ServerOK'
    BY <1>3, TypeParts DEF PickSlot, server, OrdersOK, ServerOK
  <2>3. HistoryOK'
    BY <1>3, HastyTypes, TypeParts DEF PickSlot, HistoryOK
  <2> QED
    BY <2>1, <2>2, <2>3, PartsType
<1> QED
  BY <1>1, <1>2, <1>3

LEMMA ListTypes ==
    ASSUME TypeOK, NEW l \in Load,
           AvailabilityArrives(l) \/ AvailabilityRefused(l) \/ AvailabilityLost(l)
    PROVE  TypeOK'
<1>1. load' = [load EXCEPT ![l] = NoPlace] /\ load[l] # NoPlace
  BY DEF AvailabilityArrives, AvailabilityRefused, AvailabilityLost
<1>2. load' \in [Load -> Place \cup {NoPlace}] /\ load[l] \in Place
  BY <1>1, TypeParts DEF ChoiceOK
<1>3. UNCHANGED <<submitting, confirmed, post, server, lost>>
  BY DEF AvailabilityArrives, AvailabilityRefused, AvailabilityLost
<1>4. OrdersOK' /\ ServerOK'
  BY <1>3, TypeParts DEF server, OrdersOK, ServerOK
<1>5. CASE AvailabilityArrives(l)
  <2> DEFINE free == Slots(load[l]) \ taken[load[l]]
  <2>1. /\ list' = [of |-> load[l], free |-> free] /\ ApplyPreset(free)
        /\ UNCHANGED <<venue, place, duration, patience>>
    BY <1>5 DEF AvailabilityArrives
  <2>2. Slots(load[l]) \subseteq Slot
    BY <1>2, SlotsAreSlots
  <2>3. free \subseteq Slots(load[l])
    OBVIOUS
  <2> HIDE DEF free
  <2>4. list' \in Lists /\ list'.free \subseteq Slots(list'.of)
    BY <1>2, <2>1, <2>2, <2>3 DEF Lists
  <2>5. pick' \in {0} \cup Slot /\ preset' \in {0} \cup Slot
    BY <2>1, TypeParts DEF ApplyPreset, ChoiceOK
  <2>6. ChoiceOK' /\ HistoryOK'
    BY <1>2, <1>3, <2>1, <2>4, <2>5, TypeParts DEF ChoiceOK, HistoryOK
  <2> QED
    BY <1>4, <2>6, PartsType
<1>6. CASE AvailabilityRefused(l)
  <2>1. ChoiceOK' /\ HistoryOK'
    BY <1>2, <1>6, TypeParts DEF AvailabilityRefused, choice, ChoiceOK, HistoryOK
  <2> QED
    BY <1>4, <2>1, PartsType
<1>7. CASE AvailabilityLost(l)
  <2>1. ChoiceOK'
    BY <1>2, <1>7, TypeParts DEF AvailabilityLost, choice, ChoiceOK
  <2>2. HistoryOK'
    BY <1>3, <1>7, HastyTypes, TypeParts DEF AvailabilityLost, HistoryOK
  <2> QED
    BY <1>4, <2>1, <2>2, PartsType
<1> QED
  BY <1>5, <1>6, <1>7

LEMMA ConfirmTypes ==
    ASSUME TypeOK, Confirm
    PROVE  TypeOK'
<1> DEFINE order == [of |-> place, from |-> pick, n |-> duration, seen |-> list.of]
           sent == [at |-> "sent", order |-> order]
<1>1. place \in Place /\ pick \in Slot /\ duration \in Durations /\ list # NoList
  BY DEF Confirm, CanConfirm, TypeOK
<1>2. list.of \in Place
  BY <1>1, ListFields
<1>3. order \in Order
  BY <1>1, <1>2 DEF Order
<1> HIDE DEF order
<1>4. sent \in PostTypes
  BY <1>3 DEF PostTypes
<1>5. PICK q \in Post : post' = [post EXCEPT ![q] = sent]
  BY DEF Confirm, order
<1> HIDE DEF sent
<1>6. post' \in [Post -> {NoPost} \cup PostTypes]
  BY <1>4, <1>5, TypeParts DEF OrdersOK
<1>7. submitting' = TRUE /\ Hasty(Loading)
      /\ UNCHANGED <<venue, choice, list, confirmed, load, server, lost>>
  BY DEF Confirm
<1>8. OrdersOK'
  BY <1>6, <1>7, TypeParts DEF OrdersOK
<1>9. ChoiceOK' /\ ServerOK'
  BY <1>7, TypeParts DEF choice, server, ChoiceOK, ServerOK
<1>10. HistoryOK'
  BY <1>7, HastyTypes, TypeParts DEF HistoryOK
<1> QED
  BY <1>8, <1>9, <1>10, PartsType

\* What the server does with an order that was sent.
BookFree(q) ==
    /\ FreeOnGrid(post[q].order)
    /\ taken' = [taken EXCEPT ![post[q].order.of] = @ \cup SlotsFrom(post[q].order.from, post[q].order.n)]
    /\ mine' = mine \cup {post[q].order}
    /\ post' = [post EXCEPT ![q].at = "booked"]

LEMMA BookCases ==
    ASSUME NEW q \in Post, Book(q)
    PROVE  /\ post[q].at = "sent"
           /\ \/ BookFree(q)
              \/ post' = [post EXCEPT ![q].at = "taken"] /\ UNCHANGED server
              \/ post' = [post EXCEPT ![q].at = "refused"] /\ UNCHANGED server
           /\ UNCHANGED <<venue, choice, list, submitting, confirmed, load, patience, lost>>
  BY DEF Book, BookFree

\* The state of an order changes, the order does not.
LEMMA AnswerTypes ==
    ASSUME TypeOK, NEW q \in Post, post[q] # NoPost,
           NEW at \in {"sent", "booked", "taken", "refused"},
           post' = [post EXCEPT ![q].at = at]
    PROVE  /\ post' \in [Post -> {NoPost} \cup PostTypes]
           /\ post'[q] # NoPost /\ post'[q].at = at /\ post'[q].order = post[q].order
           /\ \A k \in Post : k # q => post'[k] = post[k]
<1>1. post[q] \in PostTypes
  BY PostFields
<1> DEFINE answered == [post[q] EXCEPT !.at = at]
<1>2. answered \in PostTypes /\ answered.at = at /\ answered.order = post[q].order
  BY <1>1 DEF PostTypes
<1>3. answered # NoPost
  BY <1>2 DEF NoPost
<1> HIDE DEF answered
<1>4. post' = [post EXCEPT ![q] = answered]
  BY DEF answered
<1>5. post \in [Post -> {NoPost} \cup PostTypes]
  BY TypeParts DEF OrdersOK
<1> QED
  BY <1>2, <1>3, <1>4, <1>5

LEMMA EndTypes ==
    ASSUME TypeOK, NEW q \in Post, post' = [post EXCEPT ![q] = NoPost]
    PROVE  /\ post' \in [Post -> {NoPost} \cup PostTypes]
           /\ post'[q] = NoPost
           /\ \A k \in Post : k # q => post'[k] = post[k]
<1>1. post \in [Post -> {NoPost} \cup PostTypes]
  BY TypeParts DEF OrdersOK
<1> QED
  BY <1>1

LEMMA BookTypes ==
    ASSUME TypeOK, NEW q \in Post, Book(q)
    PROVE  TypeOK'
<1>1. /\ post[q].at = "sent"
      /\ \/ BookFree(q)
         \/ post' = [post EXCEPT ![q].at = "taken"] /\ UNCHANGED server
         \/ post' = [post EXCEPT ![q].at = "refused"] /\ UNCHANGED server
      /\ UNCHANGED <<venue, choice, list, submitting, confirmed, load, patience, lost>>
  BY BookCases
<1>2. post[q] # NoPost /\ post[q].order \in Order
  BY <1>1, PostFields
<1>3. post' \in [Post -> {NoPost} \cup PostTypes]
  BY <1>1, <1>2, AnswerTypes DEF BookFree
<1>4. OrdersOK' /\ ChoiceOK' /\ HistoryOK'
  BY <1>1, <1>3, TypeParts DEF choice, OrdersOK, ChoiceOK, HistoryOK
<1>5. ServerOK'
  <2>1. CASE UNCHANGED server
    BY <2>1, TypeParts DEF server, ServerOK
  <2>2. CASE BookFree(q)
    <3> DEFINE o == post[q].order
               slots == SlotsFrom(o.from, o.n)
    <3>1. o \in Order /\ o.of \in Place
      BY <1>2 DEF Order
    <3>2. slots \subseteq Slots(o.of) /\ Slots(o.of) \subseteq Slot
      BY <2>2, <3>1, SlotsAreSlots DEF BookFree, FreeOnGrid
    <3>3. taken' = [taken EXCEPT ![o.of] = @ \cup slots] /\ mine' = mine \cup {o}
      BY <2>2 DEF BookFree
    <3> HIDE DEF o, slots
    <3> QED
      BY <3>1, <3>2, <3>3, TypeParts DEF ServerOK
  <2> QED
    BY <1>1, <2>1, <2>2
<1> QED
  BY <1>4, <1>5, PartsType

LEMMA AnswerLostTypes ==
    ASSUME TypeOK, NEW q \in Post, AnswerSpoiled(q) \/ AnswerLost(q)
    PROVE  TypeOK'
<1>1. post' \in [Post -> {NoPost} \cup PostTypes]
  <2>1. CASE AnswerSpoiled(q)
    <3>1. post[q].at = "booked" /\ post' = [post EXCEPT ![q].at = "refused"]
      BY <2>1 DEF AnswerSpoiled
    <3>2. post[q] # NoPost
      BY <3>1, PostFields
    <3> QED
      BY <3>1, <3>2, AnswerTypes
  <2>2. CASE AnswerLost(q)
    BY <2>2, EndTypes DEF AnswerLost
  <2> QED
    BY <2>1, <2>2
<1>2. /\ lost' = TRUE
      /\ UNCHANGED <<venue, choice, list, submitting, confirmed, load, server, patience>>
  BY DEF AnswerSpoiled, AnswerLost
<1>3. ChoiceOK' /\ OrdersOK' /\ ServerOK' /\ HistoryOK'
  BY <1>1, <1>2, TypeParts DEF choice, server, ChoiceOK, OrdersOK, ServerOK, HistoryOK
<1> QED
  BY <1>3, PartsType

\* What the page does with each answer.
LEMMA AnsweredCases ==
    ASSUME NEW q \in Post, ConfirmAnswered(q)
    PROVE  /\ submitting' = FALSE
           /\ post' = [post EXCEPT ![q] = NoPost]
           /\ \/ /\ post[q].at = "booked" /\ confirmed' = post[q].order
                 /\ UNCHANGED <<pick, duration, load, patience>>
              \/ /\ post[q].at = "taken" /\ pick' = 0 /\ duration' = 1
                 /\ Request(post[q].order.of) /\ Hasty(Loading)
                 /\ UNCHANGED confirmed
              \/ /\ post[q].at = "refused"
                 /\ UNCHANGED <<pick, duration, load, patience, confirmed>>
           /\ UNCHANGED <<venue, place, preset, list, server, lost>>
  BY DEF ConfirmAnswered, Settle, Reload

LEMMA AnsweredTypes ==
    ASSUME TypeOK, NEW q \in Post, ConfirmAnswered(q)
    PROVE  TypeOK'
<1>1. /\ submitting' = FALSE
      /\ post' = [post EXCEPT ![q] = NoPost]
      /\ \/ /\ post[q].at = "booked" /\ confirmed' = post[q].order
            /\ UNCHANGED <<pick, duration, load, patience>>
         \/ /\ post[q].at = "taken" /\ pick' = 0 /\ duration' = 1
            /\ Request(post[q].order.of) /\ Hasty(Loading)
            /\ UNCHANGED confirmed
         \/ /\ post[q].at = "refused"
            /\ UNCHANGED <<pick, duration, load, patience, confirmed>>
      /\ UNCHANGED <<venue, place, preset, list, server, lost>>
  BY AnsweredCases
<1>2. post' \in [Post -> {NoPost} \cup PostTypes]
  BY <1>1, EndTypes
<1>3. post[q].order \in Order /\ post[q].order.of \in Place
  <2>1. post[q].at # "none"
    BY <1>1
  <2> QED
    BY <2>1, PostFields
<1>4. confirmed' = <<>> \/ confirmed' \in Order
  BY <1>1, <1>3, TypeParts DEF OrdersOK
<1>5. load' \in [Load -> Place \cup {NoPlace}]
  BY <1>1, <1>3, RequestTypes, TypeParts DEF ChoiceOK
<1>6. pick' \in {0} \cup Slot /\ duration' \in Durations
  BY <1>1, BookingPageAssumption, TypeParts DEF ChoiceOK
<1>7. patience' \in {"waits", "early", "hasty"}
  BY <1>1, HastyTypes, TypeParts DEF HistoryOK
<1>8. OrdersOK'
  BY <1>1, <1>2, <1>4 DEF OrdersOK
<1>9. ChoiceOK' /\ HistoryOK' /\ ServerOK'
  BY <1>1, <1>5, <1>6, <1>7, TypeParts DEF server, ChoiceOK, HistoryOK, ServerOK
<1> QED
  BY <1>8, <1>9, PartsType

LEMMA OthersTypes ==
    ASSUME TypeOK, NEW p \in Place, NEW i \in Slots(p), OthersBook(p, i)
    PROVE  TypeOK'
<1>1. /\ taken' = [taken EXCEPT ![p] = @ \cup {i}]
      /\ UNCHANGED <<venue, choice, list, submitting, confirmed, load, post, mine, patience, lost>>
  BY DEF OthersBook
<1>2. i \in Slot
  BY SlotsAreSlots
<1>3. ServerOK'
  BY <1>1, <1>2, TypeParts DEF ServerOK
<1>4. ChoiceOK' /\ OrdersOK' /\ HistoryOK'
  BY <1>1, TypeParts DEF choice, ChoiceOK, OrdersOK, HistoryOK
<1> QED
  BY <1>3, <1>4, PartsType

\* Every state of the page, its requests and the server is well typed.
THEOREM PageTypeCorrect == Spec => []TypeOK
<1>1. Init => TypeOK
  <2> SUFFICES ASSUME Init PROVE TypeOK
    OBVIOUS
  <2>1. ChoiceOK
    BY BookingPageAssumption DEF Init, ChoiceOK
  <2>2. OrdersOK
    BY DEF Init, OrdersOK
  <2>3. ServerOK /\ HistoryOK
    BY DEF Init, ServerOK, HistoryOK
  <2> QED
    BY <2>1, <2>2, <2>3, TypeParts
<1>2. TypeOK /\ [Next]_vars => TypeOK'
  <2> SUFFICES ASSUME TypeOK, [Next]_vars PROVE TypeOK'
    OBVIOUS
  <2>1. CASE UNCHANGED vars
    BY <2>1 DEF vars, choice, server, TypeOK
  <2>2. CASE Next
    BY <2>2, VenueTypes, CustomerTypes, ListTypes, ConfirmTypes, BookTypes, AnswerLostTypes,
       AnsweredTypes, OthersTypes DEF Next
  <2> QED
    BY <2>1, <2>2
<1> QED
  BY <1>1, <1>2, PTL DEF Spec

-----------------------------------------------------------------------------
(* What is reported as booked *)

\* Orders of this page stay booked, and are what it hears and reports.
OrdersAreKept ==
    /\ \A o \in mine : SlotsFrom(o.from, o.n) \subseteq taken[o.of]
    /\ \A q \in Post : post[q].at = "booked" => post[q].order \in mine
    /\ confirmed # <<>> => confirmed \in mine

\* Unless an answer is lost the button allows for one order at a time, and the
\* page ends with the first that is booked.
OneOrder ==
    ~lost =>
        /\ \A k, q \in Post : post[k] # NoPost /\ post[q] # NoPost => k = q
        /\ Posting => submitting /\ confirmed = <<>>
        /\ mine # {} => confirmed # <<>> \/ \E q \in Post : post[q].at = "booked"
        /\ mine = {} \/ \E o \in mine : mine = {o}

\* What a customer does before an order, and lists, leave the orders alone.
ElsewhereOnThePage ==
    \/ VenueArrives \/ VenueMissing
    \/ \E p \in Place : ChangePlace(p)
    \/ \E n \in Durations : SelectDuration(n)
    \/ \E i \in Slot : PickSlot(i)
    \/ \E l \in Load : AvailabilityArrives(l) \/ AvailabilityRefused(l) \/ AvailabilityLost(l)

LEMMA ElsewhereOrdersStay ==
    ASSUME ElsewhereOnThePage
    PROVE  UNCHANGED <<submitting, confirmed, post, taken, mine, lost>>
<1>1. ASSUME VenueArrives \/ VenueMissing
      PROVE  UNCHANGED <<submitting, confirmed, post, taken, mine, lost>>
  BY <1>1 DEF VenueArrives, VenueMissing, server
<1>2. ASSUME NEW p \in Place, ChangePlace(p)
      PROVE  UNCHANGED <<submitting, confirmed, post, taken, mine, lost>>
  BY <1>2 DEF ChangePlace, server
<1>3. ASSUME NEW n, SelectDuration(n) \/ PickSlot(n)
      PROVE  UNCHANGED <<submitting, confirmed, post, taken, mine, lost>>
  BY <1>3 DEF SelectDuration, PickSlot, server
<1>4. ASSUME NEW l \in Load, AvailabilityArrives(l) \/ AvailabilityRefused(l) \/ AvailabilityLost(l)
      PROVE  UNCHANGED <<submitting, confirmed, post, taken, mine, lost>>
  BY <1>4 DEF AvailabilityArrives, AvailabilityRefused, AvailabilityLost, server
<1> QED
  BY <1>1, <1>2, <1>3, <1>4 DEF ElsewhereOnThePage

LEMMA ConfirmCases ==
    ASSUME TypeOK, Confirm
    PROVE  /\ ~submitting /\ submitting' = TRUE
           /\ confirmed = <<>> /\ venue = "shown"
           /\ place # NoPlace /\ list # NoList /\ pick # 0
           /\ \E q \in Post :
                /\ post[q] = NoPost /\ post'[q].at = "sent" /\ post'[q] # NoPost
                /\ post'[q].order.of = place /\ post'[q].order.seen = list.of
                /\ \A k \in Post : k # q => post'[k] = post[k]
           /\ Hasty(Loading)
           /\ UNCHANGED <<venue, choice, list, confirmed, load, server, lost>>
<1>1. /\ ~submitting /\ submitting' = TRUE
      /\ confirmed = <<>> /\ venue = "shown"
      /\ place # NoPlace /\ list # NoList /\ pick # 0
      /\ Hasty(Loading)
      /\ UNCHANGED <<venue, choice, list, confirmed, load, server, lost>>
  BY DEF Confirm, CanConfirm, Usable
<1> DEFINE order == [of |-> place, from |-> pick, n |-> duration, seen |-> list.of]
           sent == [at |-> "sent", order |-> order]
<1>2. PICK q \in Post : post[q] = NoPost /\ post' = [post EXCEPT ![q] = sent]
  BY DEF Confirm
<1>3. /\ sent.at = "sent" /\ sent # NoPost
      /\ sent.order.of = place /\ sent.order.seen = list.of
  BY DEF NoPost
<1> HIDE DEF sent
<1>4. post'[q] = sent /\ \A k \in Post : k # q => post'[k] = post[k]
  BY <1>2, TypeParts DEF OrdersOK
<1> QED
  BY <1>1, <1>2, <1>3, <1>4

LEMMA OrdersStayKept ==
    ASSUME TypeOK, OrdersAreKept, [Next]_vars
    PROVE  OrdersAreKept'
<1>1. CASE ElsewhereOnThePage \/ UNCHANGED vars
  BY <1>1, ElsewhereOrdersStay DEF vars, server, OrdersAreKept
<1>2. CASE Confirm
  <2>1. UNCHANGED <<confirmed, mine, taken>>
    BY <1>2 DEF Confirm, server
  <2>2. PICK q \in Post : /\ post'[q].at = "sent"
                          /\ \A k \in Post : k # q => post'[k] = post[k]
    BY <1>2, ConfirmCases
  <2> QED
    BY <2>1, <2>2 DEF OrdersAreKept
<1>3. ASSUME NEW q \in Post, Book(q) PROVE OrdersAreKept'
  <2>1. /\ post[q].at = "sent" /\ UNCHANGED confirmed
        /\ \/ BookFree(q)
           \/ post' = [post EXCEPT ![q].at = "taken"] /\ UNCHANGED server
           \/ post' = [post EXCEPT ![q].at = "refused"] /\ UNCHANGED server
    BY <1>3, BookCases
  <2>2. post[q] # NoPost /\ post[q].order \in Order
    BY <2>1, PostFields
  <2>3. ASSUME NEW at \in {"taken", "refused"}, post' = [post EXCEPT ![q].at = at], UNCHANGED server
        PROVE  OrdersAreKept'
    <3>1. post'[q].at = at /\ \A k \in Post : k # q => post'[k] = post[k]
      BY <2>2, <2>3, AnswerTypes
    <3>2. UNCHANGED <<mine, taken>>
      BY <2>3 DEF server
    <3> QED
      BY <2>1, <3>1, <3>2 DEF OrdersAreKept
  <2>4. CASE BookFree(q)
    <3> DEFINE o == post[q].order
               slots == SlotsFrom(o.from, o.n)
    <3>1. /\ taken' = [taken EXCEPT ![o.of] = @ \cup slots] /\ mine' = mine \cup {o}
          /\ post' = [post EXCEPT ![q].at = "booked"]
      BY <2>4 DEF BookFree
    <3>2. /\ post'[q].at = "booked" /\ post'[q].order = o
          /\ \A k \in Post : k # q => post'[k] = post[k]
      BY <2>2, <3>1, AnswerTypes
    <3>3. o.of \in Place /\ taken \in [Place -> SUBSET Slot]
      BY <2>2, TypeParts DEF Order, ServerOK
    <3>4. slots \subseteq taken'[o.of]
      BY <3>1, <3>3
    <3>5. ASSUME NEW k \in mine PROVE SlotsFrom(k.from, k.n) \subseteq taken'[k.of]
      <4>1. k.of \in Place
        BY TypeParts DEF ServerOK, Order
      <4>2. taken[k.of] \subseteq taken'[k.of]
        BY <3>1, <3>3, <4>1
      <4> QED
        BY <4>2 DEF OrdersAreKept
    <3>6. \A k \in mine' : SlotsFrom(k.from, k.n) \subseteq taken'[k.of]
      BY <3>1, <3>4, <3>5
    <3> HIDE DEF o, slots
    <3>7. \A k \in Post : post'[k].at = "booked" => post'[k].order \in mine'
      BY <3>1, <3>2 DEF OrdersAreKept
    <3> QED
      BY <2>1, <3>1, <3>6, <3>7 DEF OrdersAreKept
  <2> QED
    BY <2>1, <2>3, <2>4
<1>4. ASSUME NEW q \in Post, AnswerSpoiled(q) PROVE OrdersAreKept'
  <2>1. /\ post[q].at = "booked" /\ post' = [post EXCEPT ![q].at = "refused"]
        /\ UNCHANGED <<confirmed, mine, taken>>
    BY <1>4 DEF AnswerSpoiled, server
  <2>2. post'[q].at = "refused" /\ \A k \in Post : k # q => post'[k] = post[k]
    BY <2>1, PostFields, AnswerTypes
  <2> QED
    BY <2>1, <2>2 DEF OrdersAreKept
<1>5. ASSUME NEW q \in Post, AnswerLost(q) PROVE OrdersAreKept'
  <2>1. /\ post' = [post EXCEPT ![q] = NoPost]
        /\ UNCHANGED <<confirmed, mine, taken>>
    BY <1>5 DEF AnswerLost, server
  <2>2. post'[q] = NoPost /\ \A k \in Post : k # q => post'[k] = post[k]
    BY <2>1, EndTypes
  <2> QED
    BY <2>1, <2>2 DEF OrdersAreKept, NoPost
<1>6. ASSUME NEW q \in Post, ConfirmAnswered(q) PROVE OrdersAreKept'
  <2>1. /\ post' = [post EXCEPT ![q] = NoPost]
        /\ UNCHANGED confirmed \/ (post[q].at = "booked" /\ confirmed' = post[q].order)
        /\ UNCHANGED <<mine, taken>>
    BY <1>6, AnsweredCases DEF server
  <2>2. post'[q] = NoPost /\ \A k \in Post : k # q => post'[k] = post[k]
    BY <2>1, EndTypes
  <2> QED
    BY <2>1, <2>2 DEF OrdersAreKept, NoPost
<1>7. ASSUME NEW p \in Place, NEW i \in Slots(p), OthersBook(p, i) PROVE OrdersAreKept'
  <2>1. taken' = [taken EXCEPT ![p] = @ \cup {i}] /\ UNCHANGED <<confirmed, mine, post>>
    BY <1>7 DEF OthersBook
  <2>2. taken \in [Place -> SUBSET Slot]
    BY TypeParts DEF ServerOK
  <2>3. ASSUME NEW k \in mine PROVE SlotsFrom(k.from, k.n) \subseteq taken'[k.of]
    <3>1. k.of \in Place
      BY TypeParts DEF ServerOK, Order
    <3>2. taken[k.of] \subseteq taken'[k.of]
      BY <2>1, <2>2, <3>1
    <3> QED
      BY <3>2 DEF OrdersAreKept
  <2> QED
    BY <2>1, <2>3 DEF OrdersAreKept
<1> QED
  BY <1>1, <1>2, <1>3, <1>4, <1>5, <1>6, <1>7 DEF Next, ElsewhereOnThePage

LEMMA OrderIsSomething == ASSUME NEW o \in Order PROVE o # <<>>
<1>1. "of" \in DOMAIN o
  BY DEF Order
<1>2. DOMAIN <<>> = {}
  OBVIOUS
<1> QED
  BY <1>1, <1>2

LEMMA OneOrderStays ==
    ASSUME TypeOK, OneOrder, [Next]_vars
    PROVE  OneOrder'
<1> SUFFICES ASSUME ~lost' PROVE OneOrder'
  BY DEF OneOrder
<1>1. CASE ElsewhereOnThePage \/ UNCHANGED vars
  <2>1. UNCHANGED <<submitting, confirmed, post, mine, lost>>
    BY <1>1, ElsewhereOrdersStay DEF vars, server
  <2> QED
    BY <2>1 DEF OneOrder, Posting
<1>2. CASE Confirm
  <2>1. /\ ~submitting /\ submitting' /\ confirmed = <<>>
        /\ UNCHANGED <<confirmed, mine, lost>>
    BY <1>2, ConfirmCases DEF server
  <2>2. PICK q \in Post : /\ post[q] = NoPost /\ post'[q].at = "sent" /\ post'[q] # NoPost
                          /\ \A k \in Post : k # q => post'[k] = post[k]
    BY <1>2, ConfirmCases
  <2>3. \A k \in Post : post[k] = NoPost
    BY <2>1 DEF OneOrder, Posting
  <2>4. mine = {}
    <3>1. \A k \in Post : post[k].at # "booked"
      BY <2>3 DEF NoPost
    <3> QED
      BY <2>1, <3>1 DEF OneOrder
  <2> QED
    BY <2>1, <2>2, <2>3, <2>4 DEF OneOrder, Posting
<1>3. ASSUME NEW q \in Post, Book(q) PROVE OneOrder'
  <2>1. /\ post[q].at = "sent" /\ UNCHANGED <<confirmed, submitting, lost>>
        /\ \/ BookFree(q)
           \/ post' = [post EXCEPT ![q].at = "taken"] /\ UNCHANGED server
           \/ post' = [post EXCEPT ![q].at = "refused"] /\ UNCHANGED server
    BY <1>3, BookCases
  <2>2. post[q] # NoPost
    BY <2>1, PostFields
  <2>3. /\ submitting /\ confirmed = <<>>
        /\ \A k \in Post : k # q => post[k] = NoPost
    BY <2>1, <2>2 DEF OneOrder, Posting
  <2>4. mine = {}
    <3>1. \A k \in Post : post[k].at # "booked"
      BY <2>1, <2>3 DEF NoPost
    <3> QED
      BY <2>1, <2>3, <3>1 DEF OneOrder
  <2>5. PICK at \in {"booked", "taken", "refused"} : /\ post' = [post EXCEPT ![q].at = at]
                                                     /\ at = "booked" => mine' = mine \cup {post[q].order}
                                                     /\ at # "booked" => mine' = mine
    BY <2>1 DEF BookFree, server
  <2>6. /\ post'[q] # NoPost /\ post'[q].at = at
        /\ \A k \in Post : k # q => post'[k] = post[k]
    BY <2>2, <2>5, AnswerTypes
  <2>7. /\ mine' # {} => post'[q].at = "booked"
        /\ mine' = {} \/ \E o \in mine' : mine' = {o}
    BY <2>4, <2>5, <2>6
  <2> QED
    BY <2>1, <2>3, <2>6, <2>7 DEF OneOrder, Posting
<1>4. ASSUME NEW q \in Post, AnswerSpoiled(q) \/ AnswerLost(q) PROVE OneOrder'
  BY <1>4 DEF AnswerSpoiled, AnswerLost
<1>5. ASSUME NEW q \in Post, ConfirmAnswered(q) PROVE OneOrder'
  <2>1. /\ submitting' = FALSE
        /\ post' = [post EXCEPT ![q] = NoPost]
        /\ \/ post[q].at = "booked" /\ confirmed' = post[q].order
           \/ post[q].at \in {"taken", "refused"} /\ UNCHANGED confirmed
        /\ UNCHANGED <<mine, lost>>
    BY <1>5, AnsweredCases DEF server
  <2>2. post'[q] = NoPost /\ \A k \in Post : k # q => post'[k] = post[k]
    BY <2>1, EndTypes
  <2>3. post[q] # NoPost /\ post[q].order \in Order
    <3>1. post[q].at # "none"
      BY <2>1
    <3> QED
      BY <3>1, PostFields
  <2>4. \A k \in Post : k # q => post[k] = NoPost
    BY <2>1, <2>3 DEF OneOrder
  <2>5. \A k \in Post : post'[k] = NoPost
    BY <2>2, <2>4
  <2>6. mine' # {} => confirmed' # <<>>
    <3>1. CASE post[q].at = "booked"
      BY <2>1, <2>3, <3>1, OrderIsSomething
    <3>2. CASE post[q].at \in {"taken", "refused"}
      <4>1. \A k \in Post : post[k].at # "booked"
        BY <2>4, <3>2 DEF NoPost
      <4> QED
        BY <2>1, <3>2, <4>1 DEF OneOrder
    <3> QED
      BY <2>1, <3>1, <3>2
  <2> QED
    BY <2>1, <2>5, <2>6 DEF OneOrder, Posting
<1>6. ASSUME NEW p \in Place, NEW i \in Slots(p), OthersBook(p, i) PROVE OneOrder'
  <2>1. UNCHANGED <<submitting, confirmed, post, mine, lost>>
    BY <1>6 DEF OthersBook
  <2> QED
    BY <2>1 DEF OneOrder, Posting
<1> QED
  BY <1>1, <1>2, <1>3, <1>4, <1>5, <1>6 DEF Next, ElsewhereOnThePage

\* The property ConfirmedIsBooked: whatever other customers book meanwhile and
\* however answers are delayed, what the page reports is booked, and without
\* a lost answer no second order was made.
THEOREM ConfirmationsAreTrue == Spec => []ConfirmedIsBooked
<1>1. Init => OrdersAreKept /\ OneOrder
  BY DEF Init, OrdersAreKept, OneOrder, Posting, NoPost
<1>2. OrdersAreKept /\ OneOrder => ConfirmedIsBooked
  <2> SUFFICES ASSUME OrdersAreKept, OneOrder PROVE ConfirmedIsBooked
    OBVIOUS
  <2>1. ASSUME ~lost PROVE Cardinality(mine) <= 1
    <3>1. CASE mine = {}
      <4>1. Cardinality(mine) = 0
        BY <3>1, FS_EmptySet
      <4> QED
        BY <4>1
    <3>2. CASE mine # {}
      <4>1. PICK o : mine = {o}
        BY <2>1, <3>2 DEF OneOrder
      <4>2. Cardinality(mine) = 1
        BY <4>1, FS_Singleton
      <4> QED
        BY <4>2
    <3> QED
      BY <3>1, <3>2
  <2> QED
    BY <2>1 DEF OrdersAreKept, ConfirmedIsBooked
<1> QED
  BY <1>1, <1>2, PageTypeCorrect, OrdersStayKept, OneOrderStays, PTL DEF Spec

-----------------------------------------------------------------------------
(* Orders are of what was on the screen *)

\* Whoever picks a time only of a list that is there has one list on its way at
\* most, of the place selected, and nothing picked until it comes; the list on
\* the screen, and an order under way, are of that place too.
Waited ==
    patience # "hasty" =>
        /\ \A k, l \in Load : load[k] # NoPlace /\ load[l] # NoPlace => k = l
        /\ \A l \in Load : load[l] # NoPlace => load[l] = place
        /\ Loading => pick = 0
        /\ ~Loading /\ list # NoList /\ place # NoPlace => list.of = place
        /\ \A q \in Post : post[q] # NoPost =>
              /\ venue = "shown"
              /\ post[q].order.of = place /\ post[q].order.seen = place

\* While a list is on its way one slot is to be picked, and what is picked is
\* within the list.
Shown ==
    patience = "waits" =>
        /\ Loading => duration = 1
        /\ list # NoList /\ pick # 0 => pick + duration - 1 <= Length[list.of]

LEMMA RequestAlone ==
    ASSUME TypeOK, NEW p \in Place, Request(p), ~Loading
    PROVE  \E l \in Load : load'[l] = p /\ \A k \in Load : k # l => load'[k] = NoPlace
<1>1. PICK l \in Load : load' = [load EXCEPT ![l] = p]
  BY DEF Request
<1>2. load \in [Load -> Place \cup {NoPlace}]
  BY DEF TypeOK
<1>3. \A k \in Load : load[k] = NoPlace
  BY DEF Loading
<1> QED
  BY <1>1, <1>2, <1>3

\* A hasty customer stays one.
LEMMA HastyStays ==
    ASSUME TypeOK, patience = "hasty", [Next]_vars
    PROVE  patience' = "hasty"
<1>1. ASSUME UNCHANGED patience \/ \E overlap \in BOOLEAN : Hasty(overlap) PROVE patience' = "hasty"
  BY <1>1 DEF Hasty
<1>2. CASE UNCHANGED vars
  BY <1>2 DEF vars
<1>3. ASSUME VenueArrives \/ VenueMissing PROVE patience' = "hasty"
  BY <1>3 DEF VenueArrives, VenueMissing, Hasty
<1>4. ASSUME NEW p \in Place, ChangePlace(p) PROVE patience' = "hasty"
  BY <1>4 DEF ChangePlace, Hasty
<1>5. ASSUME NEW n, SelectDuration(n) \/ PickSlot(n) PROVE patience' = "hasty"
  BY <1>5 DEF SelectDuration, PickSlot, Hasty
<1>6. ASSUME NEW l \in Load, AvailabilityArrives(l) \/ AvailabilityRefused(l) \/ AvailabilityLost(l)
      PROVE patience' = "hasty"
  BY <1>6 DEF AvailabilityArrives, AvailabilityRefused, AvailabilityLost, Hasty
<1>7. ASSUME Confirm PROVE patience' = "hasty"
  BY <1>7 DEF Confirm, Hasty
<1>8. ASSUME NEW q \in Post, Book(q) \/ AnswerSpoiled(q) \/ AnswerLost(q) PROVE patience' = "hasty"
  BY <1>8 DEF Book, AnswerSpoiled, AnswerLost
<1>9. ASSUME NEW q \in Post, ConfirmAnswered(q) PROVE patience' = "hasty"
  BY <1>9, AnsweredCases DEF Hasty
<1>10. ASSUME NEW p \in Place, NEW i \in Slots(p), OthersBook(p, i) PROVE patience' = "hasty"
  BY <1>10 DEF OthersBook
<1> QED
  BY <1>2, <1>3, <1>4, <1>5, <1>6, <1>7, <1>8, <1>9, <1>10 DEF Next

\* Selecting a court or date with no list on its way.
LEMMA SelectWaits ==
    ASSUME TypeOK, NEW p \in Place \cup {NoPlace}, Select(p), ~Loading,
           \A q \in Post : post[q] = NoPost, UNCHANGED <<list, post, patience>>, Shown
    PROVE  Waited' /\ Shown'
<1>1. CASE p = NoPlace
  <2>1. place' = NoPlace /\ UNCHANGED <<pick, duration, load>>
    BY <1>1 DEF Select
  <2>2. ~Loading'
    BY <2>1 DEF Loading
  <2>3. \A l \in Load : load'[l] = NoPlace
    BY <2>2 DEF Loading
  <2> QED
    BY <2>1, <2>2, <2>3 DEF Waited, Shown
<1>2. CASE p # NoPlace
  <2>1. place' = p /\ pick' = 0 /\ duration' = 1 /\ Request(p) /\ p \in Place
    BY <1>2 DEF Select
  <2>2. PICK l \in Load : load'[l] = p /\ \A k \in Load : k # l => load'[k] = NoPlace
    BY <2>1, RequestAlone
  <2>3. Loading'
    BY <1>2, <2>2 DEF Loading
  <2> QED
    BY <2>1, <2>2, <2>3 DEF Waited, Shown
<1> QED
  BY <1>1, <1>2

LEMMA VenueWaits ==
    ASSUME TypeOK, Waited, Shown, patience # "hasty", patience' # "hasty", VenueArrives \/ VenueMissing
    PROVE  Waited' /\ Shown'
<1>1. venue = "loading" /\ UNCHANGED <<list, post>>
  BY DEF VenueArrives, VenueMissing
<1>2. \A q \in Post : post[q] = NoPost
  BY <1>1 DEF Waited
<1>3. CASE UNCHANGED <<choice, load, patience>>
  BY <1>1, <1>2, <1>3 DEF choice, Waited, Shown, Loading
<1>4. CASE Select(First) /\ Hasty(Loading)
  <2>1. ~Loading /\ patience' = patience
    BY <1>4 DEF Hasty
  <2>2. First \in Place \cup {NoPlace}
    BY BookingPageAssumption
  <2> QED
    BY <1>1, <1>2, <1>4, <2>1, <2>2, SelectWaits
<1> QED
  BY <1>3, <1>4 DEF VenueArrives, VenueMissing

LEMMA ChangePlaceWaits ==
    ASSUME TypeOK, Waited, Shown, patience' # "hasty", NEW p \in Place, ChangePlace(p)
    PROVE  Waited' /\ Shown'
<1>1. /\ Select(p) /\ Hasty(Loading \/ Posting) /\ UNCHANGED <<list, post>>
  BY DEF ChangePlace
<1>2. ~Loading /\ ~Posting /\ patience' = patience
  BY <1>1 DEF Hasty
<1>3. \A q \in Post : post[q] = NoPost
  BY <1>2 DEF Posting
<1> QED
  BY <1>1, <1>2, <1>3, SelectWaits

LEMMA DurationWaits ==
    ASSUME TypeOK, Waited, Shown, patience # "hasty", NEW n, SelectDuration(n)
    PROVE  Waited' /\ Shown'
<1>1. /\ duration' = n /\ pick' = 0
      /\ patience' = IF Loading /\ patience = "waits" THEN "early" ELSE patience
      /\ UNCHANGED <<venue, place, list, load, post>>
  BY DEF SelectDuration
<1>2. Loading' <=> Loading
  BY <1>1 DEF Loading
<1>3. Waited'
  BY <1>1, <1>2 DEF Waited
<1>4. Shown'
  BY <1>1, <1>2 DEF Shown
<1> QED
  BY <1>3, <1>4

\* A start is offered when the slots to its end, and so many, are in the list.
LEMMA OfferedFits ==
    ASSUME TypeOK, list # NoList, NEW i \in Slots(list.of), Offered(i)
    PROVE  i + duration - 1 <= Length[list.of]
<1>1. list.of \in Place
  BY ListFields
<1>2. Length[list.of] \in Nat /\ duration \in Nat
  BY <1>1, BookingPageAssumption, TypeParts DEF ChoiceOK
<1>3. i \in Nat /\ i <= Length[list.of]
  BY <1>2 DEF Slots
<1> DEFINE last == Length[list.of] - i + 1
           Run == {n \in 1..last : SlotsFrom(i, n) \subseteq list.free}
<1>4. last \in Nat
  BY <1>2, <1>3
<1>5. IsFiniteSet(1..last) /\ Cardinality(1..last) = last
  <2>1. /\ IsFiniteSet(1..last)
        /\ Cardinality(1..last) = IF 1 > last THEN 0 ELSE last - 1 + 1
    BY <1>4, FS_Interval
  <2> QED
    BY <1>4, <2>1
<1>6. Run \in SUBSET (1..last)
  OBVIOUS
<1>7. MaxConsecutive(i) = Cardinality(Run)
  BY DEF MaxConsecutive
<1> HIDE DEF Run, last
<1>8. IsFiniteSet(Run) /\ Cardinality(Run) <= Cardinality(1..last)
  BY <1>5, <1>6, FS_Subset
<1>9. Cardinality(Run) \in Nat
  BY <1>8, FS_CardinalityType
<1>10. Cardinality(Run) >= duration
  BY <1>7 DEF Offered
<1>11. duration <= last
  BY <1>2, <1>4, <1>5, <1>8, <1>9, <1>10
<1> QED
  BY <1>2, <1>3, <1>11 DEF last

LEMMA PickWaits ==
    ASSUME TypeOK, Waited, Shown, patience' # "hasty", NEW i \in Slot, PickSlot(i)
    PROVE  Waited' /\ Shown'
<1>1. /\ list # NoList /\ i \in Slots(list.of) /\ Offered(i)
      /\ pick' = (IF pick = i THEN 0 ELSE i) /\ Hasty(Loading)
      /\ UNCHANGED <<venue, place, duration, list, load, post>>
  BY DEF PickSlot
<1>2. ~Loading /\ patience' = patience
  BY <1>1 DEF Hasty
<1>3. ~Loading'
  BY <1>1, <1>2 DEF Loading
<1>4. Waited'
  BY <1>1, <1>2, <1>3 DEF Waited
<1>5. i + duration - 1 <= Length[list.of]
  BY <1>1, OfferedFits
<1>6. Shown'
  BY <1>1, <1>2, <1>3, <1>5 DEF Shown
<1> QED
  BY <1>4, <1>6

LEMMA ListWaits ==
    ASSUME TypeOK, Waited, Shown, patience # "hasty", patience' # "hasty", NEW l \in Load,
           AvailabilityArrives(l) \/ AvailabilityRefused(l) \/ AvailabilityLost(l)
    PROVE  Waited' /\ Shown'
<1>1. ~AvailabilityLost(l)
  BY DEF AvailabilityLost, Hasty
<1>2. /\ load[l] # NoPlace /\ load' = [load EXCEPT ![l] = NoPlace]
      /\ UNCHANGED <<venue, place, duration, post, patience>>
  BY <1>1 DEF AvailabilityArrives, AvailabilityRefused, choice
<1>3. load[l] = place /\ pick = 0 /\ place \in Place
  BY <1>2, TypeParts DEF Waited, Loading, ChoiceOK
<1>4. \A k \in Load : load'[k] = NoPlace
  BY <1>2, TypeParts DEF Waited, ChoiceOK
<1>5. ~Loading'
  BY <1>4 DEF Loading
<1>6. CASE AvailabilityRefused(l)
  <2>1. list' = NoList
    BY <1>6 DEF AvailabilityRefused
  <2> QED
    BY <1>2, <1>4, <1>5, <2>1 DEF Waited, Shown
<1>7. CASE AvailabilityArrives(l)
  <2>1. PICK free : /\ free = Slots(load[l]) \ taken[load[l]]
                    /\ list' = [of |-> load[l], free |-> free] /\ ApplyPreset(free)
    BY <1>7 DEF AvailabilityArrives
  <2>2. list'.of = place /\ (pick' = 0 \/ pick' \in Slots(place))
    BY <1>3, <2>1 DEF ApplyPreset
  <2>3. patience = "waits" => duration = 1
    BY <1>2 DEF Shown, Loading
  <2>4. Length[place] \in Nat
    BY <1>3, BookingPageAssumption
  <2>5. patience' = "waits" /\ pick' # 0 => pick' + duration' - 1 <= Length[list'.of]
    BY <1>2, <2>2, <2>3, <2>4 DEF Slots
  <2>6. Shown'
    BY <1>5, <2>5 DEF Shown
  <2>7. Waited'
    BY <1>2, <1>4, <1>5, <2>2 DEF Waited
  <2> QED
    BY <2>6, <2>7
<1> QED
  BY <1>1, <1>6, <1>7

LEMMA ConfirmWaits ==
    ASSUME TypeOK, Waited, Shown, patience' # "hasty", Confirm
    PROVE  Waited' /\ Shown'
<1>1. /\ venue = "shown" /\ place # NoPlace /\ list # NoList
      /\ Hasty(Loading)
      /\ UNCHANGED <<venue, place, pick, duration, list, load>>
  BY ConfirmCases DEF choice
<1>2. ~Loading /\ patience' = patience
  BY <1>1 DEF Hasty
<1>3. PICK q \in Post : /\ post[q] = NoPost
                        /\ post'[q].order.of = place /\ post'[q].order.seen = list.of
                        /\ \A k \in Post : k # q => post'[k] = post[k]
  BY ConfirmCases
<1>4. list.of = place
  BY <1>1, <1>2 DEF Waited
<1>5. Loading' <=> Loading
  BY <1>1 DEF Loading
<1>6. Waited'
  BY <1>1, <1>2, <1>3, <1>4, <1>5 DEF Waited
<1>7. Shown'
  BY <1>1, <1>2, <1>5 DEF Shown
<1> QED
  BY <1>6, <1>7

\* Orders that stay as they are leave what a customer waited for.
LEMMA OrdersWait ==
    ASSUME TypeOK, Waited, Shown,
           \A k \in Post : post'[k] = NoPost \/ (post[k] # NoPost /\ post'[k].order = post[k].order),
           UNCHANGED <<venue, place, pick, duration, list, load, patience>>
    PROVE  Waited' /\ Shown'
<1>1. Loading' <=> Loading
  BY DEF Loading
<1>2. Waited'
  BY <1>1 DEF Waited
<1>3. Shown'
  BY <1>1 DEF Shown
<1> QED
  BY <1>2, <1>3

LEMMA ServerWaits ==
    ASSUME TypeOK, Waited, Shown,
           \/ \E q \in Post : Book(q) \/ AnswerSpoiled(q) \/ AnswerLost(q)
           \/ \E p \in Place : \E i \in Slots(p) : OthersBook(p, i)
    PROVE  Waited' /\ Shown'
<1>1. ASSUME NEW q \in Post, NEW at \in {"booked", "taken", "refused"}, post[q].at # "none",
             post' = [post EXCEPT ![q].at = at]
      PROVE  \A k \in Post : post'[k] = NoPost \/ (post[k] # NoPost /\ post'[k].order = post[k].order)
  <2>1. post[q] # NoPost
    BY <1>1, PostFields
  <2>2. /\ post'[q].order = post[q].order
        /\ \A k \in Post : k # q => post'[k] = post[k]
    BY <1>1, <2>1, AnswerTypes
  <2> QED
    BY <2>1, <2>2
<1>2. ASSUME NEW q \in Post, Book(q) PROVE Waited' /\ Shown'
  <2>1. /\ post[q].at # "none"
        /\ \E at \in {"booked", "taken", "refused"} : post' = [post EXCEPT ![q].at = at]
        /\ UNCHANGED <<venue, place, pick, duration, list, load, patience>>
    BY <1>2, BookCases DEF BookFree, choice
  <2> QED
    BY <1>1, <2>1, OrdersWait
<1>3. ASSUME NEW q \in Post, AnswerSpoiled(q) PROVE Waited' /\ Shown'
  <2>1. /\ post[q].at # "none" /\ post' = [post EXCEPT ![q].at = "refused"]
        /\ UNCHANGED <<venue, place, pick, duration, list, load, patience>>
    BY <1>3 DEF AnswerSpoiled, choice
  <2> QED
    BY <1>1, <2>1, OrdersWait
<1>4. ASSUME NEW q \in Post, AnswerLost(q) PROVE Waited' /\ Shown'
  <2>1. /\ post' = [post EXCEPT ![q] = NoPost]
        /\ UNCHANGED <<venue, place, pick, duration, list, load, patience>>
    BY <1>4 DEF AnswerLost, choice
  <2>2. post'[q] = NoPost /\ \A k \in Post : k # q => post'[k] = post[k]
    BY <2>1, EndTypes
  <2> QED
    BY <2>1, <2>2, OrdersWait
<1>5. ASSUME NEW p \in Place, NEW i \in Slots(p), OthersBook(p, i) PROVE Waited' /\ Shown'
  <2>1. UNCHANGED <<venue, place, pick, duration, list, load, post, patience>>
    BY <1>5 DEF OthersBook, choice
  <2> QED
    BY <2>1, OrdersWait
<1> QED
  BY <1>2, <1>3, <1>4, <1>5

LEMMA AnsweredWaits ==
    ASSUME TypeOK, Waited, Shown, patience' # "hasty", NEW q \in Post, ConfirmAnswered(q)
    PROVE  Waited' /\ Shown'
<1>1. post' = [post EXCEPT ![q] = NoPost] /\ UNCHANGED <<venue, place, list>>
  BY AnsweredCases
<1>2. post'[q] = NoPost /\ \A k \in Post : k # q => post'[k] = post[k]
  BY <1>1, EndTypes
<1>3. CASE UNCHANGED <<pick, duration, load, patience>>
  BY <1>1, <1>2, <1>3, OrdersWait
<1>4. CASE post[q].at = "taken" /\ pick' = 0 /\ duration' = 1
           /\ Request(post[q].order.of) /\ Hasty(Loading)
  <2>1. ~Loading /\ patience' = patience
    BY <1>4 DEF Hasty
  <2>2. post[q] # NoPost
    BY <1>4, PostFields
  <2>3. post[q].order.of = place /\ place \in Place
    BY <2>1, <2>2, PostFields DEF Waited
  <2>4. PICK l \in Load : load'[l] = place /\ \A k \in Load : k # l => load'[k] = NoPlace
    BY <1>4, <2>1, <2>3, RequestAlone
  <2>5. Loading'
    BY <2>3, <2>4, BookingPageAssumption DEF Loading
  <2>6. Waited'
    BY <1>1, <1>2, <1>4, <2>1, <2>4, <2>5 DEF Waited
  <2>7. Shown'
    BY <1>4 DEF Shown
  <2> QED
    BY <2>6, <2>7
<1> QED
  BY <1>3, <1>4, AnsweredCases

LEMMA WaitingStays ==
    ASSUME TypeOK, Waited, Shown, [Next]_vars
    PROVE  Waited' /\ Shown'
<1> SUFFICES ASSUME patience' # "hasty" PROVE Waited' /\ Shown'
  BY DEF Waited, Shown
<1>1. patience # "hasty"
  BY HastyStays
<1>2. CASE UNCHANGED vars
  BY <1>2, OrdersWait DEF vars, choice
<1>3. CASE Next
  BY <1>1, <1>3, VenueWaits, ChangePlaceWaits, DurationWaits, PickWaits, ListWaits, ConfirmWaits,
     ServerWaits, AnsweredWaits DEF Next
<1> QED
  BY <1>2, <1>3

LEMMA WaitingStarts == Init => Waited /\ Shown
<1> SUFFICES ASSUME Init PROVE Waited /\ Shown
  OBVIOUS
<1>1. /\ list = NoList /\ pick = 0 /\ duration = 1
      /\ load = [l \in Load |-> IF l = 1 THEN place ELSE NoPlace]
      /\ post = [q \in Post |-> NoPost]
  BY DEF Init
<1>2. \A k, l \in Load : load[k] # NoPlace /\ load[l] # NoPlace => k = l
  BY <1>1
<1>3. \A l \in Load : load[l] # NoPlace => load[l] = place
  BY <1>1
<1> QED
  BY <1>1, <1>2, <1>3 DEF Waited, Shown

\* The property OrderIsAsShown: for every venue, link and number of requests
\* under way, a customer who waits for lists orders what was on the screen.
THEOREM OrdersAreAsShown == Spec => []OrderIsAsShown
<1>1. Waited => OrderIsAsShown
  BY DEF Waited, OrderIsAsShown
<1> QED
  BY <1>1, WaitingStarts, WaitingStays, PageTypeCorrect, PTL DEF Spec

\* The property PageHolds: such a customer never has slots picked that the
\* list shown does not have.
THEOREM PageNeverBreaks == Spec => []PageHolds
<1>1. TypeOK /\ Shown => PageHolds
  <2> SUFFICES ASSUME TypeOK, Shown, patience = "waits", Broken PROVE FALSE
    BY DEF PageHolds
  <2>1. list # NoList /\ pick # 0 /\ pick + duration - 1 > Length[list.of]
    BY DEF Broken
  <2>2. pick + duration - 1 <= Length[list.of]
    BY <2>1 DEF Shown
  <2>3. list.of \in Place
    BY <2>1, ListFields
  <2>4. Length[list.of] \in Nat /\ duration \in Nat
    BY <2>3, BookingPageAssumption, TypeParts DEF ChoiceOK
  <2>5. pick \in Nat
    BY SlotsAreSlots, TypeParts DEF ChoiceOK, Slot
  <2> QED
    BY <2>1, <2>2, <2>4, <2>5
<1> QED
  BY <1>1, WaitingStarts, WaitingStays, PageTypeCorrect, PTL DEF Spec

-----------------------------------------------------------------------------
(* The pages: requests under way *)

\* A sequence without its i-th element.
LEMMA WithoutOne ==
    ASSUME NEW S, NEW s \in Seq(S), NEW i \in DOMAIN s
    PROVE  /\ Without(s, i) \in Seq(S)
           /\ Len(Without(s, i)) = Len(s) - 1
           /\ DOMAIN Without(s, i) = 1..(Len(s) - 1)
           /\ \A j \in DOMAIN Without(s, i) :
                 \E k \in DOMAIN s \ {i} : Without(s, i)[j] = s[k] /\ (k = Len(s) => j = Len(s) - 1)
           /\ \A k \in DOMAIN s \ {i} : \E j \in DOMAIN Without(s, i) : Without(s, i)[j] = s[k]
<1>1. PICK n \in Nat : n = Len(s)
  OBVIOUS
<1>2. DOMAIN s = 1..n /\ i \in 1..n /\ n - 1 \in Nat
  BY <1>1
<1>3. Without(s, i) = [j \in 1..(n - 1) |-> IF j < i THEN s[j] ELSE s[j + 1]]
  BY <1>1 DEF Without
<1>4. ASSUME NEW j \in 1..(n - 1)
      PROVE  \E k \in DOMAIN s \ {i} : Without(s, i)[j] = s[k] /\ (k = n => j = n - 1)
  <2>1. CASE j < i
    <3>1. j \in 1..n /\ j # i /\ j # n
      BY <1>2, <2>1
    <3> QED
      BY <1>2, <1>3, <2>1, <3>1
  <2>2. CASE ~(j < i)
    <3>1. j + 1 \in 1..n /\ j + 1 # i /\ (j + 1 = n => j = n - 1)
      BY <1>2, <2>2
    <3> QED
      BY <1>2, <1>3, <2>2, <3>1
  <2> QED
    BY <2>1, <2>2
<1>5. \A j \in 1..(n - 1) : Without(s, i)[j] \in S
  BY <1>4
<1>7. ASSUME NEW k \in 1..n, k # i
      PROVE  \E j \in 1..(n - 1) : Without(s, i)[j] = s[k]
  <2>1. CASE k < i
    <3>1. k \in 1..(n - 1)
      BY <1>2, <2>1
    <3> QED
      BY <1>3, <2>1, <3>1
  <2>2. CASE ~(k < i)
    <3>1. k - 1 \in 1..(n - 1) /\ ~(k - 1 < i) /\ (k - 1) + 1 = k
      BY <1>2, <1>7, <2>2
    <3> QED
      BY <1>3, <3>1
  <2> QED
    BY <2>1, <2>2
<1>6. /\ Without(s, i) \in Seq(S) /\ Len(Without(s, i)) = n - 1
      /\ DOMAIN Without(s, i) = 1..(n - 1)
  BY <1>2, <1>3, <1>5
<1>8. \A k \in DOMAIN s \ {i} : \E j \in DOMAIN Without(s, i) : Without(s, i)[j] = s[k]
  BY <1>2, <1>6, <1>7
<1> QED
  BY <1>1, <1>4, <1>6, <1>8

\* A new request: it is the last one, and overtakes the others.
LEMMA WithOneMore ==
    ASSUME asks \in Seq(Ask), NEW k \in Key
    PROVE  /\ WithAsk(k) \in Seq(Ask)
           /\ Len(WithAsk(k)) = Len(asks) + 1
           /\ DOMAIN WithAsk(k) = 1..(Len(asks) + 1)
           /\ WithAsk(k)[Len(asks) + 1] = [of |-> k, at |-> "asked", last |-> TRUE]
           /\ \A i \in DOMAIN asks : WithAsk(k)[i] = [asks[i] EXCEPT !.last = FALSE]
           /\ WithAsk(k) # <<>>
<1>1. \A i \in DOMAIN asks : [asks[i] EXCEPT !.last = FALSE] \in Ask
  <2> SUFFICES ASSUME NEW i \in DOMAIN asks PROVE [asks[i] EXCEPT !.last = FALSE] \in Ask
    OBVIOUS
  <2>1. asks[i] \in Ask
    OBVIOUS
  <2> QED
    BY <2>1 DEF Ask
<1>2. Overtaken \in Seq(Ask) /\ Len(Overtaken) = Len(asks) /\ DOMAIN Overtaken = DOMAIN asks
      /\ \A i \in DOMAIN asks : Overtaken[i] = [asks[i] EXCEPT !.last = FALSE]
  BY <1>1 DEF Overtaken
<1>3. [of |-> k, at |-> "asked", last |-> TRUE] \in Ask
  BY DEF Ask
<1> HIDE DEF Ask
<1> QED
  BY <1>2, <1>3 DEF WithAsk

\* A sequence with another element at i.
LEMMA Changed ==
    ASSUME NEW S, NEW s \in Seq(S), NEW i \in DOMAIN s, NEW e \in S
    PROVE  /\ [s EXCEPT ![i] = e] \in Seq(S)
           /\ Len([s EXCEPT ![i] = e]) = Len(s)
           /\ DOMAIN [s EXCEPT ![i] = e] = DOMAIN s
           /\ [s EXCEPT ![i] = e][i] = e
           /\ \A j \in DOMAIN s \ {i} : [s EXCEPT ![i] = e][j] = s[j]
OBVIOUS

\* A sequence with one more element.
LEMMA Appended ==
    ASSUME NEW S, NEW s \in Seq(S), NEW e \in S
    PROVE  /\ Append(s, e) \in Seq(S)
           /\ Len(Append(s, e)) = Len(s) + 1
           /\ DOMAIN Append(s, e) = 1..(Len(s) + 1)
           /\ Append(s, e)[Len(s) + 1] = e
           /\ \A j \in DOMAIN s : Append(s, e)[j] = s[j]
OBVIOUS

\* Rows and forms are not Nothing.
LEMMA SomethingIsNotNothing ==
    /\ \A r \in Row : r # Nothing
    /\ \A x \in Form : x # Nothing
<1>1. DOMAIN Nothing = {"of"}
  BY DEF Nothing
<1>2. \A r \in Row : "val" \in DOMAIN r
  BY DEF Row
<1>3. \A x \in Form : "val" \in DOMAIN x
  BY DEF Form
<1> QED
  BY <1>1, <1>2, <1>3

-----------------------------------------------------------------------------
(* Types *)

ChosenOK ==
    /\ screen \in Screens /\ sel \in Key
    /\ restored \in BOOLEAN /\ (~restored => view.restores)
    /\ timer \in BOOLEAN /\ (timer => view.waits)

ShownOK ==
    /\ rows \in Row \cup {Nothing} /\ form \in Form \cup {Nothing}
    /\ editor.starts \in {"click", "none"} => form = Nothing
    /\ behind \in BOOLEAN /\ down \in BOOLEAN

AsksOK == asks \in Seq(Ask) /\ Len(asks) <= MaxAsks

\* A save has parts before it until all are carried out or one is refused.
Stages ==
    \A i \in DOMAIN posts :
        /\ posts[i].at \in {"sent", "refused"} => posts[i].done < editor.parts
        /\ posts[i].at = "ok" => posts[i].done \in 1..editor.parts

PostsOK ==
    /\ posts \in Seq(SaveRequest) /\ Len(posts) <= MaxPosts
    /\ editor.once => Len(posts) <= 1
    /\ Stages

ServedOK == db \in [Key -> Item] /\ crossed \in BOOLEAN /\ reverted \in BOOLEAN

ToldOK ==
    /\ told \subseteq Told /\ done \in 0..editor.parts /\ strayed \in BOOLEAN
    /\ acts \in 0..MaxActs /\ hasty \in BOOLEAN

PageTyped == ChosenOK /\ ShownOK /\ AsksOK /\ PostsOK /\ ServedOK /\ ToldOK

LEMMA TypedIsTypeOK == PageTyped => PageTypeOK
<1> SUFFICES ASSUME PageTyped PROVE PageTypeOK
  OBVIOUS
<1>1. \A i \in DOMAIN asks : asks[i] \in Ask
  BY DEF PageTyped, AsksOK
<1>2. \A i \in DOMAIN posts : posts[i] \in SaveRequest
  BY DEF PageTyped, PostsOK
<1>3. {hasty, behind, crossed, reverted, down, strayed} \subseteq BOOLEAN
  BY DEF PageTyped, ShownOK, ServedOK, ToldOK
<1> QED
  BY <1>1, <1>2, <1>3
     DEF PageTyped, ChosenOK, ShownOK, AsksOK, PostsOK, ServedOK, ToldOK, PageTypeOK

\* The traits of the page are traits, and stay.
LEMMA Traits ==
    ASSUME ChosenOK
    PROVE  view \in Views /\ editor \in Editors
<1>1. screen \in [view: Views, editor: Editors]
  BY ScreensAssumption DEF ChosenOK
<1> QED
  BY <1>1 DEF view, editor

LEMMA TraitsStay ==
    ASSUME [PageNext]_pageVars
    PROVE  screen' = screen /\ view' = view /\ editor' = editor
<1>1. screen' = screen
  BY DEF PageNext, pageVars, Restore, ChangeSelection, TimerFires, Poll, Read, Arrive, Open,
         Abandon, Mount, ChooseBranch, Save, Type, Click, ConfirmAll, Apply, NextPart, Saved
<1> QED
  BY <1>1 DEF view, editor

LEMMA ActBounds ==
    ASSUME PageTyped, Acts
    PROVE  acts' \in 0..MaxActs
BY PagesAssumption DEF PageTyped, ToldOK, Acts

\* A new selection, restored or chosen.
LEMMA ChosenStays ==
    ASSUME PageTyped, [PageNext]_pageVars
    PROVE  ChosenOK'
<1>0. screen' = screen /\ view' = view /\ editor' = editor
  BY TraitsStay
<1> USE DEF PageTyped, ChosenOK
<1>1. ASSUME NEW k \in Key, Restore(k) PROVE ChosenOK'
  BY <1>0, <1>1, Traits DEF Restore, TakeSelection, Views
<1>2. ASSUME NEW k \in Key, ChangeSelection(k) PROVE ChosenOK'
  BY <1>0, <1>2, Traits DEF ChangeSelection, TakeSelection, Views
<1>3. ASSUME TimerFires PROVE ChosenOK'
  BY <1>0, <1>3 DEF TimerFires
<1>4. ASSUME UNCHANGED chosen PROVE ChosenOK'
  BY <1>0, <1>4 DEF chosen
<1> QED
  BY <1>1, <1>2, <1>3, <1>4
     DEF PageNext, pageVars, Poll, Read, Arrive, Open, Abandon, Mount, ChooseBranch, Save, Type, Click, ConfirmAll, Apply,
         NextPart, Saved

\* What a request, a save, a row and a form are made of.
LEMMA AskParts ==
    ASSUME NEW a \in Ask
    PROVE  /\ a.of \in Key /\ a.at \in {"asked", "failed", "read"} /\ a.last \in BOOLEAN
           /\ a.at = "read" => a.val \in Item /\ [of |-> a.of, val |-> a.val] \in Row
BY DEF Ask, Row

LEMMA SaveParts ==
    ASSUME NEW p \in SaveRequest
    PROVE  /\ p.to \in Key /\ p.of \in Key /\ p.key \in Key /\ p.val \in Item
           /\ p.sends \subseteq Field /\ p.typed \subseteq Field /\ p.before \in Row
           /\ p.at \in {"sent", "ok", "refused"} /\ p.done \in 0..2
BY DEF SaveRequest

LEMMA RowParts ==
    ASSUME NEW r \in Row \cup {Nothing}, r # Nothing
    PROVE  r \in Row /\ r.of \in Key /\ r.val \in Item
BY DEF Row

LEMMA FormParts ==
    ASSUME NEW x \in Form \cup {Nothing}, x # Nothing
    PROVE  /\ x \in Form /\ x.of \in Key /\ x.val \in Item /\ x.typed \subseteq Field
           /\ x.open \in BOOLEAN
           /\ [x EXCEPT !.open = FALSE] \in Form
           /\ \A t \in SUBSET Field : [x EXCEPT !.typed = t] \in Form
BY DEF Form

\* A field that the user changes, once.
LEMMA Flipped ==
    ASSUME NEW v \in Item, NEW f \in Field
    PROVE  /\ [v EXCEPT ![f] = 1 - @] \in Item
           /\ \A g \in Field \ {f} : [v EXCEPT ![f] = 1 - @][g] = v[g]
BY DEF Item

\* Two items are one if their fields are.
LEMMA SameItem ==
    ASSUME NEW v \in Item, NEW w \in Item, \A f \in Field : v[f] = w[f]
    PROVE  v = w
BY DEF Item

\* What an answer or a save leaves of the form is a form, and of the rows are rows.
LEMMA FormAfterOK ==
    ASSUME ShownOK, NEW r \in Row
    PROVE  /\ FormAfter(r) \in Form \cup {Nothing}
           /\ editor.starts \in {"click", "none"} => FormAfter(r) = Nothing
<1>1. \A b \in BOOLEAN : [of |-> r.of, val |-> r.val, typed |-> {}, open |-> b] \in Form
  BY DEF Form, Row
<1>2. CASE editor.starts = "answer"
  BY <1>1, <1>2 DEF FormAfter
<1>3. CASE editor.starts = "mount"
  BY <1>1, <1>3 DEF FormAfter, ShownOK
<1>4. CASE editor.starts = "renews"
  BY <1>1, <1>4 DEF FormAfter, ShownOK
<1>5. CASE editor.starts = "open"
  BY <1>1, <1>5 DEF FormAfter, ShownOK
<1>6. CASE editor.starts \notin {"answer", "mount", "renews", "open"}
  BY <1>6 DEF FormAfter, ShownOK
<1> QED
  BY <1>2, <1>3, <1>4, <1>5, <1>6

LEMMA ClosedOK ==
    ASSUME ShownOK, form # Nothing
    PROVE  /\ Closed \in Form \cup {Nothing}
           /\ ~Mounted => Closed = Nothing
BY FormParts DEF ShownOK, Closed

LEMMA FormSavedOK ==
    ASSUME ShownOK, NEW p \in SaveRequest
    PROVE  /\ FormSaved(p) \in Form \cup {Nothing}
           /\ form = Nothing => FormSaved(p) = Nothing
<1>1. CASE form = Nothing
  BY <1>1 DEF FormSaved
<1>2. CASE form # Nothing
  <2>1. form \in Form /\ form.typed \subseteq Field
    BY <1>2, FormParts DEF ShownOK
  <2>2. [of |-> p.of, val |-> p.val, typed |-> {}, open |-> TRUE] \in Form
    BY SaveParts DEF Form
  <2>3. [form EXCEPT !.typed = {f \in @ : form.val[f] # p.val[f]}] \in Form
    BY <2>1 DEF Form
  <2>7. Blank \in Item
    BY DEF Blank, Item
  <2>8. [form EXCEPT !.val = Blank, !.typed = {}, !.open = FALSE] \in Form
    BY <2>1, <2>7 DEF Form
  <2>6. CASE editor.starts = "kept"
    BY <1>2, <2>6, <2>8 DEF FormSaved
  <2>4. CASE editor.starts = "answer"
    BY <1>2, <2>2, <2>3, <2>4 DEF FormSaved
  <2>5. CASE editor.starts \notin {"answer", "kept"}
    <3>1. FormSaved(p) = IF form.open THEN Closed ELSE form
      BY <1>2, <2>1, <2>5, FormParts DEF FormSaved, ShownOK
    <3>2. Closed \in Form \cup {Nothing}
      BY <1>2, ClosedOK
    <3> QED
      BY <1>2, <2>1, <3>1, <3>2
  <2> QED
    BY <2>4, <2>5, <2>6
<1> QED
  BY <1>1, <1>2

LEMMA RowsTakenOK ==
    ASSUME ShownOK, NEW p \in SaveRequest
    PROVE  /\ RowsTaken(p) \in Row \cup {Nothing}
           /\ RowsTaken(p) = Nothing <=> rows = Nothing
           /\ rows # Nothing => RowsTaken(p).of = rows.of
           /\ rows # Nothing /\ rows.of = p.of =>
                \A f \in Field : RowsTaken(p).val[f] = IF f \in p.sends THEN p.val[f] ELSE rows.val[f]
<1>1. CASE rows = Nothing
  BY <1>1 DEF RowsTaken
<1>2. CASE rows # Nothing
  <2>1. rows \in Row /\ rows.val \in Item
    BY <1>2, RowParts DEF ShownOK
  <2> DEFINE v == [f \in Field |-> IF f \in p.sends THEN p.val[f] ELSE rows.val[f]]
  <2>2. v \in Item
    BY <2>1, SaveParts DEF Item
  <2>3. [rows EXCEPT !.val = v] \in Row /\ [rows EXCEPT !.val = v].of = rows.of
        /\ [rows EXCEPT !.val = v].val = v
    BY <2>1, <2>2 DEF Row
  <2>4. \/ RowsTaken(p) = rows /\ rows.of # p.of
        \/ RowsTaken(p) = [rows EXCEPT !.val = v]
    BY <1>2 DEF RowsTaken
  <2>5. \A f \in Field : v[f] = IF f \in p.sends THEN p.val[f] ELSE rows.val[f]
    OBVIOUS
  <2> HIDE DEF v
  <2>6. CASE RowsTaken(p) = rows /\ rows.of # p.of
    BY <1>2, <2>1, <2>6
  <2>7. CASE RowsTaken(p) = [rows EXCEPT !.val = v]
    <3>1. RowsTaken(p) \in Row /\ RowsTaken(p).of = rows.of /\ RowsTaken(p).val = v
      BY <2>3, <2>7
    <3>2. RowsTaken(p) # Nothing
      BY <3>1, SomethingIsNotNothing
    <3> QED
      BY <1>2, <2>5, <3>1, <3>2
  <2> QED
    BY <2>4, <2>6, <2>7
<1> QED
  BY <1>1, <1>2

LEMMA FormOpenedOK ==
    ASSUME ChosenOK, ShownOK, rows # Nothing, NEW k \in Opens
    PROVE  FormOpened(k) \in Form /\ k \in {sel, rows.of}
BY RowParts DEF FormOpened, Opens, Form, ChosenOK, ShownOK

LEMMA NewSaveOK ==
    ASSUME ChosenOK, ShownOK, rows # Nothing, editor \in Editors,
           NEW of \in Key, NEW val \in Item, NEW sends \in SUBSET Field, NEW typed \in SUBSET Field
    PROVE  /\ NewPost(of, val, sends, typed) \in SaveRequest
           /\ NewPost(of, val, sends, typed).at = "sent" /\ NewPost(of, val, sends, typed).done = 0
BY RowParts DEF NewPost, SaveRequest, Target, ChosenOK, ShownOK

\* Types of what is shown, in every step.
LEMMA SelectionShows ==
    ASSUME ShownOK, screen' = screen, editor' = editor,
           (rows' = rows /\ form' = form) \/ (rows' = Nothing /\ form' \in {Nothing, form}),
           behind' \in BOOLEAN, down' \in BOOLEAN
    PROVE  ShownOK'
BY DEF ShownOK

LEMMA ShownStays ==
    ASSUME PageTyped, [PageNext]_pageVars
    PROVE  ShownOK'
<1>0. screen' = screen /\ view' = view /\ editor' = editor
  BY TraitsStay
<1>t. /\ ChosenOK /\ ShownOK /\ editor \in Editors
      /\ behind \in BOOLEAN /\ down \in BOOLEAN
  BY Traits DEF PageTyped, ShownOK
<1>1. ASSUME NEW k \in Key, Restore(k) \/ ChangeSelection(k) PROVE ShownOK'
  <2>1. /\ (rows' = rows /\ form' = form) \/ (rows' = Nothing /\ form' \in {Nothing, form})
        /\ behind' = behind /\ down' = down
    BY <1>1 DEF Restore, ChangeSelection, TakeSelection, FormLeft
  <2> QED
    BY <1>0, <1>t, <2>1, SelectionShows
<1>2. ASSUME NEW i \in DOMAIN asks, Arrive(i) PROVE ShownOK'
  <2>1. asks[i] \in Ask
    BY DEF PageTyped, AsksOK
  <2>2. CASE UNCHANGED shown
    BY <1>0, <1>t, <2>2, SelectionShows DEF shown
  <2>3. CASE asks[i].at = "read" /\ rows' = [of |-> asks[i].of, val |-> asks[i].val]
             /\ form' = FormAfter([of |-> asks[i].of, val |-> asks[i].val])
             /\ behind' = ~asks[i].last /\ down' = down
    <3>1. [of |-> asks[i].of, val |-> asks[i].val] \in Row
      BY <2>1, <2>3, AskParts
    <3>2. behind' \in BOOLEAN
      BY <2>3
    <3> QED
      BY <1>0, <1>t, <2>3, <3>1, <3>2, FormAfterOK DEF ShownOK
  <2>4. CASE /\ (rows' = rows /\ form' = form) \/ (rows' = Nothing /\ form' \in {Nothing, form})
             /\ behind' = TRUE /\ down' = (view.failed = "breaks")
    <3>1. behind' \in BOOLEAN /\ down' \in BOOLEAN
      BY <2>4
    <3> QED
      BY <1>0, <1>t, <2>4, <3>1, SelectionShows
  <2> QED
    BY <1>2, <2>2, <2>3, <2>4 DEF Arrive, FormLeft
<1>3. ASSUME Open PROVE ShownOK'
  <2>1. rows' = rows /\ behind' = behind /\ down' = down /\ rows # Nothing
    BY <1>3 DEF Open
  <2>2. CASE form # Nothing /\ form' = [form EXCEPT !.open = TRUE, !.typed = {}]
    <3>1. form' \in Form
      BY <1>t, <2>2, FormParts DEF ShownOK, Form
    <3> QED
      BY <1>0, <1>t, <2>1, <2>2, <3>1 DEF ShownOK
  <2>3. CASE form = Nothing /\ \E k \in Opens : form' = FormOpened(k)
    <3>1. editor.starts \notin {"click", "none"}
      BY <1>3 DEF Open
    <3> QED
      BY <1>0, <1>t, <2>1, <2>3, <3>1, FormOpenedOK DEF ShownOK
  <2> QED
    BY <1>3, <2>2, <2>3 DEF Open
<1>4. ASSUME NEW f \in Field, Type(f) PROVE ShownOK'
  <2>1. /\ rows' = rows /\ behind' = behind /\ down' = down /\ form # Nothing
        /\ form' = [form EXCEPT !.val[f] = 1 - @, !.typed = @ \cup {f}]
    BY <1>4 DEF Type
  <2>2. form \in Form /\ form.val \in Item
    BY <1>t, <2>1, FormParts DEF ShownOK
  <2>3. PICK v \in Item : v = [form.val EXCEPT ![f] = 1 - @]
    BY <2>2, Flipped
  <2>4. form' = [form EXCEPT !.val = v, !.typed = @ \cup {f}]
    BY <2>1, <2>2, <2>3 DEF Form
  <2>5. form' \in Form
    BY <2>2, <2>4 DEF Form
  <2> QED
    BY <1>0, <1>t, <2>1, <2>5 DEF ShownOK
<1>5. ASSUME Abandon PROVE ShownOK'
  <2>1. form # Nothing /\ form' = Closed /\ rows' = rows /\ behind' = behind /\ down' = down
    BY <1>5 DEF Abandon, Covered
  <2> QED
    BY <1>0, <1>t, <2>1, ClosedOK DEF ShownOK
<1>6. ASSUME NEW f \in Field, Click(f) PROVE ShownOK'
  <2>1. /\ form' = form /\ behind' = behind /\ down' = down /\ rows # Nothing
        /\ rows' = rows \/ rows' = [rows EXCEPT !.val = [rows.val EXCEPT ![f] = 1 - @]]
    BY <1>6 DEF Click
  <2>2. rows \in Row /\ rows.val \in Item
    BY <1>t, <2>1, RowParts DEF ShownOK
  <2>3. PICK v \in Item : v = [rows.val EXCEPT ![f] = 1 - @]
    BY <2>2, Flipped
  <2>4. [rows EXCEPT !.val = v] \in Row
    BY <2>2 DEF Row
  <2> QED
    BY <1>0, <1>t, <2>1, <2>3, <2>4 DEF ShownOK
<1>7. ASSUME NEW i \in DOMAIN posts, Saved(i) PROVE ShownOK'
  <2>1. posts[i] \in SaveRequest
    BY DEF PageTyped, PostsOK
  <2>2. /\ behind' = behind /\ down' = down
        /\ rows' \in {rows, RowsTaken(posts[i]), posts[i].before}
        /\ form' \in {form, FormSaved(posts[i])}
    BY <1>7 DEF Saved, Show
  <2>3. posts[i].before \in Row
    BY <2>1, SaveParts
  <2> QED
    BY <1>0, <1>t, <2>1, <2>2, <2>3, RowsTakenOK, FormSavedOK DEF ShownOK
<1>8. ASSUME UNCHANGED shown PROVE ShownOK'
  BY <1>0, <1>8 DEF shown, PageTyped, ShownOK
<1>9. ASSUME Mount PROVE ShownOK'
  <2>1. [of |-> sel, val |-> Blank, typed |-> {}, open |-> FALSE] \in Form
    BY <1>t DEF ChosenOK, Form, Blank, Item
  <2> QED
    BY <1>0, <1>t, <1>9, <2>1 DEF Mount, ShownOK
<1>10. ASSUME NEW k \in Key, ChooseBranch(k) PROVE ShownOK'
  <2>1. [form EXCEPT !.of = k] \in Form
    BY <1>t, <1>10, FormParts DEF ChooseBranch, ShownOK, Form
  <2> QED
    BY <1>0, <1>t, <1>10, <2>1 DEF ChooseBranch, ShownOK
<1> QED
  BY <1>1, <1>2, <1>3, <1>4, <1>5, <1>6, <1>7, <1>8, <1>9, <1>10
     DEF PageNext, pageVars, TimerFires, Poll, Read, Save, ConfirmAll, Apply, NextPart

\* Types of the requests and the saves under way.
LEMMA AsksStay ==
    ASSUME PageTyped, [PageNext]_pageVars
    PROVE  AsksOK'
<1>t. /\ asks \in Seq(Ask) /\ Len(asks) <= MaxAsks /\ Len(asks) \in Nat /\ MaxAsks \in Nat
      /\ sel \in Key
  BY PagesAssumption DEF PageTyped, AsksOK, ChosenOK
<1>1. ASSUME NEW k \in Key, Len(asks) < MaxAsks, asks' = WithAsk(k) PROVE AsksOK'
  <2>1. WithAsk(k) \in Seq(Ask) /\ Len(WithAsk(k)) = Len(asks) + 1
    BY <1>t, WithOneMore
  <2>2. Len(WithAsk(k)) <= MaxAsks
    BY <1>t, <1>1, <2>1
  <2> QED
    BY <1>1, <2>1, <2>2 DEF AsksOK
<1>2. ASSUME NEW i \in DOMAIN asks, Read(i) PROVE AsksOK'
  <2>1. asks[i] \in Ask
    BY <1>t
  <2>2. asks[i].of \in Key /\ asks[i].last \in BOOLEAN /\ db[asks[i].of] \in Item
    BY <2>1, AskParts DEF PageTyped, ServedOK
  <2>3. PICK a : asks' = [asks EXCEPT ![i] = a] /\
          \/ a = [of |-> asks[i].of, at |-> "read", last |-> asks[i].last, val |-> db[asks[i].of]]
          \/ a = [asks[i] EXCEPT !.at = "failed"]
    BY <1>2 DEF Read
  <2>4. [of |-> asks[i].of, at |-> "read", last |-> asks[i].last, val |-> db[asks[i].of]] \in Ask
    BY <2>2 DEF Ask
  <2>5. asks[i].at = "asked" => [asks[i] EXCEPT !.at = "failed"] \in Ask
    BY <2>1 DEF Ask
  <2>6. a \in Ask
    BY <1>2, <2>3, <2>4, <2>5 DEF Read
  <2> QED
    BY <1>t, <2>3, <2>6, Changed DEF AsksOK
<1>3. ASSUME NEW i \in DOMAIN asks, Arrive(i) PROVE AsksOK'
  <2>1. asks' = Without(asks, i)
    BY <1>3 DEF Arrive
  <2> QED
    BY <1>t, <2>1, WithoutOne DEF AsksOK
<1>4. ASSUME NEW i \in DOMAIN posts, Saved(i) PROVE AsksOK'
  <2>1. posts[i].key \in Key
    BY SaveParts DEF PageTyped, PostsOK
  <2>2. asks' = asks \/ (Len(asks) < MaxAsks /\ asks' = WithAsk(posts[i].key))
    BY <1>4 DEF Saved, Show
  <2>3. asks' = asks => AsksOK'
    BY <1>t DEF AsksOK
  <2> QED
    BY <1>1, <2>1, <2>2, <2>3
<1>5. ASSUME NEW k \in Key, Restore(k) \/ ChangeSelection(k) PROVE AsksOK'
  <2>1. asks' = asks \/ (Len(asks) < MaxAsks /\ asks' = WithAsk(k))
    BY <1>5 DEF Restore, ChangeSelection, TakeSelection
  <2>2. asks' = asks => AsksOK'
    BY <1>t DEF AsksOK
  <2> QED
    BY <1>1, <2>1, <2>2
<1>6. ASSUME TimerFires \/ Poll PROVE AsksOK'
  BY <1>t, <1>1, <1>6 DEF TimerFires, Poll
<1>7. ASSUME UNCHANGED asks PROVE AsksOK'
  BY <1>t, <1>7 DEF AsksOK
<1> QED
  BY <1>2, <1>3, <1>4, <1>5, <1>6, <1>7
     DEF PageNext, pageVars, Open, Abandon, Mount, ChooseBranch, Save, Type, Click, ConfirmAll, Apply, NextPart

LEMMA PostsGrow ==
    ASSUME PostsOK, NEW p \in SaveRequest, p.at = "sent", p.done = 0, editor \in Editors,
           MayPost, posts' = Append(posts, p), screen' = screen, editor' = editor
    PROVE  PostsOK'
<1>1. posts \in Seq(SaveRequest) /\ Len(posts) \in Nat /\ Len(posts) < MaxPosts /\ MaxPosts \in Nat
  BY PagesAssumption DEF PostsOK, MayPost
<1>2. /\ posts' \in Seq(SaveRequest) /\ Len(posts') = Len(posts) + 1
      /\ DOMAIN posts' = 1..(Len(posts) + 1)
      /\ posts'[Len(posts) + 1] = p
      /\ \A j \in DOMAIN posts : posts'[j] = posts[j]
  BY <1>1, Appended
<1>3. editor.parts \in {1, 2}
  BY DEF Editors
<1>4. Stages'
  <2> SUFFICES ASSUME NEW j \in DOMAIN posts'
               PROVE  /\ posts'[j].at \in {"sent", "refused"} => posts'[j].done < editor.parts
                      /\ posts'[j].at = "ok" => posts'[j].done \in 1..editor.parts
    BY DEF Stages
  <2>1. CASE j \in DOMAIN posts
    BY <1>2, <2>1 DEF PostsOK, Stages
  <2>2. CASE j = Len(posts) + 1
    BY <1>2, <1>3, <2>2
  <2> QED
    BY <1>1, <1>2, <2>1, <2>2
<1>5. Len(posts') <= MaxPosts /\ (editor.once => Len(posts') <= 1)
  <2>1. editor.once => Len(posts) = 0
    BY <1>1 DEF MayPost
  <2> QED
    BY <1>1, <1>2, <2>1
<1> QED
  BY <1>2, <1>4, <1>5 DEF PostsOK

\* What a step does to one save.
LEMMA PostsChange ==
    ASSUME PostsOK, NEW i \in DOMAIN posts, NEW p \in SaveRequest,
           posts' = [posts EXCEPT ![i] = p], screen' = screen, editor' = editor,
           p.at \in {"sent", "refused"} => p.done < editor.parts,
           p.at = "ok" => p.done \in 1..editor.parts
    PROVE  PostsOK'
<1>1. /\ posts' \in Seq(SaveRequest) /\ Len(posts') = Len(posts) /\ DOMAIN posts' = DOMAIN posts
      /\ posts'[i] = p /\ \A j \in DOMAIN posts \ {i} : posts'[j] = posts[j]
  BY Changed DEF PostsOK
<1>2. Stages'
  <2> SUFFICES ASSUME NEW j \in DOMAIN posts'
               PROVE  /\ posts'[j].at \in {"sent", "refused"} => posts'[j].done < editor.parts
                      /\ posts'[j].at = "ok" => posts'[j].done \in 1..editor.parts
    BY DEF Stages
  <2>1. CASE j = i
    BY <1>1, <2>1
  <2>2. CASE j # i
    BY <1>1, <2>2 DEF PostsOK, Stages
  <2> QED
    BY <2>1, <2>2
<1> QED
  BY <1>1, <1>2 DEF PostsOK

\* What the API and the page make of a save under way.
Applied(p) == [p EXCEPT !.at = "ok", !.done = @ + 1]
Refused(p) == [p EXCEPT !.at = "refused"]
SentAgain(p) == [p EXCEPT !.at = "sent"]

LEMMA Progress ==
    ASSUME PageTyped, NEW i \in DOMAIN posts
    PROVE  /\ Apply(i) => /\ posts[i].at = "sent"
                          /\ \/ posts' = [posts EXCEPT ![i] = Applied(posts[i])]
                             \/ posts' = [posts EXCEPT ![i] = Refused(posts[i])]
           /\ NextPart(i) => /\ posts[i].at = "ok" /\ posts[i].done < editor.parts
                             /\ posts' = [posts EXCEPT ![i] = SentAgain(posts[i])]
<1>1. posts \in Seq(SaveRequest) /\ posts[i] \in SaveRequest
  BY DEF PageTyped, PostsOK
<1>2. ASSUME Apply(i)
      PROVE  /\ posts[i].at = "sent"
             /\ \/ posts' = [posts EXCEPT ![i] = Applied(posts[i])]
                \/ posts' = [posts EXCEPT ![i] = Refused(posts[i])]
  <2>1. /\ posts[i].at = "sent"
        /\ \/ posts' = [posts EXCEPT ![i].at = "ok", ![i].done = @ + 1]
           \/ posts' = [posts EXCEPT ![i].at = "refused"]
    BY <1>2 DEF Apply
  <2> QED
    BY <1>1, <2>1 DEF Applied, Refused
<1>3. ASSUME NextPart(i)
      PROVE  /\ posts[i].at = "ok" /\ posts[i].done < editor.parts
             /\ posts' = [posts EXCEPT ![i] = SentAgain(posts[i])]
  BY <1>1, <1>3 DEF NextPart, SentAgain
<1> QED
  BY <1>2, <1>3

LEMMA ProgressOK ==
    ASSUME NEW p \in SaveRequest, editor.parts \in {1, 2}
    PROVE  /\ p.done < editor.parts => Applied(p) \in SaveRequest
           /\ Refused(p) \in SaveRequest /\ SentAgain(p) \in SaveRequest
           /\ Applied(p) = [p EXCEPT !.at = "ok", !.done = p.done + 1]
           /\ Applied(p).at = "ok" /\ Applied(p).done = p.done + 1
           /\ Refused(p).at = "refused" /\ Refused(p).done = p.done
           /\ SentAgain(p).at = "sent" /\ SentAgain(p).done = p.done
           /\ \A q \in {Applied(p), Refused(p), SentAgain(p)} :
                 /\ q.to = p.to /\ q.of = p.of /\ q.val = p.val /\ q.sends = p.sends
                 /\ q.typed = p.typed /\ q.before = p.before /\ q.key = p.key
<1>1. p.done \in 0..2 /\ editor.parts \in {1, 2}
  BY DEF SaveRequest
<1>2. p.done < editor.parts => p.done + 1 \in 0..2
  BY <1>1
<1> QED
  BY <1>2 DEF SaveRequest, Applied, Refused, SentAgain

\* The save of a form, and of a click.
LEMMA SavePosts ==
    ASSUME PageTyped, Save
    PROVE  /\ form # Nothing /\ rows # Nothing /\ form \in Form /\ editor \in Editors /\ form.of \in Key
           /\ posts' = Append(posts, NewPost(form.of, form.val, Sends, form.typed))
           /\ NewPost(form.of, form.val, Sends, form.typed) \in SaveRequest
           /\ NewPost(form.of, form.val, Sends, form.typed).at = "sent"
           /\ NewPost(form.of, form.val, Sends, form.typed).done = 0
<1>1. form # Nothing /\ rows # Nothing
      /\ posts' = Append(posts, NewPost(form.of, form.val, Sends, form.typed))
  BY DEF Save
<1>2. editor \in Editors /\ ChosenOK /\ ShownOK
  BY Traits DEF PageTyped
<1>3. form \in Form /\ form.of \in Key /\ form.val \in Item /\ form.typed \in SUBSET Field
  BY <1>1, <1>2, FormParts DEF ShownOK
<1>4. Sends \in SUBSET Field
  BY <1>3 DEF Sends, Blank
<1> QED
  BY <1>1, <1>2, <1>3, <1>4, NewSaveOK

ClickedOn(f) == NewPost(rows.of, [rows.val EXCEPT ![f] = 1 - @], {f}, {f})

LEMMA ClickPosts ==
    ASSUME PageTyped, NEW f \in Field, Click(f)
    PROVE  /\ rows \in Row /\ editor \in Editors /\ rows # Nothing /\ editor.starts = "click"
           /\ posts' = Append(posts, ClickedOn(f))
           /\ ClickedOn(f) \in SaveRequest
           /\ ClickedOn(f).at = "sent" /\ ClickedOn(f).done = 0
<1>1. rows # Nothing /\ posts' = Append(posts, ClickedOn(f)) /\ editor.starts = "click"
  BY DEF Click, ClickedOn
<1>2. editor \in Editors /\ ChosenOK /\ ShownOK
  BY Traits DEF PageTyped
<1>3. rows \in Row /\ rows.of \in Key /\ rows.val \in Item
  BY <1>1, <1>2, RowParts DEF ShownOK
<1>4. [rows.val EXCEPT ![f] = 1 - @] \in Item
  BY <1>3, Flipped
<1> QED
  BY <1>1, <1>2, <1>3, <1>4, NewSaveOK DEF ClickedOn

AllOfRow == NewPost(rows.of, rows.val, Field, {})

LEMMA ConfirmPosts ==
    ASSUME PageTyped, ConfirmAll
    PROVE  /\ rows \in Row /\ editor \in Editors /\ rows # Nothing /\ editor.then = "guessed"
           /\ posts' = Append(posts, AllOfRow)
           /\ AllOfRow \in SaveRequest
           /\ AllOfRow.at = "sent" /\ AllOfRow.done = 0
<1>1. rows # Nothing /\ posts' = Append(posts, AllOfRow) /\ editor.then = "guessed"
  BY DEF ConfirmAll, AllOfRow
<1>2. editor \in Editors /\ ChosenOK /\ ShownOK
  BY Traits DEF PageTyped
<1>3. rows \in Row /\ rows.of \in Key /\ rows.val \in Item
  BY <1>1, <1>2, RowParts DEF ShownOK
<1> QED
  BY <1>1, <1>2, <1>3, NewSaveOK DEF AllOfRow

LEMMA PostsStay ==
    ASSUME PageTyped, [PageNext]_pageVars
    PROVE  PostsOK'
<1>0. screen' = screen /\ view' = view /\ editor' = editor
  BY TraitsStay
<1>t. editor \in Editors /\ PostsOK /\ posts \in Seq(SaveRequest) /\ editor.parts \in {1, 2}
  BY Traits DEF PageTyped, PostsOK, Editors
<1>1. ASSUME Save PROVE PostsOK'
  <2>1. MayPost
    BY <1>1 DEF Save
  <2> QED
    BY <1>0, <1>1, <1>t, <2>1, SavePosts, PostsGrow
<1>2. ASSUME NEW f \in Field, Click(f) PROVE PostsOK'
  <2>1. MayPost
    BY <1>2 DEF Click
  <2> QED
    BY <1>0, <1>2, <1>t, <2>1, ClickPosts, PostsGrow
<1>6. ASSUME ConfirmAll PROVE PostsOK'
  <2>1. MayPost
    BY <1>6 DEF ConfirmAll
  <2> QED
    BY <1>0, <1>6, <1>t, <2>1, ConfirmPosts, PostsGrow
<1>3. ASSUME NEW i \in DOMAIN posts, Apply(i) \/ NextPart(i) PROVE PostsOK'
  <2>1. posts[i] \in SaveRequest
    BY <1>t
  <2>2. posts[i].done \in 0..2
    BY <2>1, SaveParts
  <2>3. /\ posts[i].at \in {"sent", "refused"} => posts[i].done < editor.parts
        /\ posts[i].at = "ok" => posts[i].done \in 1..editor.parts
    BY <1>t DEF PostsOK, Stages
  <2>4. CASE Apply(i) /\ posts' = [posts EXCEPT ![i] = Applied(posts[i])]
    <3>1. posts[i].at = "sent"
      BY <2>4, Progress
    <3>2. posts[i].done < editor.parts /\ posts[i].done + 1 \in 1..editor.parts
      BY <1>t, <2>2, <2>3, <3>1
    <3>3. /\ Applied(posts[i]) \in SaveRequest /\ Applied(posts[i]).at = "ok"
          /\ Applied(posts[i]).done = posts[i].done + 1
      BY <1>t, <2>1, <3>2, ProgressOK
    <3> QED
      BY <1>0, <1>t, <2>4, <3>2, <3>3, PostsChange
  <2>5. CASE Apply(i) /\ posts' = [posts EXCEPT ![i] = Refused(posts[i])]
    <3>1. posts[i].at = "sent"
      BY <2>5, Progress
    <3>2. /\ Refused(posts[i]) \in SaveRequest /\ Refused(posts[i]).at = "refused"
          /\ Refused(posts[i]).done < editor.parts
      BY <1>t, <2>1, <2>2, <2>3, <3>1, ProgressOK
    <3> QED
      BY <1>0, <1>t, <2>5, <3>2, PostsChange
  <2>6. CASE NextPart(i)
    <3>1. /\ SentAgain(posts[i]) \in SaveRequest /\ SentAgain(posts[i]).at = "sent"
          /\ SentAgain(posts[i]).done < editor.parts
          /\ posts' = [posts EXCEPT ![i] = SentAgain(posts[i])]
      BY <1>t, <2>1, <2>6, Progress, ProgressOK
    <3> QED
      BY <1>0, <1>t, <3>1, PostsChange
  <2> QED
    BY <1>3, <2>4, <2>5, <2>6, Progress
<1>4. ASSUME NEW i \in DOMAIN posts, Saved(i) PROVE PostsOK'
  <2>1. posts' = Without(posts, i)
    BY <1>4 DEF Saved
  <2>2. /\ posts' \in Seq(SaveRequest) /\ Len(posts') = Len(posts) - 1
        /\ \A j \in DOMAIN posts' : \E k \in DOMAIN posts : posts'[j] = posts[k]
    BY <1>t, <2>1, WithoutOne
  <2>3. Stages'
    BY <1>0, <1>t, <2>2 DEF PostsOK, Stages
  <2>4. Len(posts') <= MaxPosts /\ (editor.once => Len(posts') <= 1)
    BY <1>t, <2>2, PagesAssumption DEF PostsOK
  <2> QED
    BY <1>0, <2>2, <2>3, <2>4 DEF PostsOK
<1>5. ASSUME UNCHANGED posts PROVE PostsOK'
  BY <1>0, <1>5, <1>t DEF PostsOK, Stages
<1> QED
  BY <1>1, <1>2, <1>3, <1>4, <1>5, <1>6
     DEF PageNext, pageVars, Restore, ChangeSelection, TimerFires, Poll, Read, Arrive, Open,
         Abandon, Mount, ChooseBranch, Type

\* Types of the server's items and of the messages.
LEMMA ServedStays ==
    ASSUME PageTyped, [PageNext]_pageVars
    PROVE  ServedOK'
<1>1. ASSUME NEW i \in DOMAIN posts, Apply(i) PROVE ServedOK'
  <2>1. posts[i] \in SaveRequest
    BY DEF PageTyped, PostsOK
  <2> DEFINE p == posts[i]
             stored == [f \in Field |-> IF f \in p.sends THEN p.val[f] ELSE db[p.to][f]]
  <2>2. db \in [Key -> Item] /\ crossed \in BOOLEAN /\ reverted \in BOOLEAN
    BY DEF PageTyped, ServedOK
  <2>3. stored \in Item
    BY <2>1, <2>2, SaveParts DEF Item
  <2>4. \/ UNCHANGED served
        \/ /\ db' = [db EXCEPT ![p.to] = stored]
           /\ crossed' = (crossed \/ p.of # p.to)
           /\ reverted' = (reverted \/ \E f \in Field \ p.typed : stored[f] # db[p.to][f])
    BY <1>1 DEF Apply
  <2> HIDE DEF stored
  <2>5. UNCHANGED served => ServedOK'
    BY <2>2 DEF served, ServedOK
  <2> QED
    BY <2>2, <2>3, <2>4, <2>5 DEF ServedOK
<1>2. ASSUME UNCHANGED served PROVE ServedOK'
  BY <1>2 DEF served, PageTyped, ServedOK
<1> QED
  BY <1>1, <1>2
     DEF PageNext, pageVars, Restore, ChangeSelection, TimerFires, Poll, Read, Arrive, Open,
         Abandon, Mount, ChooseBranch, Type, Save, Click, ConfirmAll, NextPart, Saved

LEMMA ToldStays ==
    ASSUME PageTyped, [PageNext]_pageVars
    PROVE  ToldOK'
<1>0. screen' = screen /\ view' = view /\ editor' = editor
  BY TraitsStay
<1>1. ASSUME NEW i \in DOMAIN posts, Saved(i) PROVE ToldOK'
  <2>1. posts[i] \in SaveRequest /\ posts[i].done \in 0..2
    BY SaveParts DEF PageTyped, PostsOK
  <2>2. /\ posts[i].at \in {"sent", "refused"} => posts[i].done < editor.parts
        /\ posts[i].at = "ok" => posts[i].done \in 1..editor.parts
    BY DEF PageTyped, PostsOK, Stages
  <2>3. editor \in Editors /\ editor.parts \in {1, 2} /\ editor.partial \subseteq Told
    BY Traits DEF PageTyped, Editors
  <2>4. posts[i].done \in 0..editor.parts
    BY <1>1, <2>1, <2>2, <2>3 DEF Saved
  <2>5. Verdict(posts[i]) \subseteq Told
    BY <2>3 DEF Verdict, Told
  <2>6. told' = Verdict(posts[i]) /\ done' = posts[i].done /\ UNCHANGED user
        /\ (strayed' = strayed \/ strayed' = (strayed \/ (editor.then = "appends" /\ rows # Nothing /\ rows.of # posts[i].of)))
    BY <1>1 DEF Saved
  <2> QED
    BY <1>0, <2>4, <2>5, <2>6 DEF PageTyped, ToldOK, user
<1>2. ASSUME UNCHANGED message,
             \/ UNCHANGED user
             \/ acts' \in 0..MaxActs /\ hasty' \in BOOLEAN
      PROVE  ToldOK'
  BY <1>0, <1>2 DEF PageTyped, ToldOK, message, user
<1>3. ASSUME Acts, UNCHANGED message,
             \/ hasty' = hasty
             \/ hasty' = (hasty \/ posts # <<>>)
             \/ hasty' = (hasty \/ ~Quiet \/ behind)
      PROVE  ToldOK'
  <2>1. acts' \in 0..MaxActs
    BY <1>3, ActBounds
  <2>2. hasty' \in BOOLEAN
    BY <1>3 DEF PageTyped, ToldOK
  <2> QED
    BY <1>2, <1>3, <2>1, <2>2
<1>4. ASSUME NEW k \in Key, ChangeSelection(k) PROVE ToldOK'
  BY <1>3, <1>4 DEF ChangeSelection
<1>5. ASSUME Open \/ Save \/ ConfirmAll \/ (\E k \in Key : ChooseBranch(k))
             \/ \E f \in Field : Type(f) \/ Click(f)
      PROVE  ToldOK'
  BY <1>3, <1>5 DEF Open, Save, ConfirmAll, ChooseBranch, Type, Click
<1> QED
  BY <1>1, <1>2, <1>4, <1>5
     DEF PageNext, pageVars, Restore, TimerFires, Poll, Read, Arrive, Abandon, Mount, Apply, NextPart

LEMMA InitTyped ==
    ASSUME PageInit
    PROVE  PageTyped
<1>1. /\ view \in Views /\ editor \in Editors /\ editor.parts \in {1, 2}
      /\ view.restores \in BOOLEAN /\ view.waits \in BOOLEAN
  BY ScreensAssumption DEF PageInit, view, editor, Views, Editors
<1>2. ChosenOK
  BY <1>1 DEF PageInit, ChosenOK
<1>3. ShownOK
  BY DEF PageInit, ShownOK
<1>4. AsksOK
  <2>1. PICK a \in Ask : a = [of |-> sel, at |-> "asked", last |-> TRUE]
    BY DEF PageInit, Ask
  <2>2. asks = <<>> \/ asks = <<a>>
    BY <2>1 DEF PageInit
  <2>3. <<a>> \in Seq(Ask) /\ Len(<<a>>) = 1
    OBVIOUS
  <2>4. CASE asks = <<>>
    BY <2>4, PagesAssumption DEF AsksOK
  <2>5. CASE asks = <<a>>
    BY <2>3, <2>5, PagesAssumption DEF AsksOK
  <2> QED
    BY <2>2, <2>4, <2>5
<1>5. PostsOK
  BY PagesAssumption DEF PageInit, PostsOK, Stages
<1>6. ServedOK
  <2>1. [f \in Field |-> 0] \in Item
    BY DEF Item
  <2> QED
    BY <2>1 DEF PageInit, ServedOK
<1>7. ToldOK
  <2>1. 0 \in 0..editor.parts /\ 0 \in 0..MaxActs
    BY <1>1, PagesAssumption
  <2> QED
    BY <2>1 DEF PageInit, ToldOK
<1> QED
  BY <1>2, <1>3, <1>4, <1>5, <1>6, <1>7 DEF PageTyped

\* All of them, always.
LEMMA PagesTyped == PageSpec => []PageTyped
<1>1. PageInit => PageTyped
  BY InitTyped
<1>2. PageTyped /\ [PageNext]_pageVars => PageTyped'
  BY ChosenStays, ShownStays, AsksStay, PostsStay, ServedStays, ToldStays DEF PageTyped
<1> QED
  BY <1>1, <1>2, PTL DEF PageSpec

\* No page is ever left with a form, a timer or a request that its traits have no
\* place for, for any pages, selections and numbers of requests under way.
THEOREM PagesTypeCorrect == PageSpec => []PageTypeOK
BY PagesTyped, TypedIsTypeOK, PTL

-----------------------------------------------------------------------------
(* What the pages of apps/web have in common *)

\* No dialog that saves in parts says just "saved" of a part that failed; what
\* names the selection is a new row, the page itself, or a page whose selection
\* stands; the page that polls has no form of what is shown, and shows nothing
\* ahead of an answer; only a click does, only a new row is added to what is shown; the dialog
\* that is kept names its own branch; a dialog opened on a row brings the list up
\* to date; only the account tab takes a later failure for that of all.
Coherent(v, e) ==
    /\ e.partial # {"saved"}
    /\ e.names = "selection" =>
        \/ e.starts \in {"blank", "none"}
        \/ e.starts = "answer" /\ ~v.drops
        \/ e.starts = "click" /\ ~v.follows /\ ~v.restores
        \/ e.starts = "cell" /\ ~v.clears
    /\ v.polls => e.starts \in {"blank", "cell", "click", "none"} /\ e.then # "guessed"
    /\ e.then = "guessed" => e.starts = "click"
    /\ e.then = "appends" => e.starts \in {"blank", "kept"}
    /\ e.starts = "kept" => e.names = "item" /\ e.then = "appends"
    /\ e.gone => e.starts = "renews" /\ e.then = "reloads"
    /\ e.starts \in {"open", "renews"} => e.then # "stays"
    /\ e.partial = {"failed"} => e.starts = "answer"

\* What Coherent asks of an editor alone, and of one with a view that only
\* loads.
Harmless(e) ==
    /\ e.partial # {"saved"}
    /\ e.names = "selection" => e.starts \in {"blank", "none"}
    /\ e.then = "guessed" => e.starts = "click"
    /\ e.then = "appends" => e.starts \in {"blank", "kept"}
    /\ e.starts = "kept" => e.names = "item" /\ e.then = "appends"
    /\ e.gone => e.starts = "renews" /\ e.then = "reloads"
    /\ e.starts \in {"open", "renews"} => e.then # "stays"
    /\ e.partial = {"failed"} => e.starts = "answer"

\* The pages of WebPages, one group after the other.
LEMMA OwnersArePlain ==
    /\ \A e \in {CourtForm, NewCourt, CourtImages, DeleteCourt, RuleForm, NewRule, DeleteRule,
                 CopyPricing, PauseOrCancelSchedule, NewSchedule, QuickBookCourt, ScheduleForm, CancelSchedule, BranchForm,
                 NewBranch, BranchLogo, BranchImages, SetDefaultBranch, DeleteBranch, StaffForm,
                 ResetPassword, DeactivateStaff, AddCustomer} : Harmless(e)
    /\ \A v \in {CourtsView, RulesView, SchedulesView, ScheduleView, BranchesView, StaffView,
                 CustomersView, DayCourtsView} : ~v.polls
BY DEF CourtForm, NewCourt, CourtImages, DeleteCourt, RuleForm, NewRule, DeleteRule,
       CopyPricing, PauseOrCancelSchedule, NewSchedule, QuickBookCourt, DayCourtsView, ScheduleForm, CancelSchedule, BranchForm,
       NewBranch, BranchLogo, BranchImages, SetDefaultBranch, DeleteBranch, StaffForm,
       ResetPassword, DeactivateStaff, AddCustomer, Edits, AddsTo, Clicks, Restless, InParts,
       CourtsView, RulesView, SchedulesView, ScheduleView, BranchesView, StaffView, CustomersView,
       Loads, Follows, FollowsBranch, Harmless

LEMMA SettingsArePlain ==
    /\ Coherent(SettingsView, VenueInfo) /\ Coherent(SettingsView, VenueLogo)
    /\ Coherent(HoursView, OperatingHours) /\ Coherent(NotificationsView, Notifications)
    /\ Coherent(AccountView, Account) /\ Coherent(ProfileView, Profile)
    /\ Coherent(DayOfBranchView, BookingOfBranch)
    /\ Coherent(DayOfDateView, QuickBookHour) /\ Coherent(DayOfDateView, BookingOfDate)
BY DEF SettingsView, HoursView, NotificationsView, AccountView, ProfileView, DayOfBranchView,
       DayOfDateView, VenueInfo, VenueLogo, OperatingHours, Notifications, Account, Profile,
       QuickBookHour, BookingOfBranch, BookingOfDate, Edits,
       AddsTo, Clicks, Restless, InParts, Loads, LoadsOrEmpties, Follows, FollowsBranch, Coherent

LEMMA OthersArePlain ==
    /\ \A e \in {CancelBooking, Approve, ResolveDispute, ReadOnly, Login, Register, RegisterOwner,
                 ForgotPassword, ResetByLink, SupportMessage, PartnerApplication} : Harmless(e)
    /\ \A v \in {HistoryView, ApprovalsView, DisputesView, CustomerSelector, CustomerView,
                 RevenueView, PageViewsView, DashboardView, StatsView, HomeView,
                 VenuesView, MapView, BlogView, ArticleView, VenueView, AvailabilityView,
                 WardsView, Loads} : ~v.polls
BY DEF CancelBooking, Approve, ResolveDispute, ReadOnly, Login, Register, RegisterOwner,
       ForgotPassword, ResetByLink, SupportMessage, PartnerApplication, Edits, AddsTo, Clicks,
       Restless, HistoryView, ApprovalsView, DisputesView, CustomerSelector, CustomerView,
       RevenueView, PageViewsView, DashboardView, StatsView, HomeView, VenuesView,
       MapView, BlogView, ArticleView, VenueView, AvailabilityView, WardsView, Loads,
       LoadsOrEmpties, Follows, FollowsBranch, Searches, Harmless

LEMMA HarmlessIsCoherent ==
    ASSUME NEW v, NEW e, ~v.polls, Harmless(e)
    PROVE  Coherent(v, e)
BY DEF Harmless, Coherent

\* The pages of apps/web are coherent.
LEMMA WebIsCoherent ==
    ASSUME Screens \subseteq AllScreens, NEW s \in Screens
    PROVE  Coherent(s.view, s.editor)
<1>1. CASE s \in OwnerScreens
  <2> DEFINE Days == Screen({DayOfBranchView}, {BookingOfBranch})
                       \cup Screen({DayOfDateView}, {QuickBookHour, BookingOfDate})
  <2>1. CASE s \in Days
    BY <2>1, SettingsArePlain DEF Screen
  <2>2. CASE s \notin Days
    <3>1. ~s.view.polls /\ Harmless(s.editor)
      BY <1>1, <2>2, OwnersArePlain DEF OwnerScreens, Screen
    <3> QED
      BY <3>1, HarmlessIsCoherent
  <2> QED
    BY <2>1, <2>2
<1>2. CASE s \in SettingsScreens
  BY <1>2, SettingsArePlain DEF SettingsScreens, Screen
<1>3. CASE s \in OtherScreens
  <2>1. ~s.view.polls /\ Harmless(s.editor)
    BY <1>3, OthersArePlain DEF OtherScreens, Screen
  <2> QED
    BY <2>1, HarmlessIsCoherent
<1> QED
  BY <1>1, <1>2, <1>3 DEF AllScreens

\* The page of a behaviour is one of them.
Usual == Coherent(view, editor)

LEMMA PagesAreUsual ==
    ASSUME Screens \subseteq AllScreens
    PROVE  PageSpec => []Usual
<1>1. PageTyped => Usual
  BY WebIsCoherent DEF PageTyped, ChosenOK, Usual, view, editor
<1> QED
  BY <1>1, PagesTyped, PTL

-----------------------------------------------------------------------------
(* Messages *)

\* Only the end of a save says anything.
LEMMA MessagesStayTrue ==
    ASSUME PageTyped, Usual, MessagesAreTrue, [PageNext]_pageVars
    PROVE  MessagesAreTrue'
<1>0. editor' = editor
  BY TraitsStay
<1>1. ASSUME NEW i \in DOMAIN posts, Saved(i) PROVE MessagesAreTrue'
  <2>1. posts[i].done \in 0..2 /\ editor.parts \in {1, 2}
    BY SaveParts, Traits DEF PageTyped, PostsOK, Editors
  <2>2. /\ posts[i].at = "refused" => posts[i].done < editor.parts
        /\ (posts[i].at = "ok" /\ posts[i].done = editor.parts) \/ posts[i].at = "refused"
    BY <1>1 DEF PageTyped, PostsOK, Stages, Saved
  <2>3. told' = Verdict(posts[i]) /\ done' = posts[i].done
    BY <1>1 DEF Saved
  <2>4. CASE posts[i].at = "ok"
    <3>1. told' = {"saved"} /\ done' = editor.parts
      BY <2>2, <2>3, <2>4 DEF Verdict
    <3> QED
      BY <1>0, <3>1 DEF MessagesAreTrue
  <2>5. CASE posts[i].at = "refused" /\ posts[i].done = 0
    <3>1. told' = {"failed"} /\ done' = 0
      BY <2>3, <2>5 DEF Verdict
    <3> QED
      BY <1>0, <3>1 DEF MessagesAreTrue
  <2>6. CASE posts[i].at = "refused" /\ posts[i].done # 0
    <3>1. told' = editor.partial
      BY <2>3, <2>6 DEF Verdict
    <3>2. done' \in 1..(editor.parts - 1)
      BY <2>1, <2>2, <2>3, <2>6
    <3> QED
      BY <1>0, <3>1, <3>2 DEF MessagesAreTrue, Usual, Coherent
  <2> QED
    BY <2>2, <2>4, <2>5, <2>6
<1>2. ASSUME UNCHANGED message PROVE MessagesAreTrue'
  BY <1>0, <1>2 DEF message, MessagesAreTrue
<1> QED
  BY <1>1, <1>2
     DEF PageNext, pageVars, Restore, ChangeSelection, TimerFires, Poll, Read, Arrive, Open,
         Abandon, Mount, ChooseBranch, Type, Save, Click, ConfirmAll, Apply, NextPart

\* The property MessagesAreTrue: every page of apps/web, however its requests are
\* answered, says of a save that it is saved, partly saved or failed as it is.
THEOREM MessagesAlwaysTrue ==
    ASSUME Screens \subseteq AllScreens
    PROVE  PageSpec => []MessagesAreTrue
<1>1. PageInit => MessagesAreTrue
  BY DEF PageInit, MessagesAreTrue
<1>2. PageTyped /\ Usual /\ MessagesAreTrue /\ [PageNext]_pageVars => MessagesAreTrue'
  BY MessagesStayTrue
<1> QED
  BY <1>1, <1>2, PagesTyped, PagesAreUsual, PTL DEF PageSpec

-----------------------------------------------------------------------------
(* What is saved where *)

\* A form for a new row of the selection keeps the selection it was opened for:
\* it covers the page.
NewRowIsOfSelection ==
    editor.names = "selection" /\ editor.starts = "blank" /\ form # Nothing =>
        form.of = sel /\ form.open /\ restored

\* A page of clicks that names its selection has only one.
Fixed == editor.names = "selection" /\ editor.starts = "click"

SelectionStands ==
    Fixed =>
        /\ \A i \in DOMAIN asks : asks[i].of = sel
        /\ rows # Nothing => rows.of = sel
        /\ \A i \in DOMAIN posts : posts[i].before.of = sel /\ posts[i].key = sel

\* Save requests that name what they were read of.
NamesItsOwn ==
    \/ editor.names = "item"
    \/ editor.names = "selection" /\ editor.starts \notin {"answer", "cell"}

SavesAreOwn == NamesItsOwn => \A i \in DOMAIN posts : posts[i].of = posts[i].to

NoCrossing == NewRowIsOfSelection /\ SelectionStands /\ SavesAreOwn

\* A dialog that covers the page is closed before the selection changes.
LEMMA NewRowStays ==
    ASSUME PageTyped, NewRowIsOfSelection, [PageNext]_pageVars
    PROVE  NewRowIsOfSelection'
<1>0. view' = view /\ editor' = editor
  BY TraitsStay
<1> SUFFICES ASSUME editor.names = "selection", editor.starts = "blank", form' # Nothing
             PROVE  form'.of = sel' /\ form'.open /\ restored'
  BY <1>0 DEF NewRowIsOfSelection
<1>1. form # Nothing => form.of = sel /\ form.open /\ restored /\ form \in Form
  BY FormParts DEF NewRowIsOfSelection, PageTyped, ShownOK
<1>2. ASSUME NEW k \in Key, Restore(k) \/ ChangeSelection(k) PROVE FALSE
  <2>1. form' = form \/ form' = Nothing
    BY <1>2 DEF Restore, ChangeSelection, TakeSelection, FormLeft
  <2>2. form = Nothing
    BY <1>1, <1>2 DEF Restore, ChangeSelection, Covered
  <2> QED
    BY <2>1, <2>2
<1>3. ASSUME NEW i \in DOMAIN asks, Arrive(i) PROVE form' = form /\ UNCHANGED <<sel, restored>>
  <2>1. \A r : FormAfter(r) = form
    BY DEF FormAfter
  <2> QED
    BY <1>3, <2>1 DEF Arrive, shown, chosen, FormLeft
<1>4. ASSUME Open PROVE form'.of = sel' /\ form'.open /\ restored'
  <2>1. form = Nothing /\ form' = FormOpened(sel) /\ UNCHANGED <<sel, restored>> /\ restored
    BY <1>1, <1>4 DEF Open, chosen, Acts, Opens
  <2> QED
    BY <2>1 DEF FormOpened
<1>5. ASSUME NEW f \in Field, Type(f) PROVE form'.of = sel' /\ form'.open /\ restored'
  <2>1. /\ form # Nothing /\ UNCHANGED <<sel, restored>>
        /\ form' = [form EXCEPT !.val[f] = 1 - @, !.typed = @ \cup {f}]
    BY <1>5 DEF Type, chosen
  <2>2. form'.of = form.of /\ form'.open = form.open
    BY <1>1, <2>1 DEF Form
  <2> QED
    BY <1>1, <2>1, <2>2
<1>6. ASSUME Abandon PROVE FALSE
  BY <1>6 DEF Abandon, Closed, Mounted
<1>7. ASSUME NEW i \in DOMAIN posts, Saved(i) PROVE form' = form /\ UNCHANGED <<sel, restored>>
  <2>1. form' = form \/ form' = FormSaved(posts[i])
    BY <1>7 DEF Saved
  <2>2. FormSaved(posts[i]) = Nothing
    BY <1>1 DEF FormSaved, Closed, Mounted
  <2> QED
    BY <1>7, <2>1, <2>2 DEF Saved, chosen
<1>8. ASSUME UNCHANGED <<form, sel, restored>> PROVE form'.of = sel' /\ form'.open /\ restored'
  BY <1>1, <1>8
<1>9. ~Mount /\ ~\E k \in Key : ChooseBranch(k)
  BY DEF Mount, ChooseBranch
<1> QED
  BY <1>2, <1>3, <1>4, <1>5, <1>6, <1>7, <1>8, <1>9
     DEF PageNext, pageVars, shown, chosen, TimerFires, Poll, Read, Save, Click, ConfirmAll, Apply, NextPart

\* A request that goes out with others under way.
LEMMA AfterMore ==
    ASSUME asks \in Seq(Ask), NEW k \in Key, asks' = WithAsk(k), NEW i \in DOMAIN asks'
    PROVE  \/ i = Len(asks) + 1 /\ asks'[i] = [of |-> k, at |-> "asked", last |-> TRUE]
           \/ /\ i \in DOMAIN asks /\ asks'[i] = [asks[i] EXCEPT !.last = FALSE]
              /\ ~asks'[i].last /\ asks'[i].of = asks[i].of /\ asks'[i].at = asks[i].at
              /\ asks[i].at = "read" => asks'[i].val = asks[i].val
<1>1. /\ DOMAIN asks' = 1..(Len(asks) + 1)
      /\ asks'[Len(asks) + 1] = [of |-> k, at |-> "asked", last |-> TRUE]
      /\ \A j \in DOMAIN asks : asks'[j] = [asks[j] EXCEPT !.last = FALSE]
  BY WithOneMore
<1>2. i = Len(asks) + 1 \/ i \in DOMAIN asks
  BY <1>1
<1>3. CASE i \in DOMAIN asks
  <2>0. asks[i] \in Ask
    BY <1>3
  <2>1. asks[i] \in Ask /\ asks'[i] = [asks[i] EXCEPT !.last = FALSE]
    BY <1>1, <1>3, <2>0
  <2>2. PICK a \in Ask : a = asks[i]
    BY <2>1
  <2>3. /\ ~[a EXCEPT !.last = FALSE].last /\ [a EXCEPT !.last = FALSE].of = a.of
        /\ [a EXCEPT !.last = FALSE].at = a.at
        /\ a.at = "read" => [a EXCEPT !.last = FALSE].val = a.val
    BY DEF Ask
  <2> QED
    BY <1>3, <2>1, <2>2, <2>3
<1> QED
  BY <1>1, <1>2, <1>3

\* A request that is answered by the API, or fails.
LEMMA AfterRead ==
    ASSUME PageTyped, NEW i \in DOMAIN asks, Read(i)
    PROVE  /\ DOMAIN asks' = DOMAIN asks /\ Len(asks') = Len(asks)
           /\ \A j \in DOMAIN asks \ {i} : asks'[j] = asks[j]
           /\ asks'[i].of = asks[i].of /\ asks'[i].last = asks[i].last
           /\ asks'[i].at = "read" => asks'[i].val = db[asks[i].of]
<1>1. asks \in Seq(Ask) /\ asks[i] \in Ask
  BY DEF PageTyped, AsksOK
<1>2. PICK a : asks' = [asks EXCEPT ![i] = a] /\
        \/ a = [of |-> asks[i].of, at |-> "read", last |-> asks[i].last, val |-> db[asks[i].of]]
        \/ a = [asks[i] EXCEPT !.at = "failed"]
  BY DEF Read
<1>3. /\ a.of = asks[i].of /\ a.last = asks[i].last
      /\ a.at = "read" => a.val = db[asks[i].of]
  BY <1>1, <1>2 DEF Ask
<1>4. /\ DOMAIN asks' = DOMAIN asks /\ Len(asks') = Len(asks)
      /\ \A j \in DOMAIN asks \ {i} : asks'[j] = asks[j]
      /\ asks'[i] = a
  BY <1>1, <1>2
<1> QED
  BY <1>3, <1>4

\* What is under way after an answer has come, and after a save is over.
LEMMA AfterArrival ==
    ASSUME PageTyped, NEW i \in DOMAIN asks, Arrive(i), NEW j \in DOMAIN asks'
    PROVE  \E k \in DOMAIN asks \ {i} : asks'[j] = asks[k] /\ (k = Len(asks) => j = Len(asks'))
<1>1. asks' = Without(asks, i) /\ asks \in Seq(Ask)
  BY DEF Arrive, PageTyped, AsksOK
<1>2. Len(Without(asks, i)) = Len(asks) - 1
  BY <1>1, WithoutOne
<1>3. \A m \in DOMAIN Without(asks, i) : \E k \in DOMAIN asks \ {i} :
         Without(asks, i)[m] = asks[k] /\ (k = Len(asks) => m = Len(asks) - 1)
  BY <1>1, WithoutOne
<1> QED
  BY <1>1, <1>2, <1>3

\* A save under way after a step was under way before it, was clicked, or was
\* begun with the save button.
LEMMA PostMoves ==
    ASSUME PageTyped, [PageNext]_pageVars, NEW j \in DOMAIN posts'
    PROVE  \/ \E k \in DOMAIN posts :
                 posts'[j] \in {posts[k], Applied(posts[k]), Refused(posts[k]), SentAgain(posts[k])}
           \/ Save /\ posts'[j] = NewPost(form.of, form.val, Sends, form.typed)
           \/ \E f \in Field : Click(f) /\ posts'[j] = ClickedOn(f)
           \/ ConfirmAll /\ posts'[j] = AllOfRow
<1>t. posts \in Seq(SaveRequest)
  BY DEF PageTyped, PostsOK
<1>1. ASSUME NEW p \in SaveRequest, posts' = Append(posts, p)
      PROVE  (\E k \in DOMAIN posts : posts'[j] = posts[k]) \/ posts'[j] = p
  <2>1. /\ DOMAIN posts' = 1..(Len(posts) + 1) /\ posts'[Len(posts) + 1] = p
        /\ \A k \in DOMAIN posts : posts'[k] = posts[k]
    BY <1>t, <1>1, Appended
  <2>2. j \in DOMAIN posts \/ j = Len(posts) + 1
    BY <1>t, <2>1
  <2> QED
    BY <2>1, <2>2
<1>2. ASSUME NEW i \in DOMAIN posts, NEW p, posts' = [posts EXCEPT ![i] = p]
      PROVE  (\E k \in DOMAIN posts : posts'[j] = posts[k]) \/ posts'[j] = p
  BY <1>t, <1>2
<1>3. CASE Save
  BY <1>1, <1>3, SavePosts
<1>4. ASSUME NEW f \in Field, Click(f)
      PROVE  (\E k \in DOMAIN posts : posts'[j] = posts[k]) \/ posts'[j] = ClickedOn(f)
  BY <1>1, <1>4, ClickPosts
<1>8. CASE ConfirmAll
  BY <1>1, <1>8, ConfirmPosts
<1>5. ASSUME NEW i \in DOMAIN posts, Apply(i) \/ NextPart(i)
      PROVE  \E k \in DOMAIN posts :
                posts'[j] \in {posts[k], Applied(posts[k]), Refused(posts[k]), SentAgain(posts[k])}
  <2>1. PICK p \in {Applied(posts[i]), Refused(posts[i]), SentAgain(posts[i])} :
           posts' = [posts EXCEPT ![i] = p]
    BY <1>5, Progress
  <2>2. (\E k \in DOMAIN posts : posts'[j] = posts[k]) \/ posts'[j] = p
    BY <1>2, <2>1
  <2> QED
    BY <2>1, <2>2
<1>6. ASSUME NEW i \in DOMAIN posts, Saved(i) PROVE \E k \in DOMAIN posts : posts'[j] = posts[k]
  <2>1. posts' = Without(posts, i)
    BY <1>6 DEF Saved
  <2>2. \A m \in DOMAIN Without(posts, i) : \E k \in DOMAIN posts : Without(posts, i)[m] = posts[k]
    BY <1>t, WithoutOne
  <2> QED
    BY <2>1, <2>2
<1>7. ASSUME UNCHANGED posts PROVE \E k \in DOMAIN posts : posts'[j] = posts[k]
  BY <1>7
<1> QED
  BY <1>3, <1>4, <1>5, <1>6, <1>7, <1>8
     DEF PageNext, pageVars, Restore, ChangeSelection, TimerFires, Poll, Read, Arrive, Open,
         Abandon, Mount, ChooseBranch, Type

\* Those of before are the saves they were.
LEMMA SaveStays ==
    ASSUME PageTyped, NEW k \in DOMAIN posts,
           NEW q \in {posts[k], Applied(posts[k]), Refused(posts[k]), SentAgain(posts[k])}
    PROVE  /\ q.to = posts[k].to /\ q.of = posts[k].of /\ q.val = posts[k].val
           /\ q.sends = posts[k].sends /\ q.typed = posts[k].typed
           /\ q.before = posts[k].before /\ q.key = posts[k].key
<1>1. posts[k] \in SaveRequest /\ editor.parts \in {1, 2}
  BY Traits DEF PageTyped, PostsOK, Editors
<1>2. \A r \in {Applied(posts[k]), Refused(posts[k]), SentAgain(posts[k])} :
         /\ r.to = posts[k].to /\ r.of = posts[k].of /\ r.val = posts[k].val
         /\ r.sends = posts[k].sends /\ r.typed = posts[k].typed
         /\ r.before = posts[k].before /\ r.key = posts[k].key
  BY <1>1, ProgressOK
<1> QED
  BY <1>2

\* A page whose selection never changes has nothing of another.
LEMMA StandingSelectionStays ==
    ASSUME PageTyped, Usual, SelectionStands, [PageNext]_pageVars
    PROVE  SelectionStands'
<1>0. view' = view /\ editor' = editor
  BY TraitsStay
<1> SUFFICES ASSUME Fixed PROVE SelectionStands'
  BY <1>0 DEF SelectionStands, Fixed
<1>t. /\ asks \in Seq(Ask) /\ posts \in Seq(SaveRequest) /\ sel \in Key
      /\ rows \in Row \cup {Nothing} /\ form = Nothing /\ restored
      /\ ~view.follows /\ ~view.restores
  BY DEF PageTyped, AsksOK, PostsOK, ChosenOK, ShownOK, Fixed, Usual, Coherent
<1>s. sel' = sel
  BY <1>t DEF PageNext, pageVars, chosen, Restore, ChangeSelection, TimerFires, Poll, Read, Arrive,
         Open, Abandon, Mount, ChooseBranch, Type, Save, Click, ConfirmAll, Apply, NextPart, Saved
<1>1. /\ \A i \in DOMAIN asks : asks[i].of = sel /\ asks[i] \in Ask
      /\ rows # Nothing => rows.of = sel
      /\ \A i \in DOMAIN posts : posts[i].before.of = sel /\ posts[i].key = sel /\ posts[i] \in SaveRequest
  BY <1>t DEF SelectionStands
<1>2. \A i \in DOMAIN asks' : asks'[i].of = sel
  <2> SUFFICES ASSUME NEW j \in DOMAIN asks' PROVE asks'[j].of = sel
    OBVIOUS
  <2>1. ASSUME asks' = WithAsk(sel) PROVE asks'[j].of = sel
    BY <1>1, <1>t, <2>1, AfterMore
  <2>2. ASSUME NEW i \in DOMAIN asks, Read(i) PROVE asks'[j].of = sel
    BY <1>1, <2>2, AfterRead
  <2>3. ASSUME NEW i \in DOMAIN asks, Arrive(i) PROVE asks'[j].of = sel
    BY <1>1, <2>3, AfterArrival
  <2>4. ASSUME NEW i \in DOMAIN posts, Saved(i), asks' # asks PROVE asks' = WithAsk(sel)
    BY <1>1, <2>4 DEF Saved, Show
  <2>5. ASSUME NEW k \in Key, Restore(k) \/ ChangeSelection(k) PROVE FALSE
    BY <1>t, <2>5 DEF Restore, ChangeSelection
  <2>6. ASSUME TimerFires \/ Poll PROVE asks' = WithAsk(sel)
    BY <2>6 DEF TimerFires, Poll
  <2>7. ASSUME UNCHANGED asks PROVE asks'[j].of = sel
    BY <1>1, <2>7
  <2> QED
    BY <2>1, <2>2, <2>3, <2>4, <2>5, <2>6, <2>7
       DEF PageNext, pageVars, Open, Abandon, Mount, ChooseBranch, Type, Save, Click, ConfirmAll, Apply, NextPart
<1>3. rows' # Nothing => rows'.of = sel
  <2>1. ASSUME NEW i \in DOMAIN asks, Arrive(i) PROVE rows' \in {rows, Nothing} \/ rows'.of = asks[i].of
    BY <2>1 DEF Arrive, shown
  <2>2. ASSUME NEW i \in DOMAIN posts, Saved(i)
        PROVE  rows' \in {rows, RowsTaken(posts[i]), posts[i].before}
    BY <2>2 DEF Saved, Show
  <2>3. \A i \in DOMAIN posts : rows # Nothing => RowsTaken(posts[i]).of = sel
    BY <1>1, RowsTakenOK DEF PageTyped
  <2>4. \A i \in DOMAIN posts : rows = Nothing => RowsTaken(posts[i]) = Nothing
    BY DEF RowsTaken
  <2>5. ASSUME NEW f \in Field, Click(f) PROVE rows'.of = sel
    <3>1. rows \in Row /\ rows.of = sel
      BY <1>1, <2>5, ClickPosts DEF PageTyped
    <3>2. \A v : [rows EXCEPT !.val = v].of = rows.of
      BY <3>1 DEF Row
    <3> QED
      BY <2>5, <3>1, <3>2 DEF Click
  <2>6. ASSUME NEW k \in Key, Restore(k) \/ ChangeSelection(k) PROVE FALSE
    BY <1>t, <2>6 DEF Restore, ChangeSelection
  <2>7. ASSUME rows' = rows PROVE rows' # Nothing => rows'.of = sel
    BY <1>1, <2>7
  <2> QED
    BY <1>1, <2>1, <2>2, <2>3, <2>4, <2>5, <2>6, <2>7
       DEF PageNext, pageVars, shown, TimerFires, Poll, Read, Open, Abandon, Mount, ChooseBranch, Type, Save,
           ConfirmAll, Apply, NextPart
<1>4. \A i \in DOMAIN posts' : posts'[i].before.of = sel /\ posts'[i].key = sel
  <2> SUFFICES ASSUME NEW j \in DOMAIN posts' PROVE posts'[j].before.of = sel /\ posts'[j].key = sel
    OBVIOUS
  <2>1. ~Save
    BY <1>t DEF Save
  <2>2. ASSUME NEW f \in Field, Click(f)
        PROVE  ClickedOn(f).before.of = sel /\ ClickedOn(f).key = sel
    BY <1>1, <2>2 DEF ClickedOn, NewPost, Click
  <2>3. ASSUME ConfirmAll PROVE AllOfRow.before.of = sel /\ AllOfRow.key = sel
    BY <1>1, <2>3 DEF AllOfRow, NewPost, ConfirmAll
  <2> QED
    BY <1>1, <2>1, <2>2, <2>3, PostMoves, SaveStays
<1> QED
  BY <1>s, <1>2, <1>3, <1>4 DEF SelectionStands

\* A save that names the selection was read of the selection.
LEMMA SavesStayOwn ==
    ASSUME PageTyped, Usual, NewRowIsOfSelection, SelectionStands, SavesAreOwn, [PageNext]_pageVars
    PROVE  SavesAreOwn'
<1>0. editor' = editor
  BY TraitsStay
<1> SUFFICES ASSUME NamesItsOwn, NEW j \in DOMAIN posts' PROVE posts'[j].of = posts'[j].to
  BY <1>0 DEF SavesAreOwn, NamesItsOwn
<1>1. \A k \in DOMAIN posts : posts[k].of = posts[k].to
  BY DEF SavesAreOwn
<1>2. ASSUME NEW of, NEW val, NEW sends, NEW typed, editor.names = "item" \/ of = sel
      PROVE  NewPost(of, val, sends, typed).of = NewPost(of, val, sends, typed).to
  BY <1>2 DEF NewPost, Target
<1>3. ASSUME Save, editor.names # "item" PROVE form.of = sel
  <2>1. /\ editor.names = "selection" /\ form # Nothing /\ form.open
        /\ editor.starts \notin {"answer", "cell"}
    BY <1>3 DEF Save, NamesItsOwn
  <2>2. editor.starts = "blank"
    BY <2>1 DEF Usual, Coherent, PageTyped, ShownOK
  <2> QED
    BY <2>1, <2>2 DEF NewRowIsOfSelection
<1>4. ASSUME NEW f \in Field, Click(f), editor.names # "item" PROVE rows.of = sel
  BY <1>4 DEF Click, NamesItsOwn, SelectionStands, Fixed
<1>5. CASE \E k \in DOMAIN posts :
             posts'[j] \in {posts[k], Applied(posts[k]), Refused(posts[k]), SentAgain(posts[k])}
  BY <1>1, <1>5, SaveStays
<1>6. CASE Save /\ posts'[j] = NewPost(form.of, form.val, Sends, form.typed)
  BY <1>2, <1>3, <1>6
<1>7. ASSUME NEW f \in Field, Click(f), posts'[j] = ClickedOn(f) PROVE posts'[j].of = posts'[j].to
  BY <1>2, <1>4, <1>7 DEF ClickedOn
<1>8. ASSUME ConfirmAll, posts'[j] = AllOfRow PROVE posts'[j].of = posts'[j].to
  <2>1. editor.names # "item" => rows.of = sel
    BY <1>8 DEF ConfirmAll, Usual, Coherent, NamesItsOwn, SelectionStands, Fixed
  <2> QED
    BY <1>2, <1>8, <2>1 DEF AllOfRow
<1> QED
  BY <1>5, <1>6, <1>7, <1>8, PostMoves

LEMMA PagesNameTheirOwn ==
    ASSUME Screens \subseteq AllScreens
    PROVE  PageSpec => []NoCrossing
<1>1. PageInit => NoCrossing
  <2> SUFFICES ASSUME PageInit PROVE NoCrossing
    OBVIOUS
  <2>1. form = Nothing /\ rows = Nothing /\ posts = <<>>
    BY DEF PageInit
  <2>2. \A i \in DOMAIN asks : asks[i].of = sel
    BY DEF PageInit
  <2> QED
    BY <2>1, <2>2 DEF NoCrossing, NewRowIsOfSelection, SelectionStands, SavesAreOwn
<1>2. PageTyped /\ Usual /\ NoCrossing /\ [PageNext]_pageVars => NoCrossing'
  BY NewRowStays, StandingSelectionStays, SavesStayOwn DEF NoCrossing
<1> QED
  BY <1>1, <1>2, PagesTyped, PagesAreUsual, PTL DEF PageSpec

-----------------------------------------------------------------------------
(* What is shown, and what is saved of it *)

\* A dialog that is there is open; the form of a row that is mounted with it is
\* of that row.
Dialogs == {"open", "renews", "blank", "cell"}

FormsFit ==
    /\ editor.starts \in Dialogs /\ form # Nothing => form.open
    /\ editor.starts = "mount" => (form = Nothing <=> rows = Nothing)
    /\ editor.starts = "mount" /\ form # Nothing => form.of = rows.of

\* The page has all it asked for, or at least the answer to its last request.
Settled == asks = <<>> /\ ~timer /\ restored /\ ~behind
Rest == ~timer /\ (\A i \in DOMAIN asks : ~asks[i].last) /\ ~behind

\* The user of a page that does not poll has waited for it, and it shows nothing
\* that was added elsewhere.
Patient == ~hasty /\ ~view.polls /\ ~strayed

\* Only what is added can stray.
Astray == strayed => editor.then = "appends"

\* The last request is of the selection, and no answer under way is out of date.
Newest ==
    /\ \A i \in DOMAIN asks : asks[i].last => i = Len(asks)
    /\ Patient /\ ~timer => \A i \in DOMAIN asks : asks[i].last => asks[i].of = sel
    /\ Patient => \A i \in DOMAIN asks : asks[i].at = "read" => asks[i].val = db[asks[i].of]

\* The list hears of the saves.
Kept == editor.then # "stays" /\ editor.starts # "answer"

RowsTrue ==
    Patient /\ Rest /\ rows # Nothing =>
        /\ rows.of = sel
        /\ Kept /\ posts = <<>> => rows.val = db[sel]

\* The forms that start with values of the server's, and what they are sent as.
Readers == {"open", "renews", "answer"}

FormTrue ==
    Patient /\ form # Nothing =>
        /\ editor.starts \in Dialogs => Settled /\ form.of = sel
        /\ editor.starts \in Readers /\ Rest =>
            form.of = sel /\ \A f \in Field \ form.typed : form.val[f] = db[sel][f]

\* The save under way: what it changes is what the row showed before it, and what
\* is shown ahead of the answer is what the server will hold.
SaveTrue(p) ==
    /\ p.key = sel /\ p.before.of = sel /\ p.of = p.to
    /\ editor.starts # "kept" => p.to = sel
    /\ Kept =>
        /\ p.to = sel /\ p.done = 0 => db[sel] = p.before.val
        /\ p.to = sel /\ p.done > 0 =>
              \A f \in Field : db[sel][f] = IF f \in p.sends THEN p.val[f] ELSE p.before.val[f]
        /\ p.to # sel => db[sel] = p.before.val
        /\ editor.then # "guessed" => rows = p.before
        /\ editor.then = "guessed" =>
            /\ rows.val = p.val
            /\ \A f \in Field \ p.sends : p.val[f] = p.before.val[f]
            /\ p.sends = Field => p.val = p.before.val
    /\ editor.starts \in Readers =>
        /\ p.sends = Field
        /\ \A f \in Field \ p.typed : p.val[f] = db[sel][f]
        /\ p.done > 0 => db[sel] = p.val
        /\ form # Nothing => p.typed \subseteq form.typed

SavesTrue ==
    Patient /\ posts # <<>> =>
        /\ Settled /\ Len(posts) = 1 /\ rows # Nothing
        /\ SaveTrue(posts[1])

\* A click and a new row send what the user changed, and nothing else, but for the
\* button that sends all there is.
EditsOnly ==
    editor.starts \in {"blank", "cell", "click", "none"} =>
        \A i \in DOMAIN posts :
            \/ posts[i].sends \subseteq posts[i].typed
            \/ editor.then = "guessed" /\ posts[i].sends = Field

Truth == FormsFit /\ Newest /\ RowsTrue /\ FormTrue /\ SavesTrue /\ Astray

\* Patience is lost once.
LEMMA PatientBefore ==
    ASSUME PageTyped, [PageNext]_pageVars, Patient'
    PROVE  Patient
<1>1. view' = view
  BY TraitsStay
<1>2. hasty => hasty'
  BY DEF PageNext, pageVars, user, Restore, ChangeSelection, TimerFires, Poll, Read, Arrive, Open,
         Abandon, Mount, ChooseBranch, Save, Type, Click, ConfirmAll, Apply, NextPart, Saved
<1>3. strayed => strayed'
  BY DEF PageNext, pageVars, message, Restore, ChangeSelection, TimerFires, Poll, Read, Arrive, Open,
         Abandon, Mount, ChooseBranch, Save, Type, Click, ConfirmAll, Apply, NextPart, Saved
<1> QED
  BY <1>1, <1>2, <1>3 DEF Patient

\* An act that counts as hasty on a page at work or behind, done by a user who
\* stays patient, is done on a page at rest.
LEMMA ActsAtRest ==
    ASSUME PageTyped, [PageNext]_pageVars, Patient', hasty' = (hasty \/ ~Quiet \/ behind)
    PROVE  Patient /\ Settled /\ Rest /\ posts = <<>>
<1>1. Patient
  BY PatientBefore
<1>2. Quiet /\ ~behind
  BY DEF Patient
<1> QED
  BY <1>1, <1>2 DEF Quiet, Settled, Rest

LEMMA SettledRests == Settled => Rest
BY DEF Settled, Rest

\* A page that has asked again, or is about to, is not at rest.
LEMMA AskedIsNoRest ==
    ASSUME PageTyped, NEW k \in Key, asks' = WithAsk(k)
    PROVE  ~Rest'
<1>1. asks \in Seq(Ask)
  BY DEF PageTyped, AsksOK
<1>2. /\ DOMAIN asks' = 1..(Len(asks) + 1)
      /\ asks'[Len(asks) + 1] = [of |-> k, at |-> "asked", last |-> TRUE]
  BY <1>1, WithOneMore
<1>3. Len(asks) + 1 \in DOMAIN asks' /\ asks'[Len(asks) + 1].last
  BY <1>1, <1>2
<1> QED
  BY <1>3 DEF Rest

LEMMA SelectedIsNoRest ==
    ASSUME PageTyped, NEW k \in Key, TakeSelection(k), timer \in BOOLEAN
    PROVE  ~Rest'
<1>1. timer' \/ asks' = WithAsk(k)
  BY DEF TakeSelection
<1> QED
  BY <1>1, AskedIsNoRest DEF Rest

\* Rest that an answer dropped or a request read has not disturbed.
LEMMA RestBefore ==
    ASSUME PageTyped, NEW i \in DOMAIN asks, Read(i) \/ (Arrive(i) /\ ~asks[i].last), Rest',
           UNCHANGED <<timer, behind>>
    PROVE  Rest
<1>1. CASE Read(i)
  BY <1>1, AfterRead DEF Rest
<1>2. CASE Arrive(i) /\ ~asks[i].last
  <2>1. asks' = Without(asks, i) /\ asks \in Seq(Ask)
    BY <1>2 DEF Arrive, PageTyped, AsksOK
  <2>2. \A k \in DOMAIN asks \ {i} : \E j \in DOMAIN Without(asks, i) : Without(asks, i)[j] = asks[k]
    BY <2>1, WithoutOne
  <2>3. \A k \in DOMAIN asks \ {i} : ~asks[k].last
    BY <2>1, <2>2 DEF Rest
  <2> QED
    BY <1>2, <2>3 DEF Rest
<1> QED
  BY <1>1, <1>2

\* The one save under way.
LEMMA OneSave ==
    ASSUME PageTyped, SavesTrue, Patient, NEW i \in DOMAIN posts
    PROVE  /\ i = 1 /\ Len(posts) = 1 /\ Settled /\ Rest /\ rows # Nothing
           /\ posts[i] \in SaveRequest /\ SaveTrue(posts[i])
<1>1. posts \in Seq(SaveRequest)
  BY DEF PageTyped, PostsOK
<1>2. posts # <<>>
  BY <1>1
<1>3. Settled /\ Len(posts) = 1 /\ rows # Nothing /\ SaveTrue(posts[1])
  BY <1>2 DEF SavesTrue
<1>4. i = 1
  BY <1>1, <1>3
<1> QED
  BY <1>1, <1>3, <1>4, SettledRests

\* While anything else is under way, none is.
LEMMA NoSave ==
    ASSUME SavesTrue, Patient, asks # <<>> \/ timer \/ ~restored
    PROVE  posts = <<>>
BY DEF SavesTrue, Settled

LEMMA NoDialog ==
    ASSUME FormTrue, Patient, asks # <<>> \/ timer \/ ~restored, editor.starts \in Dialogs
    PROVE  form = Nothing
BY DEF FormTrue, Settled

\* No step opens a dialog halfway, or leaves a mounted form to another row.
LEMMA FormsFitStays ==
    ASSUME PageTyped, Usual, FormsFit, [PageNext]_pageVars
    PROVE  FormsFit'
<1>0. view' = view /\ editor' = editor
  BY TraitsStay
<1>t. /\ rows \in Row \cup {Nothing} /\ form \in Form \cup {Nothing}
      /\ \A i \in DOMAIN posts : posts[i] \in SaveRequest
  BY DEF PageTyped, ShownOK, PostsOK
<1>1. ASSUME \/ rows' = rows /\ form' = form
             \/ rows' = Nothing /\ form' = FormLeft
      PROVE  FormsFit'
  BY <1>0, <1>1 DEF FormsFit, FormLeft, Dialogs
<1>2. ASSUME NEW i \in DOMAIN asks, Arrive(i) PROVE FormsFit'
  <2>1. CASE /\ asks[i].at = "read"
             /\ rows' = [of |-> asks[i].of, val |-> asks[i].val]
             /\ form' = FormAfter([of |-> asks[i].of, val |-> asks[i].val])
    <3>1. PICK r \in Row : r = [of |-> asks[i].of, val |-> asks[i].val]
      BY <2>1, AskParts DEF PageTyped, AsksOK
    <3>2. rows' = r /\ r # Nothing /\ form' = FormAfter(r)
      BY <2>1, <3>1, SomethingIsNotNothing
    <3>3. \A b : [of |-> r.of, val |-> r.val, typed |-> {}, open |-> b].of = r.of
                 /\ [of |-> r.of, val |-> r.val, typed |-> {}, open |-> b].open = b
      OBVIOUS
    <3>4. CASE editor.starts \in Dialogs
      <4>1. form' \in {form, Nothing} \/ form'.open = TRUE
        BY <3>2, <3>4 DEF FormAfter, Dialogs
      <4> QED
        BY <1>0, <3>4, <4>1 DEF FormsFit, Dialogs
    <3>5. CASE editor.starts = "mount"
      <4>1. form' # Nothing /\ form'.of = r.of
        <5>1. CASE form # Nothing /\ form.of = r.of
          BY <3>2, <3>5, <5>1 DEF FormAfter
        <5>2. CASE ~(form # Nothing /\ form.of = r.of)
          <6>1. form' = [of |-> r.of, val |-> r.val, typed |-> {}, open |-> FALSE]
            BY <3>2, <3>5, <5>2 DEF FormAfter
          <6>2. form' \in Form
            BY <6>1 DEF Form, Row
          <6> QED
            BY <6>1, <6>2, SomethingIsNotNothing
        <5> QED
          BY <5>1, <5>2
      <4> QED
        BY <1>0, <3>2, <3>5, <4>1 DEF FormsFit, Dialogs
    <3> QED
      BY <1>0, <3>4, <3>5 DEF FormsFit
  <2>2. CASE ~ (/\ asks[i].at = "read"
                /\ rows' = [of |-> asks[i].of, val |-> asks[i].val]
                /\ form' = FormAfter([of |-> asks[i].of, val |-> asks[i].val]))
    BY <1>1, <1>2, <2>2 DEF Arrive, shown
  <2> QED
    BY <2>1, <2>2
<1>3. ASSUME Open PROVE FormsFit'
  <2>1. rows' = rows /\ rows # Nothing
    BY <1>3 DEF Open
  <2>2. CASE form # Nothing /\ form' = [form EXCEPT !.open = TRUE, !.typed = {}]
    <3>1. form' \in Form /\ form'.open = TRUE /\ form'.of = form.of
      BY <1>t, <2>2 DEF Form
    <3> QED
      BY <1>0, <2>1, <2>2, <3>1, SomethingIsNotNothing DEF FormsFit
  <2>3. ASSUME NEW k \in Opens, editor.starts # "mount", form' = FormOpened(k) PROVE FormsFit'
    BY <1>0, <2>3 DEF FormsFit, FormOpened
  <2> QED
    BY <1>3, <2>2, <2>3 DEF Open, Mounted
<1>4. ASSUME NEW f \in Field, Type(f) PROVE FormsFit'
  <2>1. /\ rows' = rows /\ form # Nothing
        /\ form' = [form EXCEPT !.val[f] = 1 - @, !.typed = @ \cup {f}]
    BY <1>4 DEF Type
  <2>2. form' \in Form \cup {Nothing}
    BY ShownStays DEF PageTyped, ShownOK
  <2>3. form \in Form /\ form'.open = form.open /\ form'.of = form.of /\ DOMAIN form' = DOMAIN form
    BY <1>t, <2>1 DEF Form
  <2>4. form' # Nothing
    BY <2>2, <2>3 DEF Form, Nothing
  <2> QED
    BY <1>0, <2>1, <2>3, <2>4 DEF FormsFit
<1>5. ASSUME form # Nothing, form' = Closed, rows' = Nothing <=> rows = Nothing,
             rows # Nothing => rows'.of = rows.of
      PROVE  FormsFit'
  <2>1. CASE editor.starts = "mount"
    <3>1. form' = [form EXCEPT !.open = FALSE]
      BY <1>5, <2>1 DEF Closed, Mounted
    <3>2. form' \in Form /\ form'.of = form.of
      BY <1>5, <1>t, <3>1, FormParts DEF Form
    <3> QED
      BY <1>0, <1>5, <2>1, <3>2, SomethingIsNotNothing DEF FormsFit, Dialogs
  <2>2. CASE editor.starts # "mount"
    BY <1>0, <1>5, <2>2 DEF Closed, Mounted, FormsFit, Dialogs
  <2> QED
    BY <2>1, <2>2
<1>6. ASSUME Abandon PROVE FormsFit'
  BY <1>5, <1>6 DEF Abandon, Covered
<1>7. ASSUME NEW f \in Field, Click(f) PROVE FormsFit'
  BY <1>0, <1>7 DEF Click, FormsFit, Dialogs
<1>8. ASSUME NEW i \in DOMAIN posts, Saved(i) PROVE FormsFit'
  <2> SUFFICES ASSUME editor.starts \in Dialogs \cup {"mount"} PROVE FormsFit'
    BY <1>0 DEF FormsFit
  <2>1. editor.then # "guessed"
    BY DEF Usual, Coherent, Dialogs
  <2>2. /\ rows' \in {rows, RowsTaken(posts[i])}
        /\ form' \in {form, FormSaved(posts[i])}
    BY <1>8, <2>1 DEF Saved, Show
  <2>3. /\ rows' = Nothing <=> rows = Nothing
        /\ rows # Nothing => rows'.of = rows.of
    BY <1>t, <2>2, RowsTakenOK DEF PageTyped
  <2>4. form' = form \/ (form # Nothing /\ form' = Closed)
    BY <2>2 DEF FormSaved, Dialogs
  <2>5. CASE form' = form
    BY <1>0, <2>3, <2>5 DEF FormsFit
  <2> QED
    BY <1>5, <2>3, <2>4, <2>5
<1>9. ASSUME Mount \/ \E k \in Key : ChooseBranch(k) PROVE FormsFit'
  BY <1>0, <1>9 DEF Mount, ChooseBranch, FormsFit, Dialogs
<1> QED
  BY <1>1, <1>2, <1>3, <1>4, <1>6, <1>7, <1>8, <1>9
     DEF PageNext, pageVars, shown, Restore, ChangeSelection, TakeSelection, TimerFires, Poll, Read,
         Save, ConfirmAll, Apply, NextPart

\* A reload after a save asks of the selection it was clicked under: of a patient user,
\* the present one.  The server's items change only while no answer is under way.
LEMMA NewestStays ==
    ASSUME PageTyped, Newest, SavesTrue, [PageNext]_pageVars
    PROVE  Newest'
<1>0. view' = view /\ editor' = editor
  BY TraitsStay
<1>t. asks \in Seq(Ask) /\ sel \in Key /\ (Patient' => Patient) /\ Len(asks) \in Nat
  BY PatientBefore DEF PageTyped, AsksOK, ChosenOK
<1>1. ASSUME NEW k \in Key, asks' = WithAsk(k), Patient' /\ ~timer' => k = sel', db' = db
      PROVE  Newest'
  <2> SUFFICES ASSUME NEW i \in DOMAIN asks'
               PROVE  /\ asks'[i].last => i = Len(asks')
                      /\ Patient' /\ ~timer' /\ asks'[i].last => asks'[i].of = sel'
                      /\ Patient' /\ asks'[i].at = "read" => asks'[i].val = db'[asks'[i].of]
    BY DEF Newest
  <2>1. Len(asks') = Len(asks) + 1
    BY <1>1, <1>t, WithOneMore
  <2>2. CASE i = Len(asks) + 1 /\ asks'[i] = [of |-> k, at |-> "asked", last |-> TRUE]
    BY <1>1, <2>1, <2>2
  <2>3. CASE /\ i \in DOMAIN asks
             /\ ~asks'[i].last /\ asks'[i].of = asks[i].of /\ asks'[i].at = asks[i].at
             /\ asks[i].at = "read" => asks'[i].val = asks[i].val
    BY <1>1, <1>t, <2>3 DEF Newest
  <2> QED
    BY <1>1, <1>t, <2>2, <2>3, AfterMore
<1>2. ASSUME NEW k \in Key, TakeSelection(k), db' = db PROVE Newest'
  <2>1. CASE asks' = WithAsk(k)
    BY <1>1, <1>2, <2>1 DEF TakeSelection
  <2>2. CASE timer' /\ asks' = asks
    BY <1>2, <1>t, <2>2 DEF Newest
  <2> QED
    BY <1>2, <2>1, <2>2 DEF TakeSelection
<1>3. ASSUME UNCHANGED <<asks, sel, timer, db>> PROVE Newest'
  BY <1>3, <1>t DEF Newest
<1>4. ASSUME NEW k \in Key, Restore(k) \/ ChangeSelection(k) PROVE Newest'
  BY <1>2, <1>3, <1>4 DEF Restore, ChangeSelection, served
<1>5. ASSUME TimerFires \/ Poll PROVE Newest'
  BY <1>1, <1>5, <1>t DEF TimerFires, Poll, chosen, served
<1>6. ASSUME NEW i \in DOMAIN asks, Read(i) PROVE Newest'
  <2>1. UNCHANGED <<sel, timer, db>>
    BY <1>6 DEF Read, chosen, served
  <2>2. asks'[i].at = "read" => asks'[i].val = db[asks'[i].of]
    BY <1>6, AfterRead
  <2> QED
    BY <1>6, <1>t, <2>1, <2>2, AfterRead DEF Newest
<1>7. ASSUME NEW i \in DOMAIN asks, Arrive(i) PROVE Newest'
  <2>1. UNCHANGED <<sel, timer, db>>
    BY <1>7 DEF Arrive, chosen, served
  <2> QED
    BY <1>7, <1>t, <2>1, AfterArrival DEF Newest
<1>8. ASSUME NEW i \in DOMAIN posts, Saved(i) PROVE Newest'
  <2>1. UNCHANGED <<sel, timer, db>>
    BY <1>8 DEF Saved, chosen, served
  <2>2. asks' = asks \/ asks' = WithAsk(posts[i].key)
    BY <1>8 DEF Saved, Show
  <2>3. posts[i].key \in Key
    BY SaveParts DEF PageTyped, PostsOK
  <2>4. Patient => posts[i].key = sel
    BY OneSave DEF SaveTrue
  <2> QED
    BY <1>1, <1>3, <1>t, <2>1, <2>2, <2>3, <2>4
<1>9. ASSUME NEW i \in DOMAIN posts, Apply(i) PROVE Newest'
  <2>1. UNCHANGED <<asks, sel, timer>>
    BY <1>9 DEF Apply, chosen
  <2>2. Patient => asks = <<>>
    BY OneSave DEF Settled
  <2> QED
    BY <1>t, <2>1, <2>2 DEF Newest
<1> QED
  BY <1>3, <1>4, <1>5, <1>6, <1>7, <1>8, <1>9
     DEF PageNext, pageVars, shown, chosen, served, Open, Abandon, Mount, ChooseBranch, Save, Type, Click, ConfirmAll, NextPart

\* The outcome of a save that counts for nothing, although a part of it was
\* carried out, is that of a settings page.
LEMMA FailedVerdict ==
    ASSUME Usual, NEW p \in SaveRequest, Verdict(p) = {"failed"}
    PROVE  p.done = 0 \/ editor.starts = "answer"
<1>1. {"saved"} # {"failed"}
  OBVIOUS
<1>2. CASE p.at = "ok"
  BY <1>1, <1>2 DEF Verdict
<1>3. CASE p.at = "refused" /\ p.done # 0
  <2>1. Verdict(p) = editor.partial
    BY <1>3 DEF Verdict
  <2> QED
    BY <2>1 DEF Usual, Coherent
<1>4. CASE p.at = "sent"
  <2>1. Verdict(p) = editor.partial
    BY <1>4 DEF Verdict
  <2> QED
    BY <2>1 DEF Usual, Coherent
<1> QED
  BY <1>2, <1>3, <1>4, SaveParts

\* The rows after a save are those the server holds.
LEMMA RowsAfterSave ==
    ASSUME PageTyped, Usual, RowsTrue, SavesTrue, Patient, NEW i \in DOMAIN posts, Saved(i),
           editor.then # "reloads" \/ UNCHANGED asks, rows' # Nothing, ~strayed'
    PROVE  /\ rows'.of = sel
           /\ Kept => rows'.val = db[sel]
<1>1. /\ posts[i] \in SaveRequest /\ SaveTrue(posts[i]) /\ Rest /\ rows # Nothing
  BY OneSave
<1>2. PICK p \in SaveRequest : p = posts[i]
  BY <1>1
<1>3. /\ rows \in Row /\ rows.val \in Item /\ rows.of = sel /\ p.before \in Row /\ p.before.val \in Item
      /\ p.before.of = sel /\ p.of = p.to /\ p.done \in 0..2 /\ SaveTrue(p) /\ sel \in Key
      /\ db[sel] \in Item
  BY <1>1, <1>2, RowParts, SaveParts DEF RowsTrue, SaveTrue, PageTyped, ShownOK, ChosenOK, ServedOK, Row
<1>3a. Show(p) => editor.then # "reloads"
  <2>1. asks \in Seq(Ask) /\ p.key \in Key
    BY SaveParts DEF PageTyped, AsksOK
  <2>2. Len(WithAsk(p.key)) = Len(asks) + 1
    BY <2>1, WithOneMore
  <2>3. WithAsk(p.key) # asks
    BY <2>1, <2>2
  <2> QED
    BY <2>3 DEF Show
<1>4. CASE CarriedOut(p) /\ Show(p) /\ strayed' = (strayed \/ (editor.then = "appends" /\ rows # Nothing /\ rows.of # p.of))
  <2>0. p.done > 0 /\ (editor.then = "appends" => p.to = sel)
    BY <1>1, <1>3, <1>4 DEF CarriedOut
  <2>5. editor.then # "appends" => p.to = sel
    BY <1>3 DEF SaveTrue, Usual, Coherent
  <2>1. CASE editor.then \in {"patches", "appends"} /\ rows' = RowsTaken(p)
    <3>1. /\ rows'.of = sel /\ rows' \in Row
          /\ \A f \in Field : rows'.val[f] = IF f \in p.sends THEN p.val[f] ELSE rows.val[f]
      <4>1. p.of = sel
        BY <1>3, <2>0, <2>5
      <4> QED
        BY <1>1, <1>3, <2>1, <4>1, RowsTakenOK DEF PageTyped
    <3>2. ASSUME Kept PROVE rows'.val = db[sel]
      <4>1. \A f \in Field : rows'.val[f] = db[sel][f]
        BY <1>3, <2>0, <2>1, <2>5, <3>1, <3>2 DEF SaveTrue
      <4>2. rows'.val \in Item
        BY <3>1 DEF Row
      <4> QED
        BY <1>3, <4>1, <4>2, SameItem
    <3> QED
      BY <3>1, <3>2
  <2>2. CASE editor.then = "guessed" /\ rows' = rows
    <3>1. ASSUME Kept PROVE rows.val = db[sel]
      <4>1. rows.val = p.val /\ \A f \in Field : db[sel][f] = p.val[f]
        BY <1>3, <2>0, <2>2, <2>5, <3>1 DEF SaveTrue
      <4> QED
        BY <1>3, <4>1, SameItem
    <3> QED
      BY <1>3, <2>2, <3>1
  <2>3. CASE editor.then = "stays" /\ rows' = rows
    BY <1>3, <2>3 DEF Kept
  <2> QED
    BY <1>3a, <1>4, <2>1, <2>2, <2>3 DEF Show
<1>5. CASE ~CarriedOut(p) /\ rows' = IF editor.then = "guessed" /\ p.sends # Field THEN p.before ELSE rows
  <2>2. ASSUME Kept PROVE rows'.val = db[sel]
    <3>1. p.done = 0
      BY <1>3, <1>5, <2>2, FailedVerdict DEF Kept, CarriedOut
    <3>2. db[sel] = p.before.val
      BY <1>3, <2>2, <3>1 DEF SaveTrue
    <3>3. CASE editor.then = "guessed" /\ p.sends = Field
      BY <1>3, <1>5, <2>2, <3>2, <3>3 DEF SaveTrue
    <3>4. CASE editor.then # "guessed"
      BY <1>3, <1>5, <2>2, <3>2, <3>4 DEF SaveTrue
    <3> QED
      BY <1>5, <3>2, <3>3, <3>4
  <2> QED
    BY <1>3, <1>5, <2>2
<1>6. CASE p.done = 0 /\ editor.gone /\ Show(p)
  BY <1>3a, <1>6 DEF Usual, Coherent
<1> QED
  BY <1>2, <1>4, <1>5, <1>6 DEF Saved

\* An answer shown at rest is the last one's, and a save is shown as it was stored.
LEMMA RowsStayTrue ==
    ASSUME PageTyped, Usual, Newest, RowsTrue, SavesTrue, [PageNext]_pageVars
    PROVE  RowsTrue'
<1>0. view' = view /\ editor' = editor /\ (Kept' <=> Kept)
  BY TraitsStay DEF Kept
<1> SUFFICES ASSUME Patient', Rest', rows' # Nothing
             PROVE  rows'.of = sel' /\ (Kept /\ posts' = <<>> => rows'.val = db'[sel'])
  BY <1>0 DEF RowsTrue
<1>t. /\ Patient /\ sel \in Key /\ posts \in Seq(SaveRequest) /\ timer \in BOOLEAN /\ ~timer'
      /\ rows # Nothing => rows \in Row
  BY PatientBefore DEF PageTyped, ChosenOK, PostsOK, Rest, ShownOK
<1>1. ASSUME UNCHANGED <<rows, posts, sel, db>>, Rest
      PROVE  rows'.of = sel' /\ (Kept /\ posts' = <<>> => rows'.val = db'[sel'])
  BY <1>t, <1>1 DEF RowsTrue
<1>2. ASSUME NEW k \in Key, Restore(k) \/ ChangeSelection(k) PROVE Restore(k) /\ k = sel
  BY <1>2, <1>t, SelectedIsNoRest DEF Restore, ChangeSelection
<1>3. ASSUME Restore(sel) PROVE UNCHANGED <<rows, posts, sel, db>> /\ Rest
  BY <1>3 DEF Restore, served, Rest
<1>4. ~TimerFires /\ ~Poll
  BY <1>t, AskedIsNoRest DEF TimerFires, Poll
<1>5. ASSUME NEW i \in DOMAIN asks, Read(i) PROVE UNCHANGED <<rows, posts, sel, db>> /\ Rest
  BY <1>5, RestBefore DEF Read, served, shown, chosen
<1>6. ASSUME NEW i \in DOMAIN asks, Arrive(i)
      PROVE  rows'.of = sel' /\ (Kept /\ posts' = <<>> => rows'.val = db'[sel'])
  <2>1. UNCHANGED <<sel, db, posts, timer>>
    BY <1>6 DEF Arrive, chosen, served
  <2>2. CASE ~asks[i].last /\ UNCHANGED shown
    <3>1. Rest
      BY <1>6, <2>1, <2>2, RestBefore DEF shown
    <3> QED
      BY <1>1, <2>1, <2>2, <3>1 DEF shown
  <2>3. CASE asks[i].at = "read" /\ rows' = [of |-> asks[i].of, val |-> asks[i].val] /\ behind' = ~asks[i].last
    <3>1. asks[i].last
      BY <2>3 DEF Rest
    <3>2. asks[i].of = sel /\ asks[i].val = db[sel]
      BY <1>t, <2>1, <2>3, <3>1 DEF Newest
    <3> QED
      BY <2>1, <2>3, <3>2
  <2>4. CASE behind' = TRUE
    BY <2>4 DEF Rest
  <2> QED
    BY <1>6, <2>2, <2>3, <2>4 DEF Arrive, Drops
<1>7. ASSUME NEW p \in SaveRequest, posts' = Append(posts, p), rows'.of = rows.of, rows # Nothing,
             UNCHANGED <<asks, sel, timer, behind>>
      PROVE  rows'.of = sel' /\ posts' # <<>>
  <2>1. Rest
    BY <1>7 DEF Rest
  <2> QED
    BY <1>t, <1>7, <2>1 DEF RowsTrue
<1>8. ASSUME Save PROVE rows'.of = sel' /\ posts' # <<>>
  BY <1>7, <1>8, SavePosts DEF Save, shown, chosen
<1>9. ASSUME NEW f \in Field, Click(f) PROVE rows'.of = sel' /\ posts' # <<>>
  <2>1. rows'.of = rows.of
    BY <1>9, ClickPosts DEF Click, Row
  <2> QED
    BY <1>7, <1>9, <2>1, ClickPosts DEF Click, chosen
<1>13. ASSUME ConfirmAll PROVE rows'.of = sel' /\ posts' # <<>>
  BY <1>7, <1>13, ConfirmPosts DEF ConfirmAll, shown, chosen
<1>10. ASSUME NEW i \in DOMAIN posts, Apply(i) \/ NextPart(i) PROVE rows'.of = sel' /\ posts' # <<>>
  <2>1. UNCHANGED <<rows, sel, asks>> /\ Rest
    BY <1>10, <1>t, OneSave DEF Apply, NextPart, shown, chosen
  <2>2. DOMAIN posts' = DOMAIN posts
    BY <1>10, <1>t DEF Apply, NextPart
  <2>3. posts' # <<>>
    BY <2>2
  <2> QED
    BY <1>t, <2>1, <2>3 DEF RowsTrue
<1>11. ASSUME NEW i \in DOMAIN posts, Saved(i)
       PROVE  rows'.of = sel' /\ (Kept /\ posts' = <<>> => rows'.val = db'[sel'])
  <2>1. UNCHANGED <<sel, db>>
    BY <1>11 DEF Saved, chosen, served
  <2>2. editor.then # "reloads" \/ UNCHANGED asks
    <3>1. posts[i].key \in Key
      BY <1>t, SaveParts
    <3>2. asks' # WithAsk(posts[i].key)
      BY <3>1, AskedIsNoRest
    <3> QED
      BY <1>11, <3>2 DEF Saved, Show
  <2> QED
    BY <1>11, <1>t, <2>1, <2>2, RowsAfterSave DEF Patient
<1>12. ASSUME Open \/ Abandon \/ (\E f \in Field : Type(f)) \/ Mount \/ (\E k \in Key : ChooseBranch(k))
                \/ UNCHANGED pageVars
       PROVE  UNCHANGED <<rows, posts, sel, db>> /\ Rest
  <2>1. UNCHANGED <<rows, posts, sel, db, asks, timer, behind>>
    BY <1>12 DEF Open, Abandon, Mount, ChooseBranch, Type, pageVars, shown, chosen, served
  <2> QED
    BY <2>1 DEF Rest
<1> QED
  BY <1>1, <1>2, <1>3, <1>4, <1>5, <1>6, <1>8, <1>9, <1>10, <1>11, <1>12, <1>13 DEF PageNext

\* What the API carries out of the save of a form leaves alone what the user did
\* not change.
LEMMA AppliedToForm ==
    ASSUME PageTyped, [PageNext]_pageVars, SavesTrue, Patient, editor.starts \in Readers,
           NEW i \in DOMAIN posts, Apply(i)
    PROVE  /\ db' \in [Key -> Item]
           /\ \A f \in Field \ posts[i].typed : db'[sel][f] = db[sel][f]
           /\ posts'[i].done > 0 /\ posts'[i].at = "ok" => db'[sel] = posts[i].val
<1>1. posts[i] \in SaveRequest /\ SaveTrue(posts[i])
  BY OneSave
<1>2. PICK p \in SaveRequest : p = posts[i]
  BY <1>1
<1>3. /\ p.to = sel /\ p.sends = Field /\ p.val \in Item /\ p.done \in 0..2
      /\ \A f \in Field \ p.typed : p.val[f] = db[sel][f]
      /\ p.done > 0 => db[sel] = p.val
  BY <1>1, <1>2, SaveParts DEF SaveTrue, Readers
<1>4. db \in [Key -> Item] /\ sel \in Key /\ db' \in [Key -> Item] /\ posts \in Seq(SaveRequest)
  BY ServedStays DEF PageTyped, ServedOK, ChosenOK, PostsOK
<1> DEFINE stored == [f \in Field |-> IF f \in p.sends THEN p.val[f] ELSE db[p.to][f]]
<1>5. \/ db' = [db EXCEPT ![p.to] = stored]
      \/ db' = db /\ (p.done # 0 \/ posts' = [posts EXCEPT ![i].at = "refused"])
  BY <1>2 DEF Apply, served
<1>6. stored = p.val
  <2>1. \A f \in Field : stored[f] = p.val[f]
    BY <1>3
  <2>2. stored \in Item
    BY <1>3, <2>1 DEF Item
  <2> HIDE DEF stored
  <2> QED
    BY <1>3, <2>1, <2>2, SameItem
<1> HIDE DEF stored
<1>7. CASE db' = [db EXCEPT ![p.to] = stored]
  <2>1. db'[sel] = p.val
    BY <1>3, <1>4, <1>6, <1>7
  <2> QED
    BY <1>2, <1>3, <1>4, <2>1
<1>8. CASE db' = db /\ p.done # 0
  BY <1>2, <1>3, <1>4, <1>8
<1>9. CASE db' = db /\ posts' = [posts EXCEPT ![i].at = "refused"]
  <2>1. posts'[i].at = "refused"
    BY <1>4, <1>9, <1>1 DEF SaveRequest
  <2> QED
    BY <1>4, <1>9, <2>1
<1> QED
  BY <1>5, <1>7, <1>8, <1>9

\* A dialog of a patient user is opened at rest, and nothing moves under it but what
\* the user types and the API stores of their own save.
LEMMA DialogStays ==
    ASSUME PageTyped, Usual, FormsFit, RowsTrue, FormTrue, SavesTrue, [PageNext]_pageVars,
           Patient', editor.starts \in Dialogs, form' # Nothing
    PROVE  /\ Settled' /\ form'.of = sel'
           /\ editor.starts \in Readers => \A f \in Field \ form'.typed : form'.val[f] = db'[sel'][f]
<1>0. Patient /\ view' = view /\ editor' = editor
  BY PatientBefore, TraitsStay
<1>t. /\ form \in Form \cup {Nothing} /\ rows \in Row \cup {Nothing} /\ asks \in Seq(Ask)
      /\ form # Nothing => form.open /\ Settled /\ Rest /\ form.of = sel
      /\ form # Nothing /\ editor.starts \in Readers =>
            \A f \in Field \ form.typed : form.val[f] = db[sel][f]
  BY <1>0, SettledRests DEF PageTyped, AsksOK, ShownOK, FormsFit, FormTrue
<1>1. ASSUME NEW k \in Key, Restore(k) PROVE FALSE
  <2>1. form = Nothing
    BY <1>0, <1>1, NoDialog DEF Restore
  <2> QED
    BY <1>1, <2>1 DEF Restore, TakeSelection, FormLeft, Dialogs
<1>2. ASSUME NEW k \in Key, ChangeSelection(k) PROVE FALSE
  <2>1. form = Nothing
    BY <1>2, <1>t DEF ChangeSelection, Covered, Dialogs
  <2> QED
    BY <1>2, <2>1 DEF ChangeSelection, TakeSelection, FormLeft, Dialogs
<1>3. ~TimerFires
  BY <1>0, NoDialog DEF TimerFires, shown
<1>4. ~Poll
  BY <1>0 DEF Poll, Patient
<1>5. ASSUME NEW i \in DOMAIN asks, Read(i) \/ Arrive(i) PROVE FALSE
  <2>1. form = Nothing
    <3>1. asks # <<>>
      BY <1>t
    <3> QED
      BY <1>0, <3>1, NoDialog
  <2>2. \A r : FormAfter(r) = Nothing
    BY <2>1 DEF FormAfter, Dialogs
  <2> QED
    BY <1>5, <2>1, <2>2 DEF Read, Arrive, shown, FormLeft, Dialogs
<1>6. ASSUME Open
      PROVE  /\ Settled' /\ form'.of = sel'
             /\ editor.starts \in Readers => \A f \in Field \ form'.typed : form'.val[f] = db'[sel'][f]
  <2>1. Settled /\ Rest /\ posts = <<>>
    BY <1>6, ActsAtRest DEF Open
  <2>2. UNCHANGED <<sel, db, asks, timer, restored, behind>> /\ rows # Nothing
    BY <1>6 DEF Open, chosen, served
  <2>3. rows.of = sel /\ (Kept => rows.val = db[sel])
    BY <1>0, <2>1, <2>2 DEF RowsTrue
  <2>4. PICK k \in Opens : form' = FormOpened(k)
    BY <1>6, <1>t DEF Open
  <2>5. form'.of = sel /\ form'.val = rows.val
    BY <2>3, <2>4 DEF FormOpened, Opens
  <2>6. editor.starts \in Readers => Kept
    BY DEF Usual, Coherent, Readers, Dialogs, Kept
  <2> QED
    BY <2>1, <2>2, <2>3, <2>5, <2>6 DEF Settled
<1>7. ASSUME NEW f \in Field, Type(f)
      PROVE  /\ Settled' /\ form'.of = sel'
             /\ editor.starts \in Readers => \A g \in Field \ form'.typed : form'.val[g] = db'[sel'][g]
  <2>1. /\ UNCHANGED <<sel, db, asks, timer, restored, behind>> /\ form # Nothing
        /\ form' = [form EXCEPT !.val[f] = 1 - @, !.typed = @ \cup {f}]
    BY <1>7 DEF Type, chosen, served
  <2>2. form \in Form /\ form.val \in Item
    BY <1>t, <2>1, FormParts
  <2>3. form'.of = form.of /\ form'.typed = form.typed \cup {f} /\ form'.val = [form.val EXCEPT ![f] = 1 - @]
    BY <2>1, <2>2 DEF Form
  <2>4. \A g \in Field \ {f} : form'.val[g] = form.val[g]
    BY <2>2, <2>3, Flipped
  <2> QED
    BY <1>t, <2>1, <2>3, <2>4 DEF Settled
<1>8. ~Abandon
  BY DEF Abandon, Closed, Mounted, Dialogs
<1>13. ~Mount /\ ~\E k \in Key : ChooseBranch(k)
  BY DEF Mount, ChooseBranch, Dialogs
<1>9. ASSUME form' = form, form # Nothing, UNCHANGED <<sel, asks, timer, restored, behind>>,
             editor.starts \in Readers => \A f \in Field \ form.typed : db'[sel][f] = db[sel][f]
      PROVE  /\ Settled' /\ form'.of = sel'
             /\ editor.starts \in Readers => \A f \in Field \ form'.typed : form'.val[f] = db'[sel'][f]
  BY <1>9, <1>t DEF Settled
<1>10. ASSUME Save \/ (\E f \in Field : Click(f)) \/ ConfirmAll \/ (\E i \in DOMAIN posts : NextPart(i))
                \/ UNCHANGED pageVars
       PROVE  form' = form /\ UNCHANGED <<sel, asks, timer, restored, behind, db>>
  BY <1>10 DEF Save, Click, ConfirmAll, NextPart, pageVars, shown, chosen, served
<1>11. ASSUME NEW i \in DOMAIN posts, Apply(i)
       PROVE  /\ form' = form /\ UNCHANGED <<sel, asks, timer, restored, behind>>
              /\ form # Nothing /\ editor.starts \in Readers =>
                    \A f \in Field \ form.typed : db'[sel][f] = db[sel][f]
  <2>1. form' = form /\ UNCHANGED <<sel, asks, timer, restored, behind>>
    BY <1>11 DEF Apply, shown, chosen
  <2>2. SaveTrue(posts[i])
    BY <1>0, OneSave
  <2>3. form # Nothing /\ editor.starts \in Readers => posts[i].typed \subseteq form.typed
    BY <2>2 DEF SaveTrue
  <2> QED
    BY <1>0, <1>11, <2>1, <2>3, AppliedToForm
<1>12. ASSUME NEW i \in DOMAIN posts, Saved(i)
       PROVE  form' = form /\ UNCHANGED <<sel, asks, timer, restored, behind, db>>
  <2>1. FormSaved(posts[i]) = Nothing
    BY <1>t DEF FormSaved, Closed, Mounted, Dialogs
  <2> QED
    BY <1>12, <2>1 DEF Saved, chosen, served
<1> QED
  BY <1>1, <1>2, <1>3, <1>4, <1>5, <1>6, <1>7, <1>8, <1>9, <1>10, <1>11, <1>12, <1>13 DEF PageNext

\* The form that is the page itself follows the answers, and what it sent is no longer
\* unsaved once it is stored.
LEMMA PageFormStays ==
    ASSUME PageTyped, Usual, Newest, FormTrue, SavesTrue, [PageNext]_pageVars,
           Patient', Rest', editor.starts = "answer", form' # Nothing
    PROVE  form'.of = sel' /\ \A f \in Field \ form'.typed : form'.val[f] = db'[sel'][f]
<1>0. Patient /\ view' = view /\ editor' = editor
  BY PatientBefore, TraitsStay
<1>t. /\ form \in Form \cup {Nothing} /\ sel \in Key /\ timer \in BOOLEAN /\ ~timer'
      /\ form # Nothing /\ Rest => form.of = sel /\ \A f \in Field \ form.typed : form.val[f] = db[sel][f]
  BY <1>0 DEF PageTyped, ChosenOK, ShownOK, FormTrue, Readers, Rest
<1>1. ASSUME NEW k \in Key, Restore(k) \/ ChangeSelection(k) PROVE Restore(k) /\ k = sel
  BY <1>1, <1>t, SelectedIsNoRest DEF Restore, ChangeSelection
<1>2. ASSUME Restore(sel) PROVE UNCHANGED <<form, sel, db>> /\ Rest
  BY <1>2 DEF Restore, served, Rest
<1>3. ~TimerFires /\ ~Poll
  BY <1>t, AskedIsNoRest DEF TimerFires, Poll
<1>4. ASSUME NEW i \in DOMAIN asks, Read(i) PROVE UNCHANGED <<form, sel, db>> /\ Rest
  BY <1>4, RestBefore DEF Read, served, shown, chosen
<1>5. ASSUME UNCHANGED <<form, sel, db>>, Rest
      PROVE  form'.of = sel' /\ \A f \in Field \ form'.typed : form'.val[f] = db'[sel'][f]
  BY <1>5, <1>t
<1>6. ASSUME NEW i \in DOMAIN asks, Arrive(i)
      PROVE  form'.of = sel' /\ \A f \in Field \ form'.typed : form'.val[f] = db'[sel'][f]
  <2>1. UNCHANGED <<sel, db, timer>>
    BY <1>6 DEF Arrive, chosen, served
  <2>2. CASE ~asks[i].last /\ UNCHANGED shown
    <3>1. Rest
      BY <1>6, <2>1, <2>2, RestBefore DEF shown
    <3> QED
      BY <1>5, <2>1, <2>2, <3>1 DEF shown
  <2>3. CASE /\ asks[i].at = "read" /\ behind' = ~asks[i].last
             /\ form' = FormAfter([of |-> asks[i].of, val |-> asks[i].val])
    <3>1. asks[i].last
      BY <2>3 DEF Rest
    <3>2. asks[i].of = sel /\ asks[i].val = db[sel]
      BY <1>0, <1>t, <2>1, <2>3, <3>1 DEF Newest
    <3>3. form'.of = asks[i].of /\ form'.val = asks[i].val
      BY <2>3 DEF FormAfter
    <3> QED
      BY <2>1, <3>2, <3>3
  <2>4. CASE behind' = TRUE
    BY <2>4 DEF Rest
  <2> QED
    BY <1>6, <2>2, <2>3, <2>4 DEF Arrive, Drops
<1>7. /\ ~Open /\ ~Abandon /\ ~Mount /\ ~ConfirmAll
      /\ ~\E f \in Field : Click(f)
      /\ ~\E k \in Key : ChooseBranch(k)
  BY DEF Open, Abandon, Covered, Click, Mount, ChooseBranch, ConfirmAll, Usual, Coherent
<1>8. ASSUME NEW f \in Field, Type(f)
      PROVE  form'.of = sel' /\ \A g \in Field \ form'.typed : form'.val[g] = db'[sel'][g]
  <2>1. /\ UNCHANGED <<sel, db, asks, timer, behind>> /\ form # Nothing
        /\ form' = [form EXCEPT !.val[f] = 1 - @, !.typed = @ \cup {f}]
    BY <1>8 DEF Type, chosen, served
  <2>2. form \in Form /\ form.val \in Item /\ Rest
    BY <1>t, <2>1, FormParts DEF Rest
  <2>3. form'.of = form.of /\ form'.typed = form.typed \cup {f} /\ form'.val = [form.val EXCEPT ![f] = 1 - @]
    BY <2>1, <2>2 DEF Form
  <2>4. \A g \in Field \ {f} : form'.val[g] = form.val[g]
    BY <2>2, <2>3, Flipped
  <2> QED
    BY <1>t, <2>1, <2>2, <2>3, <2>4
<1>9. ASSUME Save \/ (\E i \in DOMAIN posts : NextPart(i)) \/ UNCHANGED pageVars
      PROVE  UNCHANGED <<form, sel, db>> /\ Rest
  <2>1. UNCHANGED <<form, sel, db, asks, timer, behind>>
    BY <1>9 DEF Save, NextPart, pageVars, shown, chosen, served
  <2> QED
    BY <2>1 DEF Rest
<1>10. ASSUME NEW i \in DOMAIN posts, Apply(i)
       PROVE  form'.of = sel' /\ \A f \in Field \ form'.typed : form'.val[f] = db'[sel'][f]
  <2>1. UNCHANGED <<form, sel>>
    BY <1>10 DEF Apply, shown, chosen
  <2>2. SaveTrue(posts[i]) /\ Rest
    BY <1>0, OneSave
  <2>3. posts[i].typed \subseteq form.typed
    BY <2>1, <2>2 DEF SaveTrue, Readers
  <2>4. \A f \in Field \ posts[i].typed : db'[sel][f] = db[sel][f]
    BY <1>0, <1>10, AppliedToForm DEF Readers
  <2> QED
    BY <1>t, <2>1, <2>2, <2>3, <2>4
<1>11. ASSUME NEW i \in DOMAIN posts, Saved(i)
       PROVE  form'.of = sel' /\ \A f \in Field \ form'.typed : form'.val[f] = db'[sel'][f]
  <2>0. ~editor.gone
    BY DEF Usual, Coherent
  <2>1. UNCHANGED <<sel, db>>
    BY <1>11 DEF Saved, chosen, served
  <2>2. PICK p \in SaveRequest : p = posts[i] /\ SaveTrue(p) /\ Rest
    BY <1>0, OneSave
  <2>3. p.of = sel /\ (p.done > 0 => db[sel] = p.val)
    BY <2>2 DEF SaveTrue, Readers
  <2>4. CASE form' = form
    BY <1>5, <2>1, <2>2, <2>4
  <2>5. CASE p.done > 0 /\ form' = FormSaved(p)
    <3>1. form # Nothing
      BY <2>5 DEF FormSaved
    <3>2. form \in Form /\ form.val \in Item /\ form.typed \subseteq Field
      BY <1>t, <3>1, FormParts
    <3>3. CASE form' = [of |-> p.of, val |-> p.val, typed |-> {}, open |-> TRUE]
      BY <2>1, <2>3, <2>5, <3>3
    <3>4. CASE form' = [form EXCEPT !.typed = {f \in @ : form.val[f] # p.val[f]}]
      <4>1. /\ form'.of = form.of /\ form'.val = form.val
            /\ form'.typed = {f \in form.typed : form.val[f] # p.val[f]}
        BY <3>2, <3>4 DEF Form
      <4> QED
        BY <1>t, <2>1, <2>2, <2>3, <2>5, <3>1, <4>1
    <3> QED
      BY <2>5, <3>1, <3>3, <3>4 DEF FormSaved
  <2>6. form' = form \/ (p.done > 0 /\ form' = FormSaved(p))
    BY <1>11, <2>0, <2>2 DEF Saved, CarriedOut
  <2> QED
    BY <2>4, <2>5, <2>6
<1> QED
  BY <1>1, <1>2, <1>3, <1>4, <1>5, <1>6, <1>7, <1>8, <1>9, <1>10, <1>11 DEF PageNext

LEMMA FormsStayTrue ==
    ASSUME PageTyped, Usual, FormsFit, Newest, RowsTrue, FormTrue, SavesTrue, [PageNext]_pageVars
    PROVE  FormTrue'
<1>1. editor' = editor
  BY TraitsStay
<1> QED
  BY <1>1, DialogStays, PageFormStays DEF FormTrue, Dialogs, Readers

\* What is to be shown of the save under way.
LEMMA OneSaveTrue ==
    ASSUME NEW q, posts' = <<q>>, Settled', rows' # Nothing, SaveTrue(q)'
    PROVE  SavesTrue'
<1>1. Len(posts') = 1 /\ posts'[1] = q
  OBVIOUS
<1>2. SaveTrue(posts[1])'
  BY <1>1 DEF SaveTrue, Kept
<1> QED
  BY <1>1, <1>2 DEF SavesTrue

\* A save that is made by a patient user of what is shown.
LEMMA NewSaveTrue ==
    ASSUME PageTyped, [PageNext]_pageVars, Patient', hasty' = (hasty \/ ~Quiet \/ behind),
           NEW p \in SaveRequest, posts' = Append(posts, p),
           UNCHANGED <<chosen, asks, behind>>, rows' # Nothing, SaveTrue(p)'
    PROVE  SavesTrue'
<1>1. Settled /\ posts = <<>>
  BY ActsAtRest
<1>2. Settled'
  BY <1>1 DEF Settled, chosen
<1>3. posts' = <<p>>
  BY <1>1
<1> QED
  BY <1>2, <1>3, OneSaveTrue

\* What a patient user saves.
LEMMA SavedFormTrue ==
    ASSUME PageTyped, Usual, FormsFit, RowsTrue, FormTrue, SavesTrue, [PageNext]_pageVars, Patient', Save
    PROVE  /\ Settled /\ Rest /\ posts = <<>> /\ rows # Nothing /\ rows.of = sel
           /\ form # Nothing /\ (editor.starts # "kept" => form.of = sel)
           /\ Kept => rows.val = db[sel] /\ editor.then # "guessed"
           /\ editor.starts \in Readers => \A f \in Field \ form.typed : form.val[f] = db[sel][f]
<1>1. Patient /\ Settled /\ Rest /\ posts = <<>>
  BY ActsAtRest DEF Save
<1>2. form # Nothing /\ rows # Nothing
  BY DEF Save
<1>3. rows.of = sel /\ (Kept => rows.val = db[sel])
  BY <1>1, <1>2 DEF RowsTrue
<1>4. editor.starts \in {"mount", "open", "renews", "answer", "blank", "cell", "kept"}
  <2>1. editor \in Editors
    BY Traits DEF PageTyped
  <2> QED
    BY <1>2, <2>1 DEF Editors, PageTyped, ShownOK
<1>5. editor.starts # "kept" => form.of = sel
  BY <1>1, <1>2, <1>3, <1>4 DEF FormTrue, FormsFit, Dialogs, Readers
<1>6. editor.then # "guessed"
  BY <1>4 DEF Usual, Coherent
<1>7. editor.starts \in Readers => \A f \in Field \ form.typed : form.val[f] = db[sel][f]
  BY <1>1, <1>2 DEF FormTrue
<1> QED
  BY <1>1, <1>2, <1>3, <1>5, <1>6, <1>7

\* The save under way as the API carries it out, refuses it, or is sent the next
\* part of it.
LEMMA SaveOnItsWay ==
    ASSUME PageTyped, [PageNext]_pageVars, SavesTrue, Patient, NEW i \in DOMAIN posts,
           Apply(i) \/ NextPart(i),
           NEW q \in {Applied(posts[i]), Refused(posts[i]), SentAgain(posts[i])},
           posts' = [posts EXCEPT ![i] = q]
    PROVE  SaveTrue(q)'
<1>0. editor' = editor /\ (Kept' <=> Kept)
  BY TraitsStay DEF Kept
<1>1. SaveTrue(posts[i]) /\ posts \in Seq(SaveRequest)
  BY OneSave DEF PageTyped, PostsOK
<1>2. PICK p \in SaveRequest : p = posts[i]
  BY <1>1
<1>3. /\ q.to = p.to /\ q.of = p.of /\ q.val = p.val /\ q.sends = p.sends
      /\ q.typed = p.typed /\ q.before = p.before /\ q.key = p.key
  BY <1>2, SaveStays
<1>4. UNCHANGED <<sel, rows, form>> /\ SaveTrue(p)
  BY <1>1, <1>2 DEF Apply, NextPart, shown, chosen
<1>5. /\ p.done \in 0..2 /\ p.val \in Item /\ p.to \in Key /\ sel \in Key
      /\ db \in [Key -> Item] /\ db' \in [Key -> Item]
      /\ editor.starts \in Readers => p.to = sel
  BY <1>4, SaveParts, ServedStays DEF SaveTrue, PageTyped, ServedOK, ChosenOK, Readers
<1>6. editor.parts \in {1, 2}
  BY Traits DEF PageTyped, Editors
<1>7. posts'[i] = q
  BY <1>1
<1>8. CASE db' = db /\ q.done = p.done
  BY <1>0, <1>3, <1>4, <1>8 DEF SaveTrue
<1>9. CASE db' = db /\ q.done > 0 /\ p.done > 0
  BY <1>0, <1>3, <1>4, <1>9 DEF SaveTrue
<1>10. CASE /\ p.done = 0 /\ q.done = 1
            /\ db' = [db EXCEPT ![p.to] = [f \in Field |-> IF f \in p.sends THEN p.val[f] ELSE db[p.to][f]]]
  <2>1. p.to = sel => \A f \in Field : db'[sel][f] = IF f \in p.sends THEN p.val[f] ELSE db[sel][f]
    BY <1>5, <1>10
  <2>2. p.to # sel => db'[sel] = db[sel]
    BY <1>5, <1>10
  <2>3. ASSUME Kept, p.to = sel
        PROVE  \A f \in Field : db'[sel][f] = IF f \in q.sends THEN q.val[f] ELSE q.before.val[f]
    BY <1>3, <1>4, <1>10, <2>1, <2>3 DEF SaveTrue
  <2>4. ASSUME Kept, p.to # sel
        PROVE  db'[sel] = q.before.val
    BY <1>3, <1>4, <2>2, <2>4 DEF SaveTrue
  <2>5. ASSUME editor.starts \in Readers
        PROVE  q.sends = Field /\ db'[sel] = q.val
    <3>1. p.sends = Field /\ p.to = sel
      BY <1>4, <1>5, <2>5 DEF SaveTrue
    <3>2. \A f \in Field : db'[sel][f] = p.val[f]
      BY <2>1, <3>1
    <3> QED
      BY <1>3, <1>5, <3>1, <3>2, SameItem
  <2> QED
    BY <1>0, <1>3, <1>4, <1>10, <2>3, <2>4, <2>5 DEF SaveTrue
<1>11. CASE Apply(i)
  <2>1. p.at = "sent"
    BY <1>2, <1>11, Progress
  <2>2. \/ /\ posts' = [posts EXCEPT ![i].at = "ok", ![i].done = @ + 1]
           /\ \/ p.done = 0 /\ db' = [db EXCEPT ![p.to] = [f \in Field |-> IF f \in p.sends THEN p.val[f] ELSE db[p.to][f]]]
              \/ p.done # 0 /\ db' = db
        \/ posts' = [posts EXCEPT ![i].at = "refused"] /\ db' = db
    BY <1>2, <1>11 DEF Apply, served
  <2>3. posts' = [posts EXCEPT ![i].at = "ok", ![i].done = @ + 1] => q.done = p.done + 1
    BY <1>1, <1>2, <1>7 DEF SaveRequest
  <2>4. posts' = [posts EXCEPT ![i].at = "refused"] => q.done = p.done
    BY <1>1, <1>2, <1>7 DEF SaveRequest
  <2>5. p.done + 1 > 0 /\ (p.done = 0 => p.done + 1 = 1) /\ (p.done # 0 => p.done > 0)
    BY <1>5
  <2> QED
    BY <1>8, <1>9, <1>10, <2>2, <2>3, <2>4, <2>5
<1>12. CASE NextPart(i)
  <2>1. db' = db /\ posts' = [posts EXCEPT ![i] = SentAgain(posts[i])]
    BY <1>12, Progress DEF NextPart, served
  <2>2. q = SentAgain(p)
    BY <1>1, <1>2, <1>7, <2>1
  <2>3. q.done = p.done
    BY <1>6, <2>2, ProgressOK
  <2> QED
    BY <1>8, <2>1, <2>3
<1> QED
  BY <1>11, <1>12

\* While a save is under way the page asks nothing else, and the user types at most.
LEMMA SavesStayTrue ==
    ASSUME PageTyped, Usual, FormsFit, RowsTrue, FormTrue, SavesTrue, [PageNext]_pageVars
    PROVE  SavesTrue'
<1>0. view' = view /\ editor' = editor /\ (Kept' <=> Kept)
  BY TraitsStay DEF Kept
<1> SUFFICES ASSUME Patient', posts' # <<>> PROVE SavesTrue'
  BY DEF SavesTrue
<1>t. /\ Patient /\ posts \in Seq(SaveRequest) /\ asks \in Seq(Ask)
      /\ form \in Form \cup {Nothing} /\ rows \in Row \cup {Nothing}
  BY PatientBefore DEF PageTyped, AsksOK, PostsOK, ShownOK
<1>1. ASSUME NEW k \in Key, Restore(k) PROVE FALSE
  BY <1>1, <1>t, NoSave DEF Restore
<1>2. ASSUME NEW k \in Key, ChangeSelection(k) PROVE FALSE
  BY <1>2 DEF ChangeSelection, Patient
<1>3. ~TimerFires /\ ~Poll
  BY <1>t, NoSave DEF TimerFires, Poll, Patient
<1>4. ASSUME NEW i \in DOMAIN asks, Read(i) \/ Arrive(i) PROVE FALSE
  <2>1. asks # <<>>
    BY <1>t
  <2> QED
    BY <1>4, <1>t, <2>1, NoSave DEF Read, Arrive
<1>5. ~Open
  BY ActsAtRest DEF Open
<1>6. ASSUME UNCHANGED <<posts, chosen, asks, behind, db, rows>>,
             form' = Nothing \/ (form # Nothing /\ form.typed \subseteq form'.typed)
                \/ editor.starts \notin Readers
      PROVE  SavesTrue'
  <2>1. Settled /\ Len(posts) = 1 /\ rows # Nothing /\ SaveTrue(posts[1])
    BY <1>6, <1>t DEF SavesTrue
  <2>2. Settled'
    BY <1>6, <2>1 DEF Settled, chosen
  <2>3. PICK p \in SaveRequest : p = posts[1] /\ posts' = <<p>>
    BY <1>6, <1>t, <2>1
  <2>4. SaveTrue(p)'
    BY <1>0, <1>6, <2>1, <2>3 DEF SaveTrue, chosen
  <2> QED
    BY <1>6, <2>1, <2>2, <2>3, <2>4, OneSaveTrue
<1>7. ASSUME NEW f \in Field, Type(f)
      PROVE  /\ UNCHANGED <<posts, chosen, asks, behind, db, rows>>
             /\ form # Nothing /\ form.typed \subseteq form'.typed
  <2>1. /\ UNCHANGED <<posts, chosen, asks, behind, db, rows>> /\ form # Nothing
        /\ form' = [form EXCEPT !.val[f] = 1 - @, !.typed = @ \cup {f}]
    BY <1>7 DEF Type, served
  <2>2. form'.typed = form.typed \cup {f}
    BY <1>t, <2>1 DEF Form
  <2> QED
    BY <2>1, <2>2
<1>8. ASSUME Abandon
      PROVE  /\ UNCHANGED <<posts, chosen, asks, behind, db, rows>>
             /\ form' = Nothing \/ editor.starts \notin Readers
  BY <1>8 DEF Abandon, served, Closed, Mounted, Readers
<1>14. ASSUME Mount \/ \E k \in Key : ChooseBranch(k)
       PROVE  UNCHANGED <<posts, chosen, asks, behind, db, rows>> /\ editor.starts \notin Readers
  BY <1>14 DEF Mount, ChooseBranch, served, Readers
<1>9. ASSUME UNCHANGED pageVars
      PROVE  UNCHANGED <<posts, chosen, asks, behind, db, rows>> /\ UNCHANGED form
  BY <1>9 DEF pageVars, served, shown
<1>10. ASSUME Save PROVE SavesTrue'
  <2>1. PICK p \in SaveRequest : p = NewPost(form.of, form.val, Sends, form.typed) /\ posts' = Append(posts, p)
    BY <1>10, SavePosts
  <2>2. /\ Settled /\ posts = <<>> /\ rows # Nothing /\ rows.of = sel /\ form # Nothing
        /\ editor.starts # "kept" => form.of = sel
        /\ Kept => rows.val = db[sel] /\ editor.then # "guessed"
        /\ editor.starts \in Readers => \A f \in Field \ form.typed : form.val[f] = db[sel][f]
    BY <1>10, SavedFormTrue
  <2>3. UNCHANGED <<chosen, asks, behind, db, rows, form>> /\ hasty' = (hasty \/ ~Quiet \/ behind)
    BY <1>10 DEF Save, shown, served
  <2>4. /\ p.to = Target(form.of) /\ p.of = form.of /\ p.key = sel /\ p.before = rows /\ p.done = 0
        /\ p.val = form.val /\ p.sends = Sends /\ p.typed = form.typed
    BY <2>1, <2>2 DEF NewPost
  <2>7. p.of = p.to /\ (editor.starts # "kept" => p.to = sel)
    BY <2>2, <2>4 DEF Target, Usual, Coherent
  <2>5. editor.starts \in Readers => Sends = Field
    BY DEF Sends, Readers
  <2>6. SaveTrue(p)'
    BY <1>0, <2>2, <2>3, <2>4, <2>5, <2>7 DEF SaveTrue, chosen
  <2> QED
    BY <2>1, <2>2, <2>3, <2>6, NewSaveTrue
<1>11. ASSUME NEW f \in Field, Click(f)
       PROVE  SavesTrue'
  <2>1. PICK p \in SaveRequest : p = ClickedOn(f) /\ posts' = Append(posts, p)
    BY <1>11, ClickPosts
  <2>2. UNCHANGED <<chosen, asks, behind, db>> /\ hasty' = (hasty \/ ~Quiet \/ behind)
        /\ editor.starts = "click" /\ rows # Nothing
    BY <1>11 DEF Click, served
  <2>3. Settled /\ Rest /\ posts = <<>>
    BY <2>2, ActsAtRest
  <2>4. rows \in Row /\ rows.val \in Item /\ rows.of = sel /\ (Kept => rows.val = db[sel])
    BY <1>t, <2>2, <2>3, RowParts DEF RowsTrue
  <2>5. PICK new \in Item : new = [rows.val EXCEPT ![f] = 1 - @] /\ \A g \in Field \ {f} : new[g] = rows.val[g]
    BY <2>4, Flipped
  <2>6. /\ p.to = sel /\ p.of = sel /\ p.key = sel /\ p.before = rows /\ p.done = 0
        /\ p.val = new /\ p.sends = {f}
    BY <2>1, <2>4, <2>5 DEF ClickedOn, NewPost, Target
  <2>11. {f} # Field
    BY DEF Field
  <2>7. rows' = IF editor.then = "guessed" THEN [rows EXCEPT !.val = new] ELSE rows
    BY <1>11, <2>5 DEF Click
  <2>8. rows' \in Row /\ (editor.then = "guessed" => rows'.val = new) /\ (editor.then # "guessed" => rows' = rows)
    BY <2>4, <2>7 DEF Row
  <2>9. rows' # Nothing
    BY <2>8, SomethingIsNotNothing
  <2>10. SaveTrue(p)'
    BY <1>0, <2>2, <2>4, <2>5, <2>6, <2>8, <2>11 DEF SaveTrue, chosen, Readers
  <2> QED
    BY <2>1, <2>2, <2>9, <2>10, NewSaveTrue
<1>12. ASSUME NEW i \in DOMAIN posts, Apply(i) \/ NextPart(i)
       PROVE  SavesTrue'
  <2>1. /\ i = 1 /\ Len(posts) = 1 /\ Settled /\ rows # Nothing
        /\ posts[i] \in SaveRequest /\ SaveTrue(posts[i])
    BY <1>t, OneSave
  <2>2. UNCHANGED <<chosen, asks, behind, rows, form>>
    BY <1>12 DEF Apply, NextPart, shown
  <2>3. PICK q \in {Applied(posts[1]), Refused(posts[1]), SentAgain(posts[1])} :
           posts' = [posts EXCEPT ![1] = q]
    BY <1>12, <2>1, Progress
  <2>4. posts' = <<q>>
    BY <1>t, <2>1, <2>3
  <2>5. Settled'
    BY <2>1, <2>2 DEF Settled, chosen
  <2>6. SaveTrue(q)'
    BY <1>12, <1>t, <2>1, <2>3, SaveOnItsWay
  <2> QED
    BY <2>1, <2>2, <2>4, <2>5, <2>6, OneSaveTrue
<1>15. ASSUME ConfirmAll PROVE SavesTrue'
  <2>1. PICK p \in SaveRequest : p = AllOfRow /\ posts' = Append(posts, p)
    BY <1>15, ConfirmPosts
  <2>2. UNCHANGED <<chosen, asks, behind, db, rows, form>> /\ hasty' = (hasty \/ ~Quiet \/ behind)
        /\ editor.starts = "click" /\ rows # Nothing
    BY <1>15 DEF ConfirmAll, served, shown, Usual, Coherent
  <2>3. Settled /\ Rest /\ posts = <<>>
    BY <2>2, ActsAtRest
  <2>4. rows.of = sel /\ (Kept => rows.val = db[sel])
    BY <1>t, <2>2, <2>3 DEF RowsTrue
  <2>5. /\ p.to = sel /\ p.of = sel /\ p.key = sel /\ p.before = rows /\ p.done = 0
        /\ p.val = rows.val /\ p.sends = Field
    BY <2>1, <2>4 DEF AllOfRow, NewPost, Target
  <2>6. SaveTrue(p)'
    BY <1>0, <2>2, <2>4, <2>5 DEF SaveTrue, chosen, Readers
  <2> QED
    BY <2>1, <2>2, <2>6, NewSaveTrue
<1>13. ASSUME NEW i \in DOMAIN posts, Saved(i) PROVE FALSE
  <2>1. Len(posts) = 1 /\ posts' = Without(posts, i)
    BY <1>13, <1>t, OneSave DEF Saved
  <2>2. Len(Without(posts, i)) = Len(posts) - 1 /\ Without(posts, i) \in Seq(SaveRequest)
    BY <1>t, WithoutOne
  <2> QED
    BY <2>1, <2>2
<1> QED
  BY <1>1, <1>2, <1>3, <1>4, <1>5, <1>6, <1>7, <1>8, <1>9, <1>10, <1>11, <1>12, <1>13, <1>14, <1>15
     DEF PageNext

LEMMA AstrayStays ==
    ASSUME PageTyped, Astray, [PageNext]_pageVars
    PROVE  Astray'
<1>1. editor' = editor
  BY TraitsStay
<1>2. strayed' # strayed => editor.then = "appends"
  BY DEF PageNext, pageVars, message, Restore, ChangeSelection, TimerFires, Poll, Read, Arrive, Open,
         Abandon, Mount, ChooseBranch, Save, Type, Click, ConfirmAll, Apply, NextPart, Saved, PageTyped, ToldOK
<1> QED
  BY <1>1, <1>2 DEF Astray

\* The inductive invariant of the pages.
LEMMA TruthStays ==
    ASSUME PageTyped, Usual, Truth, [PageNext]_pageVars
    PROVE  Truth'
BY FormsFitStays, NewestStays, RowsStayTrue, FormsStayTrue, SavesStayTrue, AstrayStays DEF Truth

LEMMA PagesAreTrue ==
    ASSUME Screens \subseteq AllScreens
    PROVE  PageSpec => []Truth
<1>1. PageInit => Truth
  <2> SUFFICES ASSUME PageInit PROVE Truth
    OBVIOUS
  <2>1. /\ rows = Nothing /\ form = Nothing /\ posts = <<>>
        /\ asks = <<>> \/ asks = <<[of |-> sel, at |-> "asked", last |-> TRUE]>>
        /\ ~strayed
    BY DEF PageInit
  <2>2. PICK a : a = [of |-> sel, at |-> "asked", last |-> TRUE]
    OBVIOUS
  <2>3. asks = <<>> \/ asks = <<a>>
    BY <2>1, <2>2
  <2>4. \A i \in DOMAIN asks : i = Len(asks) /\ asks[i] = a
    <3>1. CASE asks = <<>>
      BY <3>1
    <3>2. CASE asks = <<a>>
      <4>1. DOMAIN asks = {1} /\ Len(asks) = 1 /\ asks[1] = a
        BY <3>2
      <4> QED
        BY <4>1
    <3> QED
      BY <2>3, <3>1, <3>2
  <2>5. Newest
    BY <2>2, <2>4 DEF Newest
  <2> QED
    BY <2>1, <2>5 DEF Truth, FormsFit, RowsTrue, FormTrue, SavesTrue, Astray
<1>2. PageTyped /\ Usual /\ Truth /\ [PageNext]_pageVars => Truth'
  BY TruthStays
<1> QED
  BY <1>1, <1>2, PagesTyped, PagesAreUsual, PTL DEF PageSpec

\* What is sent without a form of what is shown is what was changed.
LEMMA EditsStayEdits ==
    ASSUME PageTyped, EditsOnly, [PageNext]_pageVars
    PROVE  EditsOnly'
<1>0. editor' = editor
  BY TraitsStay
<1> DEFINE Edit(p) == p.sends \subseteq p.typed \/ (editor.then = "guessed" /\ p.sends = Field)
<1> SUFFICES ASSUME editor.starts \in {"blank", "cell", "click", "none"}, NEW j \in DOMAIN posts'
             PROVE  Edit(posts'[j])
  BY <1>0 DEF EditsOnly
<1>1. CASE \E k \in DOMAIN posts :
             posts'[j] \in {posts[k], Applied(posts[k]), Refused(posts[k]), SentAgain(posts[k])}
  BY <1>1, SaveStays DEF EditsOnly
<1>2. CASE Save /\ posts'[j] = NewPost(form.of, form.val, Sends, form.typed)
  <2>1. editor.starts \in {"blank", "cell"}
    BY <1>2 DEF Save, PageTyped, ShownOK
  <2> QED
    BY <1>2, <2>1 DEF Sends, NewPost
<1>3. ASSUME NEW f \in Field, posts'[j] = ClickedOn(f) PROVE Edit(posts'[j])
  BY <1>3 DEF ClickedOn, NewPost
<1>4. ASSUME ConfirmAll, posts'[j] = AllOfRow PROVE Edit(posts'[j])
  BY <1>4 DEF ConfirmAll, AllOfRow, NewPost
<1> QED
  BY <1>1, <1>2, <1>3, <1>4, PostMoves

\* A save by a patient user stores in its item what the user changed, and what was
\* there.
LEMMA OnlyEditsStored ==
    ASSUME PageTyped, Usual, Truth, EditsOnly, OnlyEditsAreSaved, [PageNext]_pageVars
    PROVE  OnlyEditsAreSaved'
<1>0. view' = view /\ editor' = editor
  BY TraitsStay
<1>1. ASSUME NEW i \in DOMAIN posts, Apply(i), ~hasty, ~Mounted, reverted' # reverted
      PROVE  FALSE
  <2>1. PICK p \in SaveRequest : p = posts[i]
    BY DEF PageTyped, PostsOK
  <2> DEFINE stored == [f \in Field |-> IF f \in p.sends THEN p.val[f] ELSE db[p.to][f]]
  <2>2. \E f \in Field \ p.typed : stored[f] # db[p.to][f]
    BY <1>1, <2>1 DEF Apply, served, PageTyped, ServedOK
  <2>3. PICK f \in Field \ p.typed : f \in p.sends /\ p.val[f] # db[p.to][f]
    BY <2>2
  <2>4. editor.starts \in {"blank", "cell", "click", "none"} => editor.then = "guessed" /\ p.sends = Field
    BY <2>1, <2>3 DEF EditsOnly
  <2>5. ~strayed
    BY <1>1, <2>4 DEF Truth, Astray, Usual, Coherent, Mounted
  <2>6. Patient
    BY <1>1, <2>4, <2>5 DEF Patient, Usual, Coherent
  <2>7. SaveTrue(p) /\ p.to = sel
    <3>1. SaveTrue(p)
      BY <2>1, <2>6, OneSave DEF Truth
    <3> QED
      BY <1>1, <3>1 DEF SaveTrue, Mounted
  <2>8. CASE editor.starts \in Readers
    BY <2>3, <2>7, <2>8 DEF SaveTrue
  <2>9. CASE editor.starts \notin Readers
    <3>1. editor.then = "guessed" /\ p.sends = Field
      BY <1>1, <2>4, <2>9, Traits DEF PageTyped, Editors, Readers, Mounted
    <3>2. Kept
      BY <2>9, <3>1 DEF Kept, Readers
    <3>3. p.val = p.before.val
      BY <2>7, <3>1, <3>2 DEF SaveTrue
    <3>4. db[sel][f] = p.val[f]
      <4>1. p.done = 0 => db[sel] = p.before.val
        BY <2>7, <3>2 DEF SaveTrue
      <4>2. p.done > 0 => db[sel][f] = p.val[f]
        BY <2>7, <3>1, <3>2 DEF SaveTrue
      <4>3. p.done = 0 \/ p.done > 0
        BY SaveParts
      <4> QED
        BY <3>3, <4>1, <4>2, <4>3
    <3> QED
      BY <2>3, <2>7, <3>4
  <2> QED
    BY <2>8, <2>9
<1>2. hasty => hasty'
  BY DEF PageNext, pageVars, user, Restore, ChangeSelection, TimerFires, Poll, Read, Arrive, Open,
         Abandon, Mount, ChooseBranch, Save, Type, Click, ConfirmAll, Apply, NextPart, Saved
<1>3. (\E i \in DOMAIN posts : Apply(i)) \/ reverted' = reverted
  BY DEF PageNext, pageVars, served, Restore, ChangeSelection, TimerFires, Poll, Read, Arrive, Open,
         Abandon, Mount, ChooseBranch, Save, Type, Click, ConfirmAll, NextPart, Saved
<1>4. CASE reverted' = reverted
  BY <1>0, <1>2, <1>4 DEF OnlyEditsAreSaved, Mounted
<1>5. CASE reverted' # reverted
  <2>1. PICK i \in DOMAIN posts : Apply(i)
    BY <1>3, <1>5
  <2> QED
    BY <1>0, <1>1, <1>2, <1>5, <2>1 DEF OnlyEditsAreSaved, Mounted
<1> QED
  BY <1>4, <1>5

\* The property OnlyEditsAreSaved: on every page of apps/web, whatever is answered
\* when, a user who waits for the page stores the fields they changed and leaves the
\* others as they are on the server; but for the dialogs that stay mounted.
THEOREM OnlyEditsAreEverSaved ==
    ASSUME Screens \subseteq AllScreens
    PROVE  PageSpec => []OnlyEditsAreSaved
<1>1. PageInit => EditsOnly /\ OnlyEditsAreSaved
  BY DEF PageInit, EditsOnly, OnlyEditsAreSaved
<1>2. PageTyped /\ Usual /\ Truth /\ (EditsOnly /\ OnlyEditsAreSaved) /\ [PageNext]_pageVars
        => (EditsOnly /\ OnlyEditsAreSaved)'
  BY EditsStayEdits, OnlyEditsStored
<1> QED
  BY <1>1, <1>2, PagesTyped, PagesAreUsual, PagesAreTrue, PTL DEF PageSpec

\* The property ScreenTellsTheTruth: a page of apps/web that has come to rest shows
\* the server's item of its selection, the user's own saves included, whatever was
\* overtaken, refused or answered late before, unless it has taken in a new row of
\* another selection's; for any selections and any numbers of requests and saves under
\* way.
THEOREM ScreenAlwaysTellsTheTruth ==
    ASSUME Screens \subseteq AllScreens
    PROVE  PageSpec => []ScreenTellsTheTruth
<1>1. PageTyped /\ Truth => ScreenTellsTheTruth
  <2> SUFFICES ASSUME PageTyped, Truth, AtRest, ~strayed PROVE Current
    BY DEF ScreenTellsTheTruth
  <2>1. Patient /\ Rest /\ posts = <<>> /\ Seen # Nothing
    BY DEF AtRest, Quiet, Patient, Rest
  <2>2. CASE editor.starts = "answer"
    BY <2>1, <2>2 DEF Truth, FormTrue, Current, Seen, Unsaved, Readers
  <2>3. CASE editor.starts # "answer"
    <3>1. Kept /\ Seen = rows
      BY <2>3 DEF AtRest, Kept, Seen
    <3> QED
      BY <2>1, <3>1 DEF Truth, RowsTrue, Current
  <2> QED
    BY <2>2, <2>3
<1> QED
  BY <1>1, PagesTyped, PagesAreTrue, PTL

-----------------------------------------------------------------------------
(* What a save is stored in *)

\* The quick booking of a user who waits: its cell is of the day that is selected.
CellTrue ==
    editor.starts = "cell" /\ ~hasty =>
        /\ ~timer => \A i \in DOMAIN asks : asks[i].last => asks[i].of = sel
        /\ Rest /\ rows # Nothing => rows.of = sel
        /\ form # Nothing => form.open /\ form.of = sel /\ restored
        /\ posts # <<>> => restored
        /\ \A i \in DOMAIN posts : posts[i].of = sel /\ posts[i].to = sel /\ posts[i].key = sel

LEMMA CellStays ==
    ASSUME PageTyped, Usual, CellTrue, [PageNext]_pageVars
    PROVE  CellTrue'
<1>0. view' = view /\ editor' = editor
  BY TraitsStay
<1>1. hasty => hasty'
  BY DEF PageNext, pageVars, user, Restore, ChangeSelection, TimerFires, Poll, Read, Arrive, Open,
         Abandon, Mount, ChooseBranch, Save, Type, Click, ConfirmAll, Apply, NextPart, Saved
<1> DEFINE OfSel(p) == p.of = sel /\ p.to = sel /\ p.key = sel
           Whole == (Rest /\ rows # Nothing => rows.of = sel)'
           Posted == (posts # <<>> => restored)' /\ (\A i \in DOMAIN posts : OfSel(posts[i]))'
           Asked == (~timer => \A i \in DOMAIN asks : asks[i].last => asks[i].of = sel)'
           Filled == (form # Nothing => form.open /\ form.of = sel /\ restored)'
<1> SUFFICES ASSUME editor.starts = "cell", ~hasty'
             PROVE  Asked /\ Whole /\ Filled /\ Posted
  BY <1>0 DEF CellTrue
<1>t. /\ asks \in Seq(Ask) /\ posts \in Seq(SaveRequest) /\ sel \in Key
      /\ form \in Form \cup {Nothing} /\ rows \in Row \cup {Nothing} /\ timer \in BOOLEAN
  BY DEF PageTyped, AsksOK, PostsOK, ShownOK, ChosenOK
<1>2. /\ ~timer => \A i \in DOMAIN asks : asks[i].last => asks[i].of = sel
      /\ Rest /\ rows # Nothing => rows.of = sel
      /\ form # Nothing => form.open /\ form.of = sel /\ restored
      /\ posts # <<>> => restored
      /\ \A i \in DOMAIN posts : OfSel(posts[i])
  BY <1>1 DEF CellTrue
<1>3. ASSUME UNCHANGED <<sel, timer, asks>> PROVE Asked
  BY <1>2, <1>3
<1>4. ASSUME UNCHANGED <<sel, timer, asks, rows, behind>> PROVE Asked /\ Whole
  BY <1>2, <1>3, <1>4 DEF Rest
<1>5. ASSUME UNCHANGED <<sel, restored, posts>> PROVE Posted
  BY <1>2, <1>5
<1>6. ASSUME UNCHANGED <<sel, restored, form>> PROVE Filled
  BY <1>2, <1>6
<1>7. ASSUME timer', posts' = <<>>, form' = Nothing PROVE Asked /\ Whole /\ Filled /\ Posted
  <2>1. \A i \in DOMAIN posts' : FALSE
    BY <1>7
  <2> QED
    BY <1>7, <2>1 DEF Rest
<1>8. ASSUME asks' = WithAsk(sel), sel' = sel PROVE Asked /\ Whole
  <2>1. ~Rest'
    BY <1>8, <1>t, AskedIsNoRest
  <2>2. Asked
    BY <1>8, <1>t, AfterMore
  <2> QED
    BY <2>1, <2>2
<1>9. ASSUME NEW k \in Key, TakeSelection(k), form = Nothing, posts' = <<>>
      PROVE  Asked /\ Whole /\ Filled /\ Posted
  <2>1. form' = Nothing /\ sel' = k
    BY <1>9 DEF TakeSelection, FormLeft
  <2>2. CASE timer'
    BY <1>7, <1>9, <2>1, <2>2
  <2>3. CASE ~timer' /\ asks' = WithAsk(k)
    <3>1. ~Rest'
      BY <1>9, <2>3, AskedIsNoRest
    <3>2. Asked
      BY <1>t, <2>1, <2>3, AfterMore
    <3>3. \A i \in DOMAIN posts' : FALSE
      BY <1>9
    <3> QED
      BY <1>9, <2>1, <3>1, <3>2, <3>3
  <2> QED
    BY <1>9, <2>2, <2>3 DEF TakeSelection
<1>10. ASSUME NEW k \in Key, ChangeSelection(k) PROVE Asked /\ Whole /\ Filled /\ Posted
  <2>1. form = Nothing
    BY <1>2, <1>10 DEF ChangeSelection, Covered
  <2>2. posts' = <<>> /\ TakeSelection(k)
    BY <1>10 DEF ChangeSelection
  <2> QED
    BY <1>9, <2>1, <2>2
<1>11. ASSUME NEW k \in Key, Restore(k) PROVE Asked /\ Whole /\ Filled /\ Posted
  <2>1. form = Nothing /\ posts = <<>> /\ UNCHANGED <<posts, behind>>
    BY <1>2, <1>11 DEF Restore
  <2>2. CASE UNCHANGED <<sel, timer, asks, rows, form>>
    <3>1. \A i \in DOMAIN posts' : FALSE
      BY <2>1
    <3> QED
      BY <1>4, <2>1, <2>2, <3>1
  <2>3. CASE TakeSelection(k)
    BY <1>9, <2>1, <2>3
  <2> QED
    BY <1>11, <2>2, <2>3 DEF Restore
<1>12. ASSUME TimerFires \/ Poll PROVE Asked /\ Whole /\ Filled /\ Posted
  <2>1. asks' = WithAsk(sel) /\ UNCHANGED <<sel, restored, form, posts>>
    BY <1>12 DEF TimerFires, Poll, chosen, shown
  <2> QED
    BY <1>5, <1>6, <1>8, <2>1
<1>13. ASSUME NEW i \in DOMAIN asks, Read(i) PROVE Asked /\ Whole /\ Filled /\ Posted
  <2>1. UNCHANGED <<sel, restored, form, posts, timer, rows, behind>>
    BY <1>13 DEF Read, chosen, shown
  <2>2. Asked
    BY <1>2, <1>13, <2>1, AfterRead
  <2>3. Rest' => Rest
    BY <1>13, <2>1, RestBefore
  <2> QED
    BY <1>2, <1>5, <1>6, <2>1, <2>2, <2>3
<1>14. ASSUME NEW i \in DOMAIN asks, Arrive(i) PROVE Asked /\ Whole /\ Filled /\ Posted
  <2>1. UNCHANGED <<sel, restored, posts, timer>>
    BY <1>14 DEF Arrive, chosen
  <2>2. Asked
    BY <1>2, <1>14, <2>1, AfterArrival
  <2>3. form' = form \/ form' = Nothing
    <3>1. \A x : FormAfter(x) = form
      BY DEF FormAfter
    <3> QED
      BY <1>14, <3>1 DEF Arrive, shown, FormLeft
  <2>4. Whole
    <3>1. CASE ~asks[i].last /\ UNCHANGED shown
      <4>1. Rest' => Rest
        BY <1>14, <2>1, <3>1, RestBefore DEF shown
      <4> QED
        BY <1>2, <2>1, <3>1, <4>1 DEF shown
    <3>2. CASE rows' = [of |-> asks[i].of, val |-> asks[i].val] /\ behind' = ~asks[i].last
      BY <1>2, <2>1, <3>2 DEF Rest
    <3>3. CASE behind' = TRUE
      BY <3>3 DEF Rest
    <3> QED
      BY <1>14, <3>1, <3>2, <3>3 DEF Arrive, Drops
  <2> QED
    BY <1>2, <1>5, <2>1, <2>2, <2>3, <2>4
<1>15. ASSUME Open PROVE Asked /\ Whole /\ Filled /\ Posted
  <2>1. UNCHANGED <<sel, restored, timer, asks, rows, behind, posts>> /\ restored /\ rows # Nothing
    BY <1>15 DEF Open, Acts, chosen
  <2>2. PICK k \in Opens : form' = FormOpened(k)
    BY <1>2, <1>15 DEF Open
  <2>6. Quiet /\ ~behind
    BY <1>15 DEF Open
  <2>3. Rest
    BY <2>6 DEF Quiet, Rest
  <2>4. k = sel
    BY <1>2, <2>1, <2>2, <2>3 DEF Opens
  <2>5. Filled
    BY <2>1, <2>2, <2>4 DEF FormOpened
  <2> QED
    BY <1>4, <1>5, <2>1, <2>5
<1>16. ASSUME NEW f \in Field, Type(f) PROVE Asked /\ Whole /\ Filled /\ Posted
  <2>1. /\ UNCHANGED <<sel, restored, timer, asks, rows, behind, posts>> /\ form # Nothing
        /\ form' = [form EXCEPT !.val[f] = 1 - @, !.typed = @ \cup {f}]
    BY <1>16 DEF Type, chosen
  <2>2. form'.of = form.of /\ form'.open = form.open
    BY <1>t, <2>1 DEF Form
  <2> QED
    BY <1>2, <1>4, <1>5, <2>1, <2>2
<1>17. ASSUME UNCHANGED <<sel, restored, timer, asks, rows, behind, posts>>, form' = form \/ form' = Nothing
       PROVE  Asked /\ Whole /\ Filled /\ Posted
  BY <1>2, <1>4, <1>5, <1>17
<1>18. ASSUME Abandon \/ UNCHANGED pageVars
       PROVE  UNCHANGED <<sel, restored, timer, asks, rows, behind, posts>> /\ (form' = form \/ form' = Nothing)
  BY <1>18 DEF Abandon, Closed, Mounted, pageVars, shown, chosen
<1>19. ASSUME Save PROVE Asked /\ Whole /\ Filled /\ Posted
  <2>1. UNCHANGED <<sel, restored, timer, asks, rows, behind, form>> /\ form # Nothing
    BY <1>19 DEF Save, chosen, shown
  <2>2. PICK p \in SaveRequest : p = NewPost(form.of, form.val, Sends, form.typed) /\ posts' = Append(posts, p)
    BY <1>19, SavePosts
  <2>3. OfSel(p)
    BY <1>2, <2>1, <2>2 DEF NewPost, Target
  <2>4. \A j \in DOMAIN posts' : (j \in DOMAIN posts /\ posts'[j] = posts[j]) \/ posts'[j] = p
    BY <1>t, <2>2
  <2>5. Posted
    BY <1>2, <2>1, <2>3, <2>4
  <2> QED
    BY <1>4, <1>6, <2>1, <2>5
<1>20. ASSUME NEW i \in DOMAIN posts, Apply(i) \/ NextPart(i) PROVE Asked /\ Whole /\ Filled /\ Posted
  <2>1. UNCHANGED <<sel, restored, timer, asks, rows, behind, form>>
    BY <1>20 DEF Apply, NextPart, chosen, shown
  <2>2. ~Save /\ ~ConfirmAll /\ ~\E f \in Field : Click(f)
    <3>1. DOMAIN posts' = DOMAIN posts
      BY <1>20, <1>t DEF Apply, NextPart
    <3>2. \A p \in SaveRequest : DOMAIN Append(posts, p) # DOMAIN posts
      BY <1>t
    <3> QED
      BY <3>1, <3>2, SavePosts, ConfirmPosts, ClickPosts
  <2>3. \A j \in DOMAIN posts' : OfSel(posts'[j])
    BY <1>2, <2>2, PostMoves, SaveStays
  <2>4. restored
    BY <1>2, <1>t
  <2> QED
    BY <1>4, <1>6, <2>1, <2>3, <2>4
<1>21. ASSUME NEW i \in DOMAIN posts, Saved(i) PROVE Asked /\ Whole /\ Filled /\ Posted
  <2>1. UNCHANGED <<sel, restored, timer, behind>>
    BY <1>21 DEF Saved, chosen
  <2>2. form' = form \/ form' = Nothing
    BY <1>2, <1>21 DEF Saved, FormSaved, Closed, Mounted
  <2>8. asks' = asks \/ asks' = WithAsk(sel)
    BY <1>2, <1>21 DEF Saved, Show
  <2>9. rows' = rows \/ rows' = RowsTaken(posts[i])
    BY <1>2, <1>21 DEF Saved, Show, Usual, Coherent
  <2>3. rows' # Nothing => rows # Nothing /\ rows'.of = rows.of
    BY <1>t, <2>9, RowsTakenOK DEF PageTyped
  <2>4. \A j \in DOMAIN posts' : \E k \in DOMAIN posts : posts'[j] = posts[k]
    <3>1. posts' = Without(posts, i)
      BY <1>21 DEF Saved
    <3> QED
      BY <1>t, <3>1, WithoutOne
  <2>5. restored
    BY <1>2, <1>t
  <2>6. Posted
    BY <1>2, <2>1, <2>4, <2>5
  <2>7. Filled
    BY <1>2, <2>1, <2>2
  <2>10. CASE asks' = asks
    <3>1. Asked
      BY <1>3, <2>1, <2>10
    <3>2. Whole
      BY <1>2, <2>1, <2>3, <2>10 DEF Rest
    <3> QED
      BY <2>6, <2>7, <3>1, <3>2
  <2> QED
    BY <1>8, <2>1, <2>6, <2>7, <2>8, <2>10
<1>22. ~Mount /\ ~ConfirmAll /\ ~(\E f \in Field : Click(f)) /\ ~\E k \in Key : ChooseBranch(k)
  BY DEF Mount, ConfirmAll, Click, ChooseBranch, Usual, Coherent
<1>23. CASE \E k \in Key : Restore(k) \/ ChangeSelection(k) \/ ChooseBranch(k)
  BY <1>10, <1>11, <1>22, <1>23
<1> HIDE DEF OfSel, Whole, Posted, Asked, Filled
<1> QED
  BY <1>12, <1>13, <1>14, <1>15, <1>16, <1>17, <1>18, <1>19, <1>20, <1>21, <1>22, <1>23 DEF PageNext

\* Only the API stores, and only then can anything cross.
LEMMA CrossingStays ==
    ASSUME PageTyped, Usual, Truth, SavesAreOwn, CellTrue, NothingCrosses, [PageNext]_pageVars
    PROVE  NothingCrosses'
<1>0. view' = view /\ editor' = editor
  BY TraitsStay
<1>1. hasty => hasty'
  BY DEF PageNext, pageVars, user, Restore, ChangeSelection, TimerFires, Poll, Read, Arrive, Open,
         Abandon, Mount, ChooseBranch, Save, Type, Click, ConfirmAll, Apply, NextPart, Saved
<1>2. CASE crossed' = crossed
  BY <1>0, <1>1, <1>2 DEF NothingCrosses
<1>3. ASSUME NEW i \in DOMAIN posts, Apply(i), crossed' # crossed PROVE NothingCrosses'
  <2>1. posts[i].of # posts[i].to /\ Found(posts[i]) /\ hasty' = hasty
    BY <1>3 DEF Apply, served, user, PageTyped, ServedOK
  <2>2. editor.names = "selection" /\ editor.starts \in {"answer", "cell"}
    <3>1. ~NamesItsOwn
      BY <2>1 DEF SavesAreOwn
    <3>2. editor.names # "scoped"
      BY <2>1 DEF Found
    <3>3. editor.names \in {"selection", "scoped", "item"}
      BY Traits DEF PageTyped, Editors
    <3> QED
      BY <3>1, <3>2, <3>3 DEF NamesItsOwn
  <2>3. /\ editor.starts = "answer" => ~view.drops /\ ~view.polls /\ editor.then # "appends"
        /\ editor.starts = "cell" => ~view.clears
    BY <2>2 DEF Usual, Coherent
  <2>4. ASSUME ~hasty PROVE FALSE
    <3>1. CASE editor.starts = "answer"
      <4>1. Patient
        BY <2>3, <2>4, <3>1 DEF Patient, Truth, Astray
      <4> QED
        BY <2>1, <4>1, OneSave DEF Truth, SaveTrue
    <3>2. CASE editor.starts = "cell"
      BY <2>1, <2>4, <3>2 DEF CellTrue
    <3> QED
      BY <2>2, <3>1, <3>2
  <2> QED
    BY <1>0, <2>1, <2>2, <2>3, <2>4 DEF NothingCrosses
<1>4. (\E i \in DOMAIN posts : Apply(i)) \/ crossed' = crossed
  BY DEF PageNext, pageVars, served, Restore, ChangeSelection, TimerFires, Poll, Read, Arrive, Open,
         Abandon, Mount, ChooseBranch, Save, Type, Click, ConfirmAll, NextPart, Saved
<1> QED
  BY <1>2, <1>3, <1>4

\* The property NothingCrosses: on any page of apps/web, in any order of answers and
\* clicks, nothing that is read of one branch, court or day is saved to another by a
\* user who waits for the page; nor by one who does not, except in the settings tabs
\* that keep an overtaken answer and in the quick booking of a cell of the old day.
THEOREM NothingEverCrosses ==
    ASSUME Screens \subseteq AllScreens
    PROVE  PageSpec => []NothingCrosses
<1>1. PageInit => CellTrue /\ NothingCrosses
  <2> SUFFICES ASSUME PageInit PROVE CellTrue /\ NothingCrosses
    OBVIOUS
  <2>1. form = Nothing /\ rows = Nothing /\ posts = <<>> /\ ~crossed
    BY DEF PageInit
  <2>2. \A i \in DOMAIN asks : asks[i].of = sel
    BY DEF PageInit
  <2> QED
    BY <2>1, <2>2 DEF CellTrue, NothingCrosses
<1>2. /\ PageTyped /\ Usual /\ Truth /\ NoCrossing /\ (CellTrue /\ NothingCrosses) /\ [PageNext]_pageVars
      => (CellTrue /\ NothingCrosses)'
  BY CellStays, CrossingStays DEF NoCrossing
<1> QED
  BY <1>1, <1>2, PagesTyped, PagesAreUsual, PagesAreTrue, PagesNameTheirOwn, PTL DEF PageSpec
=============================================================================
