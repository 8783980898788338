------------------------------ MODULE Pricing ------------------------------
(***************************************************************************)
(* PricingService of apps/api/src, with the two readers of its prices: the *)
(* slots a customer is shown and the total a booking is charged.           *)
(*                                                                         *)
(* Time counts in slots: slot s of day d starts at d * Slots + s, and an   *)
(* hour is a slot.  Prices are in hundredths.  A change in progress holds  *)
(* the row it has read, and save(rule) writes that row whole.              *)
(***************************************************************************)
EXTENDS Integers, FiniteSets, FiniteSetsExt

CONSTANTS
    Court,
    VenueOf,        \* [Court -> venue]
    OwnerOf,        \* [venue -> owner]
    Days, Slots,    \* bounds of the days and of the slots in a day
    Draft,          \* what an owner may enter for a rule
    BasePrice,      \* prices per hour a court may have
    Minutes,        \* slot_duration_minutes
    MaxRule,        \* bound of the rules ever stored
    MaxCreate,      \* bound of those before an owner stops entering new ones
    Process,        \* changes by owners that may be in progress together
    Mixes           \* what may happen in one behaviour besides new rules: sets of the kinds below

Day == 0..(Days - 1)
Slot == 0..(Slots - 1)
Rule == 1..MaxRule
None == 0
Kind == {"update", "copy", "quote"}

ASSUME PricingAssumption ==
    /\ Days \in Nat \ {0} /\ Slots \in Nat /\ MaxRule \in Nat /\ MaxCreate \in Nat
    /\ Minutes \in Nat \ {0} /\ BasePrice \subseteq Nat
    /\ IsFiniteSet(Court) /\ None \notin Court
    /\ VenueOf \in [Court -> DOMAIN OwnerOf]
    /\ Mixes \subseteq SUBSET Kind

\* Days of the week are days here; None stands for null, and day d for date d + 1.
Entry == [days: SUBSET Day, from: Slot, to: 0..Slots, price: Nat, priority: Nat,
          advance: Nat, advancePrice: Nat, validFrom: 0..Days, validTo: 0..Days]
RuleRow == [entry: Entry, court: Court, made: Nat]
Absent == [court |-> None]

ASSUME DraftAssumption == Draft \subseteq Entry

VARIABLES
    rule,       \* [Rule -> row of pricing_rules, or Absent]
    used,       \* how many ids were given out
    clock,      \* transactions that inserted rules; stands for created_at
    base,       \* [Court -> price_per_hour]
    now,
    request,    \* [Process -> progress of a change]
    mix,        \* the kinds of this behaviour; never changes
    quote,      \* what a customer has seen and is charged
    stable,     \* history: no price changed and no slot began since the look
    copied      \* history: the last copy onto a court without rules, until the next change

rules == <<rule, used, clock>>
vars == <<rules, base, now, request, mix, quote, stable, copied>>

Idle == [pc |-> "idle"]
Progress ==
    {Idle} \cup [pc: {"update"}, id: Rule, row: RuleRow]
           \cup [pc: {"remove"}, id: Rule]
           \cup [pc: {"copy"}, entries: [Rule -> Entry \cup {Absent}],
                 courts: SUBSET Court, source: Court \cup {None}]

Looking == [pc: {"look", "seen", "book", "charged"}, court: Court, day: Day,
            slots: SUBSET Slot, todo: SUBSET Slot, shown: Nat, sum: Nat]

\* Every column, change in progress and quote holds a value of its type.
TypeOK ==
    /\ rule \in [Rule -> RuleRow \cup {Absent}]
    /\ \A r \in Rule : rule[r] # Absent => r <= used /\ rule[r].made <= clock
    /\ used \in 0..MaxRule /\ clock \in Nat
    /\ base \in [Court -> BasePrice]
    /\ now \in Nat
    /\ request \in [Process -> Progress]
    /\ mix \in Mixes
    /\ quote \in {Idle} \cup Looking
    /\ stable \in BOOLEAN
    /\ copied \in {Idle} \cup [from: Court, to: Court]

RulesOf(c) == {r \in Rule : rule[r].court = c}

Init ==
    /\ rule = [r \in Rule |-> Absent] /\ used = 0 /\ clock = 0
    /\ \E price \in BasePrice : base = [c \in Court |-> price]
    /\ now = 0
    /\ request = [p \in Process |-> Idle]
    /\ mix \in Mixes
    /\ quote = Idle /\ stable = TRUE /\ copied = Idle

-----------------------------------------------------------------------------
(* resolvePrice *)

Applies(e, d, s) ==
    /\ d \in e.days
    /\ e.from <= s /\ s < e.to
    /\ e.validFrom = None \/ e.validFrom <= d + 1
    /\ e.validTo = None \/ e.validTo >= d + 1

Matching(c, d, s) == {r \in RulesOf(c) : Applies(rule[r].entry, d, s)}

\* The comparison of the sort; rules it cannot tell apart stay in the order
\* the query returned them in, which is any order.
SortsBefore(a, b) ==
    \/ rule[a].entry.priority > rule[b].entry.priority
    \/ rule[a].entry.priority = rule[b].entry.priority /\ rule[a].made > rule[b].made

Selectable(c, d, s) ==
    {r \in Matching(c, d, s) : \A o \in Matching(c, d, s) : ~SortsBefore(o, r)}

HoursUntil(d, s) == d * Slots + s - now

RulePrice(e, d, s) ==
    IF e.advance # None /\ HoursUntil(d, s) >= e.advance /\ e.advancePrice # None
    THEN e.advancePrice ELSE e.price

\* What resolvePrice may return.
Resolvable(c, d, s) ==
    IF Matching(c, d, s) = {} THEN {base[c]}
    ELSE {RulePrice(rule[r].entry, d, s) : r \in Selectable(c, d, s)}

-----------------------------------------------------------------------------
(* Changes by the owner; calls for another owner's venue change nothing.   *)

Changed == stable' = FALSE /\ copied' = Idle

\* Mutant: the dates may be the wrong way round.
ValidTimes(e) == e.from < e.to

\* assertValid
Valid(e) ==
    /\ e.from < e.to
    /\ e.validFrom # None /\ e.validTo # None => e.validFrom <= e.validTo

\* save of new rules, one for each of these keys, in one transaction: all of
\* them get its time.
Insert(keys, RowOf(_)) ==
    /\ used + Cardinality(keys) <= MaxRule
    /\ clock' = clock + 1
    /\ used' = used + Cardinality(keys)
    /\ \E key \in [(used + 1)..used' -> keys] :
          /\ \A a, b \in DOMAIN key : key[a] = key[b] => a = b
          /\ rule' = [r \in Rule |->
                IF r \in DOMAIN key
                THEN [entry |-> RowOf(key[r]).entry, court |-> RowOf(key[r]).court, made |-> clock + 1]
                ELSE rule[r]]

(* create *)
CreateRule(c) ==
    /\ used < MaxCreate
    /\ \E e \in Draft : Valid(e) /\ Insert({e}, LAMBDA w : [entry |-> w, court |-> c])
    /\ Changed
    /\ UNCHANGED <<base, now, request, mix, quote>>

\* Mutant: the early-bird price is stored as what it takes off.
EditsAsDifference(row) == {[row EXCEPT !.advancePrice = e.advancePrice - row.price] : e \in Draft}

\* What a PATCH may make of a rule: a draft, or only a new beginning or a new
\* end of its window.
Edits(row) ==
    Draft
    \cup {[row EXCEPT !.from = e.from, !.validFrom = e.validFrom] : e \in Draft}
    \cup {[row EXCEPT !.to = e.to, !.validTo = e.validTo] : e \in Draft}

(* update reads the rule and checks the row as it will be ... *)
ReadForUpdate(p, r) ==
    /\ "update" \in mix /\ request[p] = Idle /\ rule[r] # Absent
    /\ \E e \in Edits(rule[r].entry) :
          /\ Valid(e)
          /\ request' = [request EXCEPT ![p] =
                [pc |-> "update", id |-> r, row |-> [rule[r] EXCEPT !.entry = e]]]
    /\ UNCHANGED <<rules, base, now, mix, quote, stable, copied>>

(* ... and saves it; a rule removed meanwhile is inserted again. *)
SaveUpdate(p) ==
    /\ request[p].pc = "update"
    /\ rule' = [rule EXCEPT ![request[p].id] = request[p].row]
    /\ request' = [request EXCEPT ![p] = Idle]
    /\ Changed
    /\ UNCHANGED <<used, clock, base, now, mix, quote>>

(* remove *)
ReadForRemove(p, r) ==
    /\ "update" \in mix /\ request[p] = Idle /\ rule[r] # Absent
    /\ request' = [request EXCEPT ![p] = [pc |-> "remove", id |-> r]]
    /\ UNCHANGED <<rules, base, now, mix, quote, stable, copied>>

RemoveRule(p) ==
    /\ request[p].pc = "remove"
    /\ rule' = [rule EXCEPT ![request[p].id] = Absent]
    /\ request' = [request EXCEPT ![p] = Idle]
    /\ Changed
    /\ UNCHANGED <<used, clock, base, now, mix, quote>>

\* Mutant: the copies hold for all dates.
UndatedEntriesOf(courts) ==
    [r \in Rule |-> IF rule[r].court \in courts
                    THEN [rule[r].entry EXCEPT !.validFrom = None, !.validTo = None] ELSE Absent]

EntriesOf(courts) ==
    [r \in Rule |-> IF rule[r].court \in courts THEN rule[r].entry ELSE Absent]

(* copyFrom reads the rules of another court of the owner, or of the same. *)
ReadForCopy(p, c, source) ==
    /\ "copy" \in mix /\ request[p] = Idle
    /\ OwnerOf[VenueOf[source]] = OwnerOf[VenueOf[c]]
    /\ request' = [request EXCEPT ![p] =
          [pc |-> "copy", entries |-> EntriesOf({source}), courts |-> {c}, source |-> source]]
    /\ UNCHANGED <<rules, base, now, mix, quote, stable, copied>>

CourtsOf(v) == {c \in Court : VenueOf[c] = v}

(* copyFromVenue: every rule of another venue, for every court of this one. *)
ReadForVenueCopy(p, v, source) ==
    /\ "copy" \in mix /\ request[p] = Idle
    /\ source # v /\ OwnerOf[source] = OwnerOf[v]
    /\ request' = [request EXCEPT ![p] =
          [pc |-> "copy", entries |-> EntriesOf(CourtsOf(source)), courts |-> CourtsOf(v),
           source |-> None]]
    /\ UNCHANGED <<rules, base, now, mix, quote, stable, copied>>

Copies(p) == {r \in Rule : request[p].entries[r] # Absent} \X request[p].courts

\* The target had no rules, and the source still has just those that were read.
IsFaithful(p, c) ==
    /\ request[p].source \notin {None, c} /\ RulesOf(c) = {}
    /\ request[p].entries = EntriesOf({request[p].source})

SaveCopies(p) ==
    /\ request[p].pc = "copy"
    /\ IF Copies(p) = {} THEN UNCHANGED rules
       ELSE Insert(Copies(p), LAMBDA w : [entry |-> request[p].entries[w[1]], court |-> w[2]])
    /\ stable' = FALSE
    /\ copied' = IF \E c \in request[p].courts : IsFaithful(p, c)
                 THEN [from |-> request[p].source, to |-> CHOOSE c \in request[p].courts : TRUE]
                 ELSE Idle
    /\ request' = [request EXCEPT ![p] = Idle]
    /\ UNCHANGED <<base, now, mix, quote>>

(* The owner changes a court's price per hour. *)
Reprice(c) ==
    /\ "quote" \in mix
    /\ \E price \in BasePrice \ {base[c]} : base' = [base EXCEPT ![c] = price]
    /\ stable' = FALSE
    /\ UNCHANGED <<rules, now, request, mix, quote, copied>>

-----------------------------------------------------------------------------
(* Readers of the prices. *)

\* Math.round to hundredths of n sixtieths of a hundredth.
Rounded(n) == (2 * n + 60) \div 120

Today == now \div Slots

(* A customer asks for the slots of a day, and picks some in a row. *)
Look(c, d) ==
    /\ "quote" \in mix
    /\ quote.pc \in {"idle", "seen", "charged"}
    /\ d >= Today
    /\ \E a, b \in Slot : a <= b /\ quote' =
          [pc |-> "look", court |-> c, day |-> d, slots |-> a..b, todo |-> a..b,
           shown |-> 0, sum |-> 0]
    /\ stable' = TRUE
    /\ UNCHANGED <<rules, base, now, request, mix, copied>>

FirstOf(slots) == Min(slots)

(* getSlotsForDate: each slot's price is resolved and rounded on its own. *)
ShowSlot ==
    /\ quote.pc = "look"
    /\ IF quote.todo = {} THEN quote' = [quote EXCEPT !.pc = "seen"]
       ELSE \E price \in Resolvable(quote.court, quote.day, FirstOf(quote.todo)) :
              quote' = [quote EXCEPT !.todo = @ \ {FirstOf(quote.todo)},
                                     !.shown = @ + Rounded(price * Minutes)]
    /\ UNCHANGED <<rules, base, now, request, mix, stable, copied>>

(* The customer books what was shown ... *)
Book ==
    /\ quote.pc = "seen" /\ quote.day >= Today
    /\ quote' = [quote EXCEPT !.pc = "book", !.todo = quote.slots]
    /\ UNCHANGED <<rules, base, now, request, mix, stable, copied>>

\* Mutant: every slot costs what its first one does.
ChargedSlot == FirstOf(quote.slots)

\* The slot whose price createBookingRecord resolves next.
PricedSlot == FirstOf(quote.todo)

(* ... and createBookingRecord adds up the slots, rounding at the end. *)
ChargeSlot ==
    /\ quote.pc = "book"
    /\ IF quote.todo = {} THEN quote' = [quote EXCEPT !.pc = "charged"]
       ELSE \E price \in Resolvable(quote.court, quote.day, PricedSlot) :
              quote' = [quote EXCEPT !.todo = @ \ {FirstOf(quote.todo)},
                                     !.sum = @ + price * Minutes]
    /\ UNCHANGED <<rules, base, now, request, mix, stable, copied>>

Tick ==
    /\ "quote" \in mix
    /\ now < Days * Slots
    /\ now' = now + 1
    /\ stable' = FALSE
    /\ UNCHANGED <<rules, base, request, mix, quote, copied>>

Next ==
    \/ \E c \in Court : CreateRule(c) \/ Reprice(c)
    \/ \E p \in Process :
          \/ \E r \in Rule : ReadForUpdate(p, r) \/ ReadForRemove(p, r)
          \/ SaveUpdate(p) \/ RemoveRule(p) \/ SaveCopies(p)
          \/ \E c, source \in Court : ReadForCopy(p, c, source)
          \/ \E v, source \in DOMAIN OwnerOf : ReadForVenueCopy(p, v, source)
    \/ \E c \in Court, d \in Day : Look(c, d)
    \/ ShowSlot \/ Book \/ ChargeSlot
    \/ Tick

Spec == Init /\ [][Next]_vars
-----------------------------------------------------------------------------

\* However updates overlap, no rule is stored whose window of the day or of
\* dates is empty: the owner would believe in a price that never applies.
RulesAreSound ==
    \A r \in Rule : rule[r] # Absent =>
        LET e == rule[r].entry IN
        /\ \E s \in Slot : e.from <= s /\ s < e.to
        /\ \E d \in Day : (e.validFrom = None \/ e.validFrom <= d + 1)
                       /\ (e.validTo = None \/ d + 1 <= e.validTo)

\* Rules of equal rank were created together; the code cannot tell them apart.
Tied(c, d, s) == Cardinality(Selectable(c, d, s)) > 1

\* A customer is charged what was shown, up to the rounding of each slot, when
\* no price changed and no slot began between the look and the booking.
SeenIsCharged ==
    quote.pc = "charged" /\ stable /\ (\A s \in quote.slots : ~Tied(quote.court, quote.day, s)) =>
        LET difference == Rounded(quote.sum) - quote.shown IN
        2 * Max({difference, -difference}) <= Cardinality(quote.slots) + 1

\* The copy of a court's rules onto a court without rules applies to the same
\* slots and may charge what the source charges; where no two rules of the
\* source share a priority it charges just that.
CopyMayChargeTheSame ==
    copied # Idle => \A d \in Day, s \in Slot :
        LET from == Matching(copied.from, d, s)
            source == Resolvable(copied.from, d, s)
            target == Resolvable(copied.to, d, s)
        IN  /\ Matching(copied.to, d, s) = {} <=> from = {}
            /\ from # {} => source \subseteq target
            /\ from # {} /\ (\A a, b \in from : rule[a].entry.priority = rule[b].entry.priority => a = b)
                  => source = target

\* As the design of the copy and of the tie-break has it: a copied price list
\* charges the same.
CopyChargesTheSame ==
    copied # Idle => \A d \in Day, s \in Slot :
        Matching(copied.from, d, s) # {} =>
            Resolvable(copied.to, d, s) = Resolvable(copied.from, d, s)
=============================================================================
