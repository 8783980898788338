--------------------------- MODULE PricingProofs ---------------------------
(***************************************************************************)
(* Proofs about module Pricing for every value of its constants.           *)
(***************************************************************************)
EXTENDS Pricing, FiniteSetTheorems, WellFoundedInduction, TLAPS

-----------------------------------------------------------------------------
(* The helpers *)

\* Min is the first of any slots.
LEMMA FirstIsLeast ==
    ASSUME NEW T, T \subseteq Nat, T # {}
    PROVE  FirstOf(T) \in T /\ \A y \in T : FirstOf(T) <= y
<1> DEFINE R == OpToRel(<, Nat)
<1>1. R = {ss \in Nat \X Nat : ss[1] < ss[2]}
  BY DEF OpToRel
<1>2. IsWellFoundedOn(R, Nat)
  BY NatLessThanWellFounded
<1> HIDE DEF R
<1>3. PICK x \in T : \A y \in T : ~ (<<y, x>> \in R)
  BY <1>2, WFMin
<1>4. ASSUME NEW y \in T PROVE x <= y
  <2>1. x \in Nat /\ y \in Nat /\ ~ (<<y, x>> \in R)
    BY <1>3
  <2>2. ~ (y < x)
    BY <2>1, <1>1
  <2> QED
    BY <2>1, <2>2
<1> QED
  BY <1>4 DEF FirstOf, Min

\* The first of the slots from one to another is the one they begin with, and
\* without it they begin with the next.
LEMMA FirstOfInterval ==
    ASSUME NEW i \in Nat, NEW b \in Nat, i <= b
    PROVE  /\ FirstOf(i .. b) = i
           /\ (i .. b) \ {i} = (i + 1) .. b
           /\ i .. b # {}
<1>1. i \in i .. b /\ i .. b \subseteq Nat
  OBVIOUS
<1>2. FirstOf(i .. b) \in i .. b /\ FirstOf(i .. b) <= i
  BY <1>1, FirstIsLeast
<1> QED
  BY <1>1, <1>2

\* Rounding moves an amount by at most half a hundredth.
LEMMA RoundedIsNear ==
    ASSUME NEW n \in Nat
    PROVE  /\ Rounded(n) \in Nat
           /\ 60 * Rounded(n) <= n + 30
           /\ n <= 60 * Rounded(n) + 30
  BY DEF Rounded

\* A row is absent when it has no court.
LEMMA RuleFields ==
    ASSUME TypeOK, NEW r \in Rule
    PROVE  /\ rule[r] = Absent <=> rule[r].court = None
           /\ rule[r] # Absent =>
                /\ rule[r] \in RuleRow
                /\ rule[r].entry \in Entry /\ rule[r].court \in Court /\ rule[r].made \in Nat
                /\ r <= used /\ rule[r].made <= clock
<1>1. rule[r] \in RuleRow \cup {Absent}
  BY DEF TypeOK
<1>2. ASSUME rule[r] \in RuleRow
      PROVE  rule[r].entry \in Entry /\ rule[r].court \in Court /\ rule[r].made \in Nat
  BY <1>2 DEF RuleRow
<1>3. rule[r] = Absent => rule[r].court = None
  BY DEF Absent
<1>4. rule[r] # Absent => r <= used /\ rule[r].made <= clock
  BY DEF TypeOK
<1> QED
  BY <1>1, <1>2, <1>3, <1>4, PricingAssumption

\* What a change in progress holds.
LEMMA RequestFields ==
    ASSUME TypeOK, NEW p \in Process
    PROVE  /\ request[p].pc = "update" => request[p].id \in Rule /\ request[p].row \in RuleRow
           /\ request[p].pc = "remove" => request[p].id \in Rule
           /\ request[p].pc = "copy" =>
                /\ request[p].entries \in [Rule -> Entry \cup {Absent}]
                /\ request[p].courts \subseteq Court
                /\ request[p].source \in Court \cup {None}
  BY DEF TypeOK, Progress, Idle

\* A draft, and a row with a draft's beginning or end, is an entry.
LEMMA EditsAreEntries ==
    ASSUME NEW row \in Entry, NEW e \in Edits(row)
    PROVE  e \in Entry
<1>1. CASE e \in Draft
  BY <1>1, DraftAssumption
<1>2. CASE \E f \in Draft : e = [row EXCEPT !.from = f.from, !.validFrom = f.validFrom]
  <2>1. PICK f \in Draft : e = [row EXCEPT !.from = f.from, !.validFrom = f.validFrom]
    BY <1>2
  <2>2. f \in Entry
    BY DraftAssumption
  <2> QED
    BY <2>1, <2>2 DEF Entry
<1>3. CASE \E f \in Draft : e = [row EXCEPT !.to = f.to, !.validTo = f.validTo]
  <2>1. PICK f \in Draft : e = [row EXCEPT !.to = f.to, !.validTo = f.validTo]
    BY <1>3
  <2>2. f \in Entry
    BY DraftAssumption
  <2> QED
    BY <2>1, <2>2 DEF Entry
<1> QED
  BY <1>1, <1>2, <1>3 DEF Edits

\* A copy is of finitely many rules for finitely many courts.
LEMMA CopiesAreFinite ==
    ASSUME TypeOK, NEW p \in Process, request[p].pc = "copy"
    PROVE  /\ IsFiniteSet(Copies(p)) /\ Copies(p) \subseteq Rule \X request[p].courts
           /\ Cardinality(Copies(p)) \in Nat
           /\ Copies(p) # {} => Cardinality(Copies(p)) > 0
<1> DEFINE read == {r \in Rule : request[p].entries[r] # Absent}
<1>1. MaxRule \in Nat
  BY PricingAssumption
<1>2. IsFiniteSet(Rule)
  BY <1>1, FS_Interval DEF Rule
<1>3. IsFiniteSet(read)
  BY <1>2, FS_Subset
<1>4. request[p].courts \subseteq Court
  BY RequestFields
<1>5. IsFiniteSet(request[p].courts)
  BY <1>4, PricingAssumption, FS_Subset
<1>6. Copies(p) = read \X request[p].courts
  BY DEF Copies
<1>7. IsFiniteSet(Copies(p))
  BY <1>3, <1>5, <1>6, FS_Product
<1>8. Cardinality(Copies(p)) \in Nat
  BY <1>7, FS_CardinalityType
<1>9. Cardinality(Copies(p)) = 0 <=> Copies(p) = {}
  BY <1>7, FS_EmptySet
<1> QED
  BY <1>6, <1>7, <1>8, <1>9

\* create stores one rule, under the next id.
LEMMA CreateInserts ==
    ASSUME TypeOK, NEW c \in Court, CreateRule(c)
    PROVE  \E e \in Draft :
              /\ Valid(e)
              /\ used + 1 <= MaxRule /\ used' = used + 1 /\ clock' = clock + 1
              /\ rule' = [r \in Rule |->
                    IF r = used + 1 THEN [entry |-> e, court |-> c, made |-> clock + 1] ELSE rule[r]]
<1>1. PICK e \in Draft : Valid(e) /\ Insert({e}, LAMBDA w : [entry |-> w, court |-> c])
  BY DEF CreateRule
<1>2. Cardinality({e}) = 1
  BY FS_Singleton
<1>3. used \in Nat
  BY DEF TypeOK
<1>4. used + 1 <= MaxRule /\ used' = used + 1 /\ clock' = clock + 1
  BY <1>1, <1>2 DEF Insert
<1>5. PICK key \in [(used + 1) .. used' -> {e}] :
          rule' = [r \in Rule |->
              IF r \in DOMAIN key
              THEN [entry |-> [entry |-> key[r], court |-> c].entry,
                    court |-> [entry |-> key[r], court |-> c].court, made |-> clock + 1]
              ELSE rule[r]]
  BY <1>1 DEF Insert
<1>6. \A r \in Rule : r \in DOMAIN key <=> r = used + 1
  BY <1>3, <1>4 DEF Rule
<1>7. \A r \in DOMAIN key : key[r] = e
  OBVIOUS
<1>8. rule' = [r \in Rule |->
          IF r = used + 1 THEN [entry |-> e, court |-> c, made |-> clock + 1] ELSE rule[r]]
  BY <1>5, <1>6, <1>7
<1> QED
  BY <1>1, <1>4, <1>8

\* A copy stores just one rule for every rule read and court, under new ids.
LEMMA CopiesInsert ==
    ASSUME TypeOK, NEW p \in Process, SaveCopies(p), Copies(p) # {}
    PROVE  /\ used' \in Nat /\ used < used' /\ used' <= MaxRule /\ clock' = clock + 1
           /\ \E key \in [(used + 1) .. used' -> Copies(p)] :
                /\ \A w \in Copies(p) : \E r \in (used + 1) .. used' : key[r] = w
                /\ rule' = [r \in Rule |->
                      IF r \in (used + 1) .. used'
                      THEN [entry |-> request[p].entries[key[r][1]], court |-> key[r][2],
                            made |-> clock + 1]
                      ELSE rule[r]]
<1> DEFINE new == (used + 1) .. used'
<1>1. request[p].pc = "copy"
  BY DEF SaveCopies
<1>2. /\ IsFiniteSet(Copies(p)) /\ Cardinality(Copies(p)) \in Nat
      /\ Cardinality(Copies(p)) > 0
  BY <1>1, CopiesAreFinite
<1>3. used \in Nat
  BY DEF TypeOK
<1>4. Insert(Copies(p), LAMBDA w : [entry |-> request[p].entries[w[1]], court |-> w[2]])
  BY DEF SaveCopies
<1>5. /\ used + Cardinality(Copies(p)) <= MaxRule /\ clock' = clock + 1
      /\ used' = used + Cardinality(Copies(p))
      /\ \E key \in [new -> Copies(p)] :
          /\ \A a, b \in DOMAIN key : key[a] = key[b] => a = b
          /\ rule' = [r \in Rule |->
                IF r \in DOMAIN key
                THEN [entry |-> request[p].entries[key[r][1]], court |-> key[r][2], made |-> clock + 1]
                ELSE rule[r]]
  BY <1>4 DEF Insert
<1>6. used' \in Nat /\ used < used' /\ used' <= MaxRule
  BY <1>2, <1>3, <1>5
<1>7. PICK key \in [new -> Copies(p)] :
          /\ \A a, b \in DOMAIN key : key[a] = key[b] => a = b
          /\ rule' = [r \in Rule |->
                IF r \in DOMAIN key
                THEN [entry |-> request[p].entries[key[r][1]], court |-> key[r][2], made |-> clock + 1]
                ELSE rule[r]]
  BY <1>5
<1>8. Cardinality(new) = Cardinality(Copies(p))
  BY <1>2, <1>3, <1>5, <1>6, FS_Interval
<1>9. key \in Injection(new, Copies(p))
  BY <1>7 DEF Injection, IsInjective
<1>10. key \in Surjection(new, Copies(p))
  BY <1>2, <1>8, <1>9, FS_Injection
<1>11. \A w \in Copies(p) : \E r \in new : key[r] = w
  BY <1>10 DEF Surjection
<1>12. DOMAIN key = new
  BY <1>7
<1> HIDE DEF new
<1>13. rule' = [r \in Rule |->
          IF r \in new
          THEN [entry |-> request[p].entries[key[r][1]], court |-> key[r][2], made |-> clock + 1]
          ELSE rule[r]]
  BY <1>7, <1>12
<1> QED
  BY <1>5, <1>6, <1>7, <1>11, <1>13 DEF new

-----------------------------------------------------------------------------
(* Types, and that every rule stored, or about to be, is a valid one *)

\* Rules have their types, ids and times that were given out, and are valid.
RulesFit ==
    /\ rule \in [Rule -> RuleRow \cup {Absent}]
    /\ used \in 0..MaxRule /\ clock \in Nat
    /\ \A r \in Rule : rule[r] # Absent =>
          r <= used /\ rule[r].made <= clock /\ Valid(rule[r].entry)

\* So is what a change holds, however old it is; a copy of one court's rules is
\* for one court.
RequestsFit ==
    /\ request \in [Process -> Progress]
    /\ \A p \in Process :
          /\ request[p].pc = "update" =>
                /\ request[p].id <= used /\ request[p].row.made <= clock
                /\ Valid(request[p].row.entry)
          /\ request[p].pc = "copy" =>
                /\ \A r \in Rule : request[p].entries[r] # Absent => Valid(request[p].entries[r])
                /\ request[p].source # None => \E c \in Court : request[p].courts = {c}

OthersFit ==
    /\ base \in [Court -> BasePrice]
    /\ now \in Nat
    /\ mix \in Mixes
    /\ quote \in {Idle} \cup Looking
    /\ stable \in BOOLEAN
    /\ copied \in {Idle} \cup [from: Court, to: Court]

RulesSound == RulesFit /\ RequestsFit /\ OthersFit

LEMMA SoundIsTyped == RulesSound => TypeOK
  BY DEF RulesSound, RulesFit, RequestsFit, OthersFit, TypeOK

\* Changes that were held stay fit when ids and times only grow.
LEMMA RequestsStayFit ==
    ASSUME RulesSound, UNCHANGED request, used' \in Nat, used <= used', clock' \in Nat, clock <= clock'
    PROVE  RequestsFit'
<1>1. used \in Nat /\ clock \in Nat
  BY DEF RulesSound, RulesFit, Rule
<1>2. ASSUME NEW p \in Process, request[p].pc = "update"
      PROVE  /\ request[p].id <= used' /\ request[p].row.made <= clock'
             /\ Valid(request[p].row.entry)
  <2>1. request[p].id \in Rule /\ request[p].row \in RuleRow
    BY <1>2, SoundIsTyped, RequestFields
  <2>2. request[p].id \in Nat /\ request[p].row.made \in Nat
    BY <2>1, PricingAssumption DEF Rule, RuleRow
  <2>3. /\ request[p].id <= used /\ request[p].row.made <= clock
        /\ Valid(request[p].row.entry)
    BY <1>2 DEF RulesSound, RequestsFit
  <2> QED
    BY <1>1, <2>2, <2>3
<1> QED
  BY <1>2 DEF RulesSound, RequestsFit

\* The same when one of them is over.
LEMMA RequestsEndFit ==
    ASSUME RulesSound, NEW p \in Process, request' = [request EXCEPT ![p] = Idle],
           used' \in Nat, used <= used', clock' \in Nat, clock <= clock'
    PROVE  RequestsFit'
<1>1. used \in Nat /\ clock \in Nat
  BY DEF RulesSound, RulesFit, Rule
<1>2. request' \in [Process -> Progress]
  BY DEF RulesSound, RequestsFit, Progress
<1>3. \A q \in Process : request'[q] = IF q = p THEN Idle ELSE request[q]
  BY DEF RulesSound, RequestsFit
<1>4. ASSUME NEW q \in Process, q # p, request[q].pc = "update"
      PROVE  /\ request[q].id <= used' /\ request[q].row.made <= clock'
             /\ Valid(request[q].row.entry)
  <2>1. request[q].id \in Rule /\ request[q].row \in RuleRow
    BY <1>4, SoundIsTyped, RequestFields
  <2>2. request[q].id \in Nat /\ request[q].row.made \in Nat
    BY <2>1, PricingAssumption DEF Rule, RuleRow
  <2>3. /\ request[q].id <= used /\ request[q].row.made <= clock
        /\ Valid(request[q].row.entry)
    BY <1>4 DEF RulesSound, RequestsFit
  <2> QED
    BY <1>1, <2>2, <2>3
<1> QED
  BY <1>2, <1>3, <1>4 DEF RulesSound, RequestsFit, Idle

\* Prices are natural numbers.
LEMMA PricesAreNat ==
    ASSUME RulesSound, NEW c \in Court, NEW d, NEW s, NEW price \in Resolvable(c, d, s)
    PROVE  price \in Nat
<1>1. CASE Matching(c, d, s) = {}
  BY <1>1, PricingAssumption DEF Resolvable, RulesSound, OthersFit
<1>2. CASE Matching(c, d, s) # {}
  <2>1. PICK r \in Selectable(c, d, s) : price = RulePrice(rule[r].entry, d, s)
    BY <1>2 DEF Resolvable
  <2>2. r \in Rule /\ rule[r].court = c
    BY <2>1 DEF Selectable, Matching, RulesOf
  <2>3. rule[r].entry \in Entry
    BY <2>2, SoundIsTyped, RuleFields, PricingAssumption
  <2>4. rule[r].entry.price \in Nat /\ rule[r].entry.advancePrice \in Nat
    BY <2>3 DEF Entry
  <2> QED
    BY <2>1, <2>4 DEF RulePrice
<1> QED
  BY <1>1, <1>2

LEMMA EntryIsNotAbsent == ASSUME NEW e \in Entry PROVE e # Absent
<1>1. "days" \in DOMAIN e
  BY DEF Entry
<1>2. DOMAIN Absent = {"court"}
  BY DEF Absent
<1> QED
  BY <1>1, <1>2

-----------------------------------------------------------------------------
(* The actions, one at a time *)

LEMMA CreateStep ==
    ASSUME RulesSound, NEW c \in Court, CreateRule(c)
    PROVE  RulesSound'
<1>1. PICK e \in Draft :
          /\ Valid(e)
          /\ used + 1 <= MaxRule /\ used' = used + 1 /\ clock' = clock + 1
          /\ rule' = [r \in Rule |->
                IF r = used + 1 THEN [entry |-> e, court |-> c, made |-> clock + 1] ELSE rule[r]]
  BY SoundIsTyped, CreateInserts
<1>2. e \in Entry
  BY DraftAssumption
<1>3. used \in Nat /\ clock \in Nat
  BY DEF RulesSound, RulesFit
<1> DEFINE row == [entry |-> e, court |-> c, made |-> clock + 1]
<1>4. row \in RuleRow /\ row.made = clock + 1 /\ row.entry = e
  BY <1>2, <1>3 DEF RuleRow
<1> HIDE DEF row
<1>5. rule' = [r \in Rule |-> IF r = used + 1 THEN row ELSE rule[r]]
  BY <1>1 DEF row
<1>6. RulesFit'
  <2>1. rule' \in [Rule -> RuleRow \cup {Absent}] /\ used' \in 0..MaxRule /\ clock' \in Nat
    BY <1>1, <1>3, <1>4, <1>5 DEF RulesSound, RulesFit
  <2>2. ASSUME NEW r \in Rule, rule'[r] # Absent
        PROVE  r <= used' /\ rule'[r].made <= clock' /\ Valid(rule'[r].entry)
    <3>1. CASE r = used + 1
      BY <1>1, <1>3, <1>4, <1>5, <3>1
    <3>2. CASE r # used + 1
      <4>1. rule'[r] = rule[r]
        BY <1>5, <3>2
      <4>2. r <= used /\ rule[r].made <= clock /\ Valid(rule[r].entry) /\ rule[r].made \in Nat
        BY <2>2, <4>1, SoundIsTyped, RuleFields DEF RulesSound, RulesFit
      <4> QED
        BY <1>1, <1>3, <4>1, <4>2 DEF Rule
    <3> QED
      BY <3>1, <3>2
  <2> QED
    BY <2>1, <2>2 DEF RulesFit
<1>7. RequestsFit'
  <2>1. UNCHANGED request
    BY DEF CreateRule
  <2> QED
    BY <1>1, <1>3, <2>1, RequestsStayFit
<1>8. OthersFit'
  BY DEF CreateRule, Changed, RulesSound, OthersFit
<1> QED
  BY <1>6, <1>7, <1>8 DEF RulesSound

LEMMA ReadForUpdateStep ==
    ASSUME RulesSound, NEW p \in Process, NEW r \in Rule, ReadForUpdate(p, r)
    PROVE  RulesSound'
<1>1. PICK e \in Edits(rule[r].entry) :
          /\ Valid(e)
          /\ request' = [request EXCEPT ![p] =
                [pc |-> "update", id |-> r, row |-> [rule[r] EXCEPT !.entry = e]]]
  BY DEF ReadForUpdate
<1> DEFINE row == [rule[r] EXCEPT !.entry = e]
           held == [pc |-> "update", id |-> r, row |-> row]
<1>2. /\ rule[r] \in RuleRow /\ rule[r].entry \in Entry /\ rule[r].made \in Nat
      /\ r <= used /\ rule[r].made <= clock
  BY SoundIsTyped, RuleFields DEF ReadForUpdate
<1>3. e \in Entry
  BY <1>2, EditsAreEntries
<1>4. row \in RuleRow /\ row.made = rule[r].made /\ row.entry = e
  BY <1>2, <1>3 DEF RuleRow
<1> HIDE DEF row
<1>5. held \in Progress /\ held.pc = "update" /\ held.id = r /\ held.row = row
  BY <1>4 DEF Progress
<1> HIDE DEF held
<1>6. request' = [request EXCEPT ![p] = held]
  BY <1>1 DEF held, row
<1>7. RequestsFit'
  <2>1. request' \in [Process -> Progress]
    BY <1>5, <1>6 DEF RulesSound, RequestsFit
  <2>2. \A q \in Process : request'[q] = IF q = p THEN held ELSE request[q]
    BY <1>6 DEF RulesSound, RequestsFit
  <2>3. used' = used /\ clock' = clock
    BY DEF ReadForUpdate, rules
  <2>4. held.id <= used' /\ held.row.made <= clock' /\ Valid(held.row.entry) /\ held.pc # "copy"
    BY <1>1, <1>2, <1>4, <1>5, <2>3
  <2>5. ASSUME NEW q \in Process
        PROVE  /\ request'[q].pc = "update" =>
                    /\ request'[q].id <= used' /\ request'[q].row.made <= clock'
                    /\ Valid(request'[q].row.entry)
               /\ request'[q].pc = "copy" =>
                    /\ \A o \in Rule : request'[q].entries[o] # Absent => Valid(request'[q].entries[o])
                    /\ request'[q].source # None => \E c \in Court : request'[q].courts = {c}
    <3>1. CASE q = p
      BY <2>2, <2>4, <3>1
    <3>2. CASE q # p
      BY <2>2, <2>3, <3>2 DEF RulesSound, RequestsFit
    <3> QED
      BY <3>1, <3>2
  <2> QED
    BY <2>1, <2>5 DEF RequestsFit
<1>8. RulesFit' /\ OthersFit'
  BY DEF ReadForUpdate, rules, RulesSound, RulesFit, OthersFit
<1> QED
  BY <1>7, <1>8 DEF RulesSound

LEMMA ReadForRemoveStep ==
    ASSUME RulesSound, NEW p \in Process, NEW r \in Rule, ReadForRemove(p, r)
    PROVE  RulesSound'
<1>1. [pc |-> "remove", id |-> r] \in Progress
  BY DEF Progress
<1>2. request' = [request EXCEPT ![p] = [pc |-> "remove", id |-> r]]
  BY DEF ReadForRemove
<1>3. RequestsFit'
  <2>1. request' \in [Process -> Progress]
    BY <1>1, <1>2 DEF RulesSound, RequestsFit
  <2>2. \A q \in Process : request'[q] = IF q = p THEN [pc |-> "remove", id |-> r] ELSE request[q]
    BY <1>2 DEF RulesSound, RequestsFit
  <2>3. used' = used /\ clock' = clock
    BY DEF ReadForRemove, rules
  <2> QED
    BY <2>1, <2>2, <2>3 DEF RulesSound, RequestsFit
<1>4. RulesFit' /\ OthersFit'
  BY DEF ReadForRemove, rules, RulesSound, RulesFit, OthersFit
<1> QED
  BY <1>3, <1>4 DEF RulesSound

LEMMA SaveUpdateStep ==
    ASSUME RulesSound, NEW p \in Process, SaveUpdate(p)
    PROVE  RulesSound'
<1> DEFINE id == request[p].id
           row == request[p].row
<1>1. request[p].pc = "update"
  BY DEF SaveUpdate
<1>2. id \in Rule /\ row \in RuleRow
  BY <1>1, SoundIsTyped, RequestFields
<1>3. id <= used /\ row.made <= clock /\ Valid(row.entry)
  BY <1>1 DEF RulesSound, RequestsFit
<1>4. rule' = [rule EXCEPT ![id] = row] /\ used' = used /\ clock' = clock
  BY DEF SaveUpdate
<1> HIDE DEF id, row
<1>5. RulesFit'
  <2>1. rule' \in [Rule -> RuleRow \cup {Absent}] /\ used' \in 0..MaxRule /\ clock' \in Nat
    BY <1>2, <1>4 DEF RulesSound, RulesFit
  <2>2. \A r \in Rule : rule'[r] = IF r = id THEN row ELSE rule[r]
    BY <1>4 DEF RulesSound, RulesFit
  <2> QED
    BY <1>3, <1>4, <2>1, <2>2 DEF RulesSound, RulesFit
<1>6. RequestsFit'
  <2>1. used' \in Nat /\ used <= used' /\ clock' \in Nat /\ clock <= clock'
    BY <1>4 DEF RulesSound, RulesFit
  <2> QED
    BY <2>1, RequestsEndFit DEF SaveUpdate
<1>7. OthersFit'
  BY DEF SaveUpdate, Changed, RulesSound, OthersFit
<1> QED
  BY <1>5, <1>6, <1>7 DEF RulesSound

LEMMA RemoveStep ==
    ASSUME RulesSound, NEW p \in Process, RemoveRule(p)
    PROVE  RulesSound'
<1> DEFINE id == request[p].id
<1>1. rule' = [rule EXCEPT ![id] = Absent] /\ used' = used /\ clock' = clock
  BY DEF RemoveRule
<1> HIDE DEF id
<1>2. RulesFit'
  <2>1. rule' \in [Rule -> RuleRow \cup {Absent}] /\ used' \in 0..MaxRule /\ clock' \in Nat
    BY <1>1 DEF RulesSound, RulesFit
  <2>2. \A r \in Rule : rule'[r] = IF r = id THEN Absent ELSE rule[r]
    BY <1>1 DEF RulesSound, RulesFit
  <2> QED
    BY <1>1, <2>1, <2>2 DEF RulesSound, RulesFit
<1>3. RequestsFit'
  <2>1. used' \in Nat /\ used <= used' /\ clock' \in Nat /\ clock <= clock'
    BY <1>1 DEF RulesSound, RulesFit
  <2> QED
    BY <2>1, RequestsEndFit DEF RemoveRule
<1>4. OthersFit'
  BY DEF RemoveRule, Changed, RulesSound, OthersFit
<1> QED
  BY <1>2, <1>3, <1>4 DEF RulesSound

LEMMA EntriesRead ==
    ASSUME RulesSound, NEW C \in SUBSET Court
    PROVE  /\ EntriesOf(C) \in [Rule -> Entry \cup {Absent}]
           /\ \A r \in Rule : EntriesOf(C)[r] # Absent <=> rule[r].court \in C
           /\ \A r \in Rule : EntriesOf(C)[r] # Absent =>
                 EntriesOf(C)[r] = rule[r].entry /\ Valid(EntriesOf(C)[r])
<1>1. ASSUME NEW r \in Rule, rule[r].court \in C
      PROVE  rule[r].entry \in Entry /\ rule[r].entry # Absent /\ Valid(rule[r].entry)
  <2>1. rule[r] # Absent
    BY <1>1, SoundIsTyped, RuleFields, PricingAssumption
  <2>2. rule[r].entry \in Entry
    BY <2>1, SoundIsTyped, RuleFields
  <2> QED
    BY <2>1, <2>2, EntryIsNotAbsent DEF RulesSound, RulesFit
<1> QED
  BY <1>1 DEF EntriesOf

LEMMA ReadForCopyStep ==
    ASSUME RulesSound, NEW p \in Process, NEW C \in SUBSET Court,
           NEW source \in Court \cup {None},
           source # None => \E c \in Court : C = {c},
           NEW S \in SUBSET Court,
           request' = [request EXCEPT ![p] =
              [pc |-> "copy", entries |-> EntriesOf(S), courts |-> C, source |-> source]],
           UNCHANGED <<rules, base, now, mix, quote, stable, copied>>
    PROVE  RulesSound'
<1> DEFINE entries == EntriesOf(S)
           held == [pc |-> "copy", entries |-> entries, courts |-> C, source |-> source]
<1>1. /\ entries \in [Rule -> Entry \cup {Absent}]
      /\ \A r \in Rule : entries[r] # Absent => Valid(entries[r])
  BY EntriesRead
<1> HIDE DEF entries
<1>2. /\ held \in Progress /\ held.pc = "copy" /\ held.entries = entries
      /\ held.courts = C /\ held.source = source
  BY <1>1 DEF Progress
<1> HIDE DEF held
<1>3. request' = [request EXCEPT ![p] = held]
  BY DEF held, entries
<1>4. RequestsFit'
  <2>1. request' \in [Process -> Progress]
    BY <1>2, <1>3 DEF RulesSound, RequestsFit
  <2>2. \A q \in Process : request'[q] = IF q = p THEN held ELSE request[q]
    BY <1>3 DEF RulesSound, RequestsFit
  <2>3. used' = used /\ clock' = clock
    BY DEF rules
  <2>4. ASSUME NEW q \in Process
        PROVE  /\ request'[q].pc = "update" =>
                    /\ request'[q].id <= used' /\ request'[q].row.made <= clock'
                    /\ Valid(request'[q].row.entry)
               /\ request'[q].pc = "copy" =>
                    /\ \A o \in Rule : request'[q].entries[o] # Absent => Valid(request'[q].entries[o])
                    /\ request'[q].source # None => \E c \in Court : request'[q].courts = {c}
    <3>1. CASE q = p
      BY <1>1, <1>2, <2>2, <3>1
    <3>2. CASE q # p
      BY <2>2, <2>3, <3>2 DEF RulesSound, RequestsFit
    <3> QED
      BY <3>1, <3>2
  <2> QED
    BY <2>1, <2>4 DEF RequestsFit
<1>5. RulesFit' /\ OthersFit'
  BY DEF rules, RulesSound, RulesFit, OthersFit
<1> QED
  BY <1>4, <1>5 DEF RulesSound

LEMMA ReadForCopyIsFit ==
    ASSUME RulesSound, NEW p \in Process, NEW c \in Court, NEW source \in Court,
           ReadForCopy(p, c, source)
    PROVE  RulesSound'
<1>1. /\ request' = [request EXCEPT ![p] =
            [pc |-> "copy", entries |-> EntriesOf({source}), courts |-> {c}, source |-> source]]
      /\ UNCHANGED <<rules, base, now, mix, quote, stable, copied>>
  BY DEF ReadForCopy
<1>2. {c} \in SUBSET Court /\ {source} \in SUBSET Court /\ source \in Court \cup {None}
  OBVIOUS
<1>3. \E k \in Court : {c} = {k}
  OBVIOUS
<1> QED
  BY <1>1, <1>2, <1>3, ReadForCopyStep

LEMMA ReadForVenueCopyIsFit ==
    ASSUME RulesSound, NEW p \in Process, NEW v, NEW source, ReadForVenueCopy(p, v, source)
    PROVE  RulesSound'
<1>1. /\ request' = [request EXCEPT ![p] =
            [pc |-> "copy", entries |-> EntriesOf(CourtsOf(source)), courts |-> CourtsOf(v),
             source |-> None]]
      /\ UNCHANGED <<rules, base, now, mix, quote, stable, copied>>
  BY DEF ReadForVenueCopy
<1>2. CourtsOf(source) \in SUBSET Court /\ CourtsOf(v) \in SUBSET Court
  BY DEF CourtsOf
<1> QED
  BY <1>1, <1>2, ReadForCopyStep

\* What copies are written: rows of entries that were read, for courts asked for.
LEMMA CopiesWritten ==
    ASSUME RulesSound, NEW p \in Process, SaveCopies(p), Copies(p) # {}
    PROVE  /\ used' \in Nat /\ used < used' /\ used' <= MaxRule /\ clock' = clock + 1
           /\ \A r \in Rule : r \notin (used + 1) .. used' => rule'[r] = rule[r]
           /\ \A r \in (used + 1) .. used' :
                 /\ r \in Rule
                 /\ rule'[r] \in RuleRow /\ rule'[r].made = clock + 1 /\ Valid(rule'[r].entry)
                 /\ rule'[r].court \in request[p].courts
                 /\ \E o \in Rule : /\ request[p].entries[o] # Absent
                                    /\ rule'[r].entry = request[p].entries[o]
           /\ \A o \in Rule, c \in request[p].courts : request[p].entries[o] # Absent =>
                 \E r \in (used + 1) .. used' :
                     rule'[r].entry = request[p].entries[o] /\ rule'[r].court = c
           /\ rule' \in [Rule -> RuleRow \cup {Absent}]
<1> DEFINE new == (used + 1) .. used'
           row(w) == [entry |-> request[p].entries[w[1]], court |-> w[2], made |-> clock + 1]
<1>1. /\ used' \in Nat /\ used < used' /\ used' <= MaxRule /\ clock' = clock + 1
      /\ \E key \in [new -> Copies(p)] :
            /\ \A w \in Copies(p) : \E r \in new : key[r] = w
            /\ rule' = [r \in Rule |->
                  IF r \in new
                  THEN [entry |-> request[p].entries[key[r][1]], court |-> key[r][2],
                        made |-> clock + 1]
                  ELSE rule[r]]
  BY SoundIsTyped, CopiesInsert
<1>2. PICK key \in [new -> Copies(p)] :
            /\ \A w \in Copies(p) : \E r \in new : key[r] = w
            /\ rule' = [r \in Rule |->
                  IF r \in new
                  THEN [entry |-> request[p].entries[key[r][1]], court |-> key[r][2],
                        made |-> clock + 1]
                  ELSE rule[r]]
  BY <1>1
<1>3. rule' = [r \in Rule |-> IF r \in new THEN row(key[r]) ELSE rule[r]]
  BY <1>2
<1>4. request[p].pc = "copy" /\ used \in Nat /\ clock \in Nat
  <2>1. request[p].pc = "copy"
    BY DEF SaveCopies
  <2> QED
    BY <2>1 DEF RulesSound, RulesFit
<1>5. new \subseteq Rule
  BY <1>1, <1>4, PricingAssumption DEF Rule
<1>6. ASSUME NEW w \in Copies(p)
      PROVE  /\ row(w) \in RuleRow /\ row(w).made = clock + 1 /\ Valid(row(w).entry)
             /\ w[1] \in Rule /\ w[2] \in request[p].courts
             /\ request[p].entries[w[1]] # Absent
             /\ row(w).court = w[2] /\ row(w).entry = request[p].entries[w[1]]
  <2>1. /\ w[1] \in Rule /\ w[2] \in request[p].courts
        /\ request[p].entries[w[1]] # Absent
    BY DEF Copies
  <2>2. request[p].entries[w[1]] \in Entry /\ w[2] \in Court
    BY <1>4, <2>1, SoundIsTyped, RequestFields
  <2>3. Valid(request[p].entries[w[1]])
    BY <1>4, <2>1 DEF RulesSound, RequestsFit
  <2> QED
    BY <1>4, <2>1, <2>2, <2>3 DEF RuleRow
<1>7. \A r \in new : key[r] \in Copies(p)
  OBVIOUS
<1>8. ASSUME NEW o \in Rule, NEW c \in request[p].courts, request[p].entries[o] # Absent
      PROVE  \E r \in new : key[r] = <<o, c>>
  BY <1>2, <1>8 DEF Copies
<1> HIDE DEF new, row
<1>9. /\ \A r \in Rule : r \notin new => rule'[r] = rule[r]
      /\ \A r \in new : rule'[r] = row(key[r])
  BY <1>3, <1>5
<1>10. ASSUME NEW r \in new
       PROVE  /\ rule'[r] \in RuleRow /\ rule'[r].made = clock + 1 /\ Valid(rule'[r].entry)
              /\ rule'[r].court \in request[p].courts
              /\ \E o \in Rule : /\ request[p].entries[o] # Absent
                                 /\ rule'[r].entry = request[p].entries[o]
  <2>1. PICK w \in Copies(p) : w = key[r]
    BY <1>7
  <2>2. rule'[r] = row(w)
    BY <1>9, <2>1
  <2> QED
    BY <1>6, <2>2
<1>11. ASSUME NEW o \in Rule, NEW c \in request[p].courts, request[p].entries[o] # Absent
       PROVE  \E r \in new : rule'[r].entry = request[p].entries[o] /\ rule'[r].court = c
  <2>1. PICK r \in new : key[r] = <<o, c>>
    BY <1>8, <1>11
  <2>2. <<o, c>> \in Copies(p)
    BY <1>7, <2>1
  <2>3. rule'[r] = row(<<o, c>>)
    BY <1>9, <2>1
  <2>4. row(<<o, c>>).court = c /\ row(<<o, c>>).entry = request[p].entries[o]
    BY <1>6, <2>2
  <2> QED
    BY <2>3, <2>4
<1>12. rule' \in [Rule -> RuleRow \cup {Absent}]
  <2>1. \A r \in Rule : rule'[r] \in RuleRow \cup {Absent}
    BY <1>9, <1>10 DEF RulesSound, RulesFit
  <2> QED
    BY <1>3, <2>1
<1> QED
  BY <1>1, <1>5, <1>9, <1>10, <1>11, <1>12 DEF new

LEMMA SaveCopiesStep ==
    ASSUME RulesSound, NEW p \in Process, SaveCopies(p)
    PROVE  RulesSound'
<1>1. RulesFit' /\ used' \in Nat /\ used <= used' /\ clock' \in Nat /\ clock <= clock'
  <2>1. CASE Copies(p) = {}
    <3>1. UNCHANGED rules
      BY <2>1 DEF SaveCopies
    <3> QED
      BY <3>1 DEF rules, RulesSound, RulesFit
  <2>2. CASE Copies(p) # {}
    <3> DEFINE new == (used + 1) .. used'
    <3>1. /\ used' \in Nat /\ used < used' /\ used' <= MaxRule /\ clock' = clock + 1
          /\ rule' \in [Rule -> RuleRow \cup {Absent}]
          /\ \A r \in Rule : r \notin new => rule'[r] = rule[r]
          /\ \A r \in new : rule'[r].made = clock + 1 /\ Valid(rule'[r].entry)
      BY <2>2, CopiesWritten
    <3>2. used \in Nat /\ clock \in Nat
      BY DEF RulesSound, RulesFit
    <3>3. ASSUME NEW r \in Rule, rule'[r] # Absent
          PROVE  r <= used' /\ rule'[r].made <= clock' /\ Valid(rule'[r].entry)
      <4>1. CASE r \in new
        BY <3>1, <3>2, <4>1
      <4>2. CASE r \notin new
        <5>1. rule'[r] = rule[r]
          BY <3>1, <4>2
        <5>2. r <= used /\ rule[r].made <= clock /\ Valid(rule[r].entry) /\ rule[r].made \in Nat
          BY <3>3, <5>1, SoundIsTyped, RuleFields DEF RulesSound, RulesFit
        <5> QED
          BY <3>1, <3>2, <5>1, <5>2 DEF Rule
      <4> QED
        BY <4>1, <4>2
    <3> QED
      BY <3>1, <3>2, <3>3 DEF RulesFit
  <2> QED
    BY <2>1, <2>2
<1>2. RequestsFit'
  <2>1. request' = [request EXCEPT ![p] = Idle]
    BY DEF SaveCopies
  <2> QED
    BY <1>1, <2>1, RequestsEndFit
<1>3. OthersFit'
  <2>1. copied' \in {Idle} \cup [from: Court, to: Court]
    <3>1. CASE \E c \in request[p].courts : IsFaithful(p, c)
      <4>1. PICK c \in request[p].courts : IsFaithful(p, c)
        BY <3>1
      <4>2. request[p].pc = "copy"
        BY DEF SaveCopies
      <4>3. request[p].source # None /\ request[p].courts \subseteq Court /\ request[p].source \in Court
        BY <4>1, <4>2, SoundIsTyped, RequestFields DEF IsFaithful
      <4>4. (CHOOSE k \in request[p].courts : TRUE) \in Court
        BY <4>1, <4>3
      <4>5. copied' = [from |-> request[p].source, to |-> CHOOSE k \in request[p].courts : TRUE]
        BY <3>1 DEF SaveCopies
      <4> QED
        BY <4>3, <4>4, <4>5
    <3>2. CASE ~ \E c \in request[p].courts : IsFaithful(p, c)
      BY <3>2 DEF SaveCopies
    <3> QED
      BY <3>1, <3>2
  <2>2. stable' = FALSE /\ UNCHANGED <<base, now, mix, quote>>
    BY DEF SaveCopies
  <2> QED
    BY <2>1, <2>2 DEF RulesSound, OthersFit
<1> QED
  BY <1>1, <1>2, <1>3 DEF RulesSound

\* A quote in progress.
LEMMA QuoteFields ==
    ASSUME RulesSound, quote.pc # "idle"
    PROVE  /\ quote \in Looking
           /\ quote.pc \in {"look", "seen", "book", "charged"}
           /\ quote.court \in Court /\ quote.day \in Day
           /\ quote.slots \subseteq Slot /\ quote.todo \subseteq Slot
           /\ quote.shown \in Nat /\ quote.sum \in Nat
<1>1. quote \in Looking
  BY DEF RulesSound, OthersFit, Idle
<1> QED
  BY <1>1 DEF Looking

\* What a reader of the prices does leaves rules and changes as they are.
LEMMA ReaderStep ==
    ASSUME RulesSound, quote' \in Looking, stable' \in BOOLEAN,
           UNCHANGED <<rules, base, now, request, mix, copied>>
    PROVE  RulesSound'
<1>1. RulesFit' /\ RequestsFit' /\ OthersFit'
  BY DEF rules, RulesSound, RulesFit, RequestsFit, OthersFit
<1> QED
  BY <1>1 DEF RulesSound

LEMMA AmountsAreNat ==
    ASSUME NEW price \in Nat
    PROVE  price * Minutes \in Nat /\ Rounded(price * Minutes) \in Nat
<1>1. price * Minutes \in Nat
  BY PricingAssumption
<1> QED
  BY <1>1, RoundedIsNear

LEMMA ReadersAreSound ==
    ASSUME RulesSound,
           (\E c \in Court, d \in Day : Look(c, d)) \/ ShowSlot \/ Book \/ ChargeSlot
    PROVE  RulesSound'
<1>1. ASSUME NEW c \in Court, NEW d \in Day, Look(c, d) PROVE RulesSound'
  <2>1. PICK a \in Slot, b \in Slot : quote' =
          [pc |-> "look", court |-> c, day |-> d, slots |-> a..b, todo |-> a..b,
           shown |-> 0, sum |-> 0]
    BY <1>1 DEF Look
  <2>2. a .. b \subseteq Slot
    BY PricingAssumption DEF Slot
  <2>3. quote' \in Looking
    BY <2>1, <2>2 DEF Looking
  <2> QED
    BY <1>1, <2>3, ReaderStep DEF Look
<1>2. CASE ShowSlot
  <2>1. quote.pc = "look"
    BY <1>2 DEF ShowSlot
  <2>2. quote' \in Looking
    <3>1. CASE quote.todo = {}
      BY <1>2, <2>1, <3>1, QuoteFields DEF ShowSlot, Looking
    <3>2. CASE quote.todo # {}
      <4> DEFINE s == FirstOf(quote.todo)
      <4>1. PICK price \in Resolvable(quote.court, quote.day, s) :
              quote' = [quote EXCEPT !.todo = @ \ {s}, !.shown = @ + Rounded(price * Minutes)]
        BY <1>2, <3>2 DEF ShowSlot
      <4>2. Rounded(price * Minutes) \in Nat
        BY <2>1, <4>1, QuoteFields, PricesAreNat, AmountsAreNat
      <4> DEFINE rest == quote.todo \ {s}
                 total == quote.shown + Rounded(price * Minutes)
      <4>3. quote \in Looking /\ rest \subseteq Slot /\ total \in Nat
        BY <2>1, <4>2, QuoteFields
      <4>4. quote' = [quote EXCEPT !.todo = rest, !.shown = total]
        BY <4>1
      <4> HIDE DEF s, rest, total
      <4> QED
        BY <4>3, <4>4 DEF Looking
    <3> QED
      BY <3>1, <3>2
  <2> QED
    BY <1>2, <2>2, ReaderStep DEF ShowSlot, RulesSound, OthersFit
<1>3. CASE Book
  <2>1. quote.pc = "seen" /\ quote' = [quote EXCEPT !.pc = "book", !.todo = quote.slots]
    BY <1>3 DEF Book
  <2>2. quote' \in Looking
    BY <2>1, QuoteFields DEF Looking
  <2> QED
    BY <1>3, <2>2, ReaderStep DEF Book, RulesSound, OthersFit
<1>4. CASE ChargeSlot
  <2>1. quote.pc = "book"
    BY <1>4 DEF ChargeSlot
  <2>2. quote' \in Looking
    <3>1. CASE quote.todo = {}
      BY <1>4, <2>1, <3>1, QuoteFields DEF ChargeSlot, Looking
    <3>2. CASE quote.todo # {}
      <4> DEFINE s == FirstOf(quote.todo)
      <4>1. PICK price \in Resolvable(quote.court, quote.day, PricedSlot) :
              quote' = [quote EXCEPT !.todo = @ \ {s}, !.sum = @ + price * Minutes]
        BY <1>4, <3>2 DEF ChargeSlot
      <4>2. price * Minutes \in Nat
        BY <2>1, <4>1, QuoteFields, PricesAreNat, AmountsAreNat
      <4> DEFINE rest == quote.todo \ {s}
                 total == quote.sum + price * Minutes
      <4>3. quote \in Looking /\ rest \subseteq Slot /\ total \in Nat
        BY <2>1, <4>2, QuoteFields
      <4>4. quote' = [quote EXCEPT !.todo = rest, !.sum = total]
        BY <4>1
      <4> HIDE DEF s, rest, total
      <4> QED
        BY <4>3, <4>4 DEF Looking
    <3> QED
      BY <3>1, <3>2
  <2> QED
    BY <1>4, <2>2, ReaderStep DEF ChargeSlot, RulesSound, OthersFit
<1> QED
  BY <1>1, <1>2, <1>3, <1>4

LEMMA RepriceStep ==
    ASSUME RulesSound, NEW c \in Court, Reprice(c)
    PROVE  RulesSound'
<1>1. PICK price \in BasePrice : base' = [base EXCEPT ![c] = price]
  BY DEF Reprice
<1>2. base' \in [Court -> BasePrice]
  BY <1>1 DEF RulesSound, OthersFit
<1>3. RulesFit' /\ RequestsFit'
  BY DEF Reprice, rules, RulesSound, RulesFit, RequestsFit
<1>4. OthersFit'
  BY <1>2 DEF Reprice, RulesSound, OthersFit
<1> QED
  BY <1>3, <1>4 DEF RulesSound

LEMMA TickStep ==
    ASSUME RulesSound, Tick
    PROVE  RulesSound'
<1>0. now' \in Nat
  BY DEF Tick, RulesSound, OthersFit
<1>1. now' \in Nat /\ stable' \in BOOLEAN /\ UNCHANGED <<rules, base, request, mix, quote, copied>>
  BY <1>0 DEF Tick
<1>2. RulesFit' /\ RequestsFit' /\ OthersFit'
  BY <1>1 DEF rules, RulesSound, RulesFit, RequestsFit, OthersFit
<1> QED
  BY <1>2 DEF RulesSound

\* Every column holds a value of its type, and every rule stored or held by a
\* change is one that assertValid lets through, however changes overlap.
THEOREM PricingTypeCorrect == Spec => []RulesSound
<1>1. Init => RulesSound
  <2> SUFFICES ASSUME Init PROVE RulesSound
    OBVIOUS
  <2>1. RulesFit
    BY PricingAssumption DEF Init, RulesFit
  <2>2. RequestsFit
    BY DEF Init, RequestsFit, Progress, Idle
  <2>3. OthersFit
    BY DEF Init, OthersFit
  <2> QED
    BY <2>1, <2>2, <2>3 DEF RulesSound
<1>2. RulesSound /\ [Next]_vars => RulesSound'
  <2> SUFFICES ASSUME RulesSound, [Next]_vars PROVE RulesSound'
    OBVIOUS
  <2>1. ASSUME NEW c \in Court, CreateRule(c) \/ Reprice(c) PROVE RulesSound'
    BY <2>1, CreateStep, RepriceStep
  <2>2. ASSUME NEW p \in Process, NEW r \in Rule, ReadForUpdate(p, r) \/ ReadForRemove(p, r)
        PROVE  RulesSound'
    BY <2>2, ReadForUpdateStep, ReadForRemoveStep
  <2>3. ASSUME NEW p \in Process, SaveUpdate(p) \/ RemoveRule(p) \/ SaveCopies(p)
        PROVE  RulesSound'
    BY <2>3, SaveUpdateStep, RemoveStep, SaveCopiesStep
  <2>4. ASSUME NEW p \in Process, NEW c \in Court, NEW source \in Court, ReadForCopy(p, c, source)
        PROVE  RulesSound'
    BY <2>4, ReadForCopyIsFit
  <2>5. ASSUME NEW p \in Process, NEW v \in DOMAIN OwnerOf, NEW source \in DOMAIN OwnerOf,
               ReadForVenueCopy(p, v, source)
        PROVE  RulesSound'
    BY <2>5, ReadForVenueCopyIsFit
  <2>6. CASE UNCHANGED vars
    BY <2>6 DEF vars, rules, RulesSound, RulesFit, RequestsFit, OthersFit
  <2> QED
    BY <2>1, <2>2, <2>3, <2>4, <2>5, <2>6, ReadersAreSound, TickStep DEF Next
<1> QED
  BY <1>1, <1>2, PTL DEF Spec

\* A valid entry holds in some slot of the day and on some day.
LEMMA ValidApplies ==
    ASSUME NEW e \in Entry, Valid(e)
    PROVE  /\ \E s \in Slot : e.from <= s /\ s < e.to
           /\ \E d \in Day : (e.validFrom = None \/ e.validFrom <= d + 1)
                          /\ (e.validTo = None \/ d + 1 <= e.validTo)
<1>1. /\ e.from \in Slot /\ e.to \in 0..Slots
      /\ e.validFrom \in 0..Days /\ e.validTo \in 0..Days
      /\ Days \in Nat \ {0} /\ Slots \in Nat
  BY PricingAssumption DEF Entry
<1>2. e.from <= e.from /\ e.from < e.to
  BY <1>1 DEF Valid, Slot
<1>3. ASSUME e.validFrom = None
      PROVE  \E d \in Day : (e.validFrom = None \/ e.validFrom <= d + 1)
                         /\ (e.validTo = None \/ d + 1 <= e.validTo)
  <2>1. 0 \in Day
    BY <1>1 DEF Day
  <2>2. e.validTo = None \/ 0 + 1 <= e.validTo
    BY <1>1 DEF None
  <2> QED
    BY <1>3, <2>1, <2>2
<1>4. ASSUME e.validFrom # None
      PROVE  \E d \in Day : (e.validFrom = None \/ e.validFrom <= d + 1)
                         /\ (e.validTo = None \/ d + 1 <= e.validTo)
  <2> DEFINE d == e.validFrom - 1
  <2>1. d \in Day /\ e.validFrom <= d + 1
    BY <1>1, <1>4 DEF Day, None
  <2>2. e.validTo = None \/ d + 1 <= e.validTo
    BY <1>1, <1>4 DEF Valid, None
  <2> QED
    BY <2>1, <2>2
<1> QED
  BY <1>1, <1>2, <1>3, <1>4

\* The property RulesAreSound: whatever drafts there are and however updates
\* of one rule overlap, with removals and copies, no rule is stored whose
\* window is empty, because each save writes a whole row that was checked whole.
THEOREM OverlappingUpdatesStaySound == Spec => []RulesAreSound
<1>1. RulesSound => RulesAreSound
  <2> SUFFICES ASSUME RulesSound, NEW r \in Rule, rule[r] # Absent
               PROVE  LET e == rule[r].entry IN
                      /\ \E s \in Slot : e.from <= s /\ s < e.to
                      /\ \E d \in Day : (e.validFrom = None \/ e.validFrom <= d + 1)
                                     /\ (e.validTo = None \/ d + 1 <= e.validTo)
    BY DEF RulesAreSound
  <2>1. rule[r].entry \in Entry
    BY SoundIsTyped, RuleFields
  <2>2. Valid(rule[r].entry)
    BY DEF RulesSound, RulesFit
  <2> QED
    BY <2>1, <2>2, ValidApplies
<1> QED
  BY <1>1, PricingTypeCorrect, PTL

-----------------------------------------------------------------------------
(* What is shown and what is charged                                       *)
(*                                                                         *)
(* Slots a .. b are quoted, in their order.  P are the prices they have, A *)
(* and B what the slots before each of them add up to: in A rounded one by *)
(* one, as shown, in B not at all.                                         *)

Sums(P, A, B, a, i) ==
    /\ A[a] = 0 /\ B[a] = 0
    /\ \A s \in a..(i - 1) :
          /\ A[s + 1] = A[s] + Rounded(P[s] * Minutes)
          /\ B[s + 1] = B[s] + P[s] * Minutes
    /\ \A s \in a..i :
          60 * A[s] <= B[s] + 30 * (s - a) /\ B[s] <= 60 * A[s] + 30 * (s - a)

Prices(P, c, d, a, i) == \A s \in a..(i - 1) : P[s] \in Resolvable(c, d, s)

\* The quote says what it says of prices that still hold.
Undisputed(c, d, a, b) == stable /\ \A s \in a..b : ~Tied(c, d, s)

\* Slots from a to i are shown, and slots from a to j charged.
QuoteAt(a, b, i, j) ==
    /\ a <= j /\ j <= i /\ i <= b + 1
    /\ quote.slots = a..b
    /\ quote.pc = "look" => quote.todo = i..b /\ j = a
    /\ quote.pc = "seen" => i = b + 1 /\ j = a
    /\ quote.pc = "book" => i = b + 1 /\ quote.todo = j..b
    /\ quote.pc = "charged" => i = b + 1 /\ j = b + 1

QuoteAddsUp(a, b, i, j) ==
    Undisputed(quote.court, quote.day, a, b) =>
        \E P \in [Slot -> Nat], A \in [Nat -> Nat], B \in [Nat -> Nat] :
            /\ Sums(P, A, B, a, i) /\ Prices(P, quote.court, quote.day, a, i)
            /\ quote.shown = A[i] /\ quote.sum = B[j]

QuoteFits ==
    quote.pc # "idle" =>
        \E a, b \in Slot, i, j \in Nat : QuoteAt(a, b, i, j) /\ QuoteAddsUp(a, b, i, j)

\* The prices are those of the rules, the court and the time.
LEMMA SamePrices ==
    ASSUME UNCHANGED <<rule, base, now>>, NEW c, NEW d, NEW s
    PROVE  /\ Resolvable(c, d, s)' = Resolvable(c, d, s)
           /\ Tied(c, d, s)' <=> Tied(c, d, s)
<1>1. Matching(c, d, s)' = Matching(c, d, s)
  BY DEF Matching, RulesOf, Applies
<1>2. Selectable(c, d, s)' = Selectable(c, d, s)
  BY <1>1 DEF Selectable, SortsBefore
<1>3. Resolvable(c, d, s)' = Resolvable(c, d, s)
  BY <1>1, <1>2 DEF Resolvable, RulePrice, HoursUntil
<1> QED
  BY <1>2, <1>3 DEF Tied

\* A slot without tied rules has one price.
LEMMA OnePrice ==
    ASSUME RulesSound, NEW c, NEW d, NEW s, ~Tied(c, d, s),
           NEW x \in Resolvable(c, d, s), NEW y \in Resolvable(c, d, s)
    PROVE  x = y
<1>1. CASE Matching(c, d, s) = {}
  BY <1>1 DEF Resolvable
<1>2. CASE Matching(c, d, s) # {}
  <2>1. MaxRule \in Nat
    BY PricingAssumption
  <2>2. IsFiniteSet(Rule)
    BY <2>1, FS_Interval DEF Rule
  <2>3. Selectable(c, d, s) \in SUBSET Rule
    BY DEF Selectable, Matching, RulesOf
  <2>4. IsFiniteSet(Selectable(c, d, s))
    BY <2>2, <2>3, FS_Subset
  <2>5. PICK r \in Selectable(c, d, s), o \in Selectable(c, d, s) :
          x = RulePrice(rule[r].entry, d, s) /\ y = RulePrice(rule[o].entry, d, s)
    BY <1>2 DEF Resolvable
  <2>6. Cardinality(Selectable(c, d, s)) \in Nat
    BY <2>4, FS_CardinalityType
  <2>7. Cardinality(Selectable(c, d, s)) # 0
    BY <2>4, <2>5, FS_EmptySet
  <2>8. Cardinality(Selectable(c, d, s)) = 1
    BY <2>6, <2>7 DEF Tied
  <2>9. PICK only : Selectable(c, d, s) = {only}
    BY <2>4, <2>8, FS_Singleton
  <2> QED
    BY <2>5, <2>9
<1> QED
  BY <1>1, <1>2

\* The second sums go on where the first ones end, with the price of slot i.
OneMore(P, A, B, P2, A2, B2, a, i, price) ==
    /\ P2[i] = price /\ \A s \in a..(i - 1) : P2[s] = P[s]
    /\ A2[i + 1] = A[i] + Rounded(price * Minutes) /\ B2[i + 1] = B[i] + price * Minutes
    /\ \A s \in a..i : A2[s] = A[s] /\ B2[s] = B[s]

\* Adding a slot to the sums.
LEMMA SumsGrow ==
    ASSUME NEW P \in [Slot -> Nat], NEW A \in [Nat -> Nat], NEW B \in [Nat -> Nat],
           NEW P2 \in [Slot -> Nat], NEW A2 \in [Nat -> Nat], NEW B2 \in [Nat -> Nat],
           NEW a \in Slot, NEW i \in Slot, a <= i, Sums(P, A, B, a, i), NEW price \in Nat,
           OneMore(P, A, B, P2, A2, B2, a, i, price)
    PROVE  Sums(P2, A2, B2, a, i + 1)
<1> DEFINE amount == price * Minutes
           rounded == Rounded(amount)
<1>1. amount \in Nat
  BY PricingAssumption
<1>2. /\ rounded \in Nat /\ 60 * rounded <= amount + 30 /\ amount <= 60 * rounded + 30
  BY <1>1, RoundedIsNear
<1>3. a \in Nat /\ i \in Nat /\ i + 1 \in Nat
  BY PricingAssumption DEF Slot
<1>4. P2[i] = price /\ \A s \in a..(i - 1) : P2[s] = P[s]
  BY DEF OneMore
<1>7. \A s \in a..i : A2[s] = A[s] /\ B2[s] = B[s]
  BY DEF OneMore
<1>8. A2[i + 1] = A[i] + rounded /\ B2[i + 1] = B[i] + amount
  BY DEF OneMore
<1> HIDE DEF amount, rounded
<1>10. A2[a] = 0 /\ B2[a] = 0
  <2>1. a \in a..i
    BY <1>3
  <2>2. A[a] = 0 /\ B[a] = 0
    BY DEF Sums
  <2> QED
    BY <1>7, <2>1, <2>2
<1>11. ASSUME NEW s \in a..i
       PROVE  A2[s + 1] = A2[s] + Rounded(P2[s] * Minutes) /\ B2[s + 1] = B2[s] + P2[s] * Minutes
  <2>1. CASE s = i
    BY <1>4, <1>7, <1>8, <2>1 DEF amount, rounded
  <2>2. CASE s # i
    <3>1. s \in a..(i - 1) /\ s + 1 \in a..i
      BY <1>3, <2>2
    <3>2. A[s + 1] = A[s] + Rounded(P[s] * Minutes) /\ B[s + 1] = B[s] + P[s] * Minutes
      BY <3>1 DEF Sums
    <3>3. A2[s] = A[s] /\ B2[s] = B[s] /\ A2[s + 1] = A[s + 1] /\ B2[s + 1] = B[s + 1] /\ P2[s] = P[s]
      BY <1>4, <1>7, <3>1
    <3> QED
      BY <3>2, <3>3
  <2> QED
    BY <2>1, <2>2
<1>12. ASSUME NEW s \in a..(i + 1)
       PROVE  60 * A2[s] <= B2[s] + 30 * (s - a) /\ B2[s] <= 60 * A2[s] + 30 * (s - a)
  <2>1. CASE s = i + 1
    <3>1. i \in a..i /\ A[i] \in Nat /\ B[i] \in Nat
      BY <1>3
    <3>2. 60 * A[i] <= B[i] + 30 * (i - a) /\ B[i] <= 60 * A[i] + 30 * (i - a)
      BY <3>1 DEF Sums
    <3> QED
      BY <1>1, <1>2, <1>3, <1>8, <2>1, <3>1, <3>2
  <2>2. CASE s # i + 1
    <3>1. s \in a..i
      BY <1>3, <2>2
    <3>2. 60 * A[s] <= B[s] + 30 * (s - a) /\ B[s] <= 60 * A[s] + 30 * (s - a)
      BY <3>1 DEF Sums
    <3> QED
      BY <1>7, <3>1, <3>2
  <2> QED
    BY <2>1, <2>2
<1>13. (i + 1) - 1 = i
  BY <1>3
<1> QED
  BY <1>10, <1>11, <1>12, <1>13 DEF Sums

\* Steps that end the trust in the quote, or leave all it depends on.
LEMMA QuoteStands ==
    ASSUME QuoteFits, UNCHANGED quote,
           stable' = FALSE \/ UNCHANGED <<rule, base, now, stable>>
    PROVE  QuoteFits'
<1> SUFFICES ASSUME quote'.pc # "idle"
             PROVE  \E a, b \in Slot, i, j \in Nat : QuoteAt(a, b, i, j)' /\ QuoteAddsUp(a, b, i, j)'
  BY DEF QuoteFits
<1>1. PICK a \in Slot, b \in Slot, i \in Nat, j \in Nat : QuoteAt(a, b, i, j) /\ QuoteAddsUp(a, b, i, j)
  BY DEF QuoteFits
<1>2. QuoteAt(a, b, i, j)'
  BY <1>1 DEF QuoteAt
<1>3. QuoteAddsUp(a, b, i, j)'
  <2>1. CASE stable' = FALSE
    BY <2>1 DEF QuoteAddsUp, Undisputed
  <2>2. CASE UNCHANGED <<rule, base, now, stable>>
    <3>1. PICK c, d : c = quote.court /\ d = quote.day
      OBVIOUS
    <3>2. quote'.court = c /\ quote'.day = d
      BY <3>1
    <3>3. ASSUME Undisputed(c, d, a, b)' PROVE Undisputed(c, d, a, b)
      BY <2>2, <3>3, SamePrices DEF Undisputed
    <3>4. ASSUME NEW P, Prices(P, c, d, a, i) PROVE Prices(P, c, d, a, i)'
      BY <2>2, <3>4, SamePrices DEF Prices
    <3> QED
      BY <1>1, <3>1, <3>2, <3>3, <3>4 DEF QuoteAddsUp, Sums
  <2> QED
    BY <2>1, <2>2
<1> QED
  BY <1>2, <1>3

\* Readers change neither the prices nor the time.
LEMMA LookFits ==
    ASSUME NEW c \in Court, NEW d \in Day, Look(c, d)
    PROVE  QuoteFits'
<1>1. PICK a \in Slot, b \in Slot :
        a <= b /\ quote' = [pc |-> "look", court |-> c, day |-> d, slots |-> a..b, todo |-> a..b,
                            shown |-> 0, sum |-> 0]
  BY DEF Look
<1>2. a \in Nat /\ b \in Nat /\ a <= b + 1
  BY <1>1, PricingAssumption DEF Slot
<1>3. QuoteAt(a, b, a, a)'
  BY <1>1, <1>2 DEF QuoteAt
<1>4. QuoteAddsUp(a, b, a, a)'
  <2> DEFINE P == [s \in Slot |-> 0]
             Z == [n \in Nat |-> 0]
  <2>1. P \in [Slot -> Nat] /\ Z \in [Nat -> Nat] /\ Z[a] = 0
    BY <1>2
  <2>2. a .. (a - 1) = {} /\ a .. a = {a}
    BY <1>2
  <2> HIDE DEF P, Z
  <2>3. Sums(P, Z, Z, a, a)
    BY <1>2, <2>1, <2>2 DEF Sums
  <2>4. Prices(P, c, d, a, a)'
    BY <2>2 DEF Prices
  <2>5. /\ quote'.shown = Z[a] /\ quote'.sum = Z[a]
        /\ quote'.court = c /\ quote'.day = d
    BY <1>1, <2>1
  <2> QED
    BY <2>1, <2>3, <2>4, <2>5 DEF QuoteAddsUp, Sums
<1> QED
  BY <1>2, <1>3, <1>4 DEF QuoteFits

LEMMA ShowFits ==
    ASSUME RulesSound, QuoteFits, ShowSlot
    PROVE  QuoteFits'
<1>1. quote.pc = "look" /\ UNCHANGED <<rule, base, now, stable>>
  BY DEF ShowSlot, rules
<1>2. PICK a \in Slot, b \in Slot, i \in Nat, j \in Nat : QuoteAt(a, b, i, j) /\ QuoteAddsUp(a, b, i, j)
  BY <1>1 DEF QuoteFits
<1>3. /\ quote.slots = a..b /\ quote.todo = i..b /\ j = a /\ a <= i /\ i <= b + 1
      /\ a \in Nat /\ b \in Nat
  BY <1>1, <1>2, PricingAssumption DEF QuoteAt, Slot
<1>4. PICK c, d : c = quote.court /\ d = quote.day
  OBVIOUS
<1>5. c \in Court
  BY <1>1, <1>4, QuoteFields
<1>6. Undisputed(c, d, a, b)' => Undisputed(c, d, a, b)
  BY <1>1, SamePrices DEF Undisputed
<1>7. ASSUME NEW P, NEW k, Prices(P, c, d, a, k) PROVE Prices(P, c, d, a, k)'
  BY <1>1, <1>7, SamePrices DEF Prices
<1>8. quote \in Looking
  BY <1>1, QuoteFields
<1>9. CASE quote.todo = {}
  <2>1. quote' = [quote EXCEPT !.pc = "seen"]
    BY <1>9 DEF ShowSlot
  <2>2. /\ quote'.pc = "seen" /\ quote'.slots = quote.slots /\ quote'.shown = quote.shown
        /\ quote'.sum = quote.sum /\ quote'.court = c /\ quote'.day = d
    BY <1>4, <1>8, <2>1 DEF Looking
  <2>3. i = b + 1
    <3>1. ~ (i <= b)
      BY <1>3, <1>9
    <3> QED
      BY <1>3, <3>1
  <2>4. QuoteAt(a, b, i, j)'
    BY <1>3, <2>2, <2>3 DEF QuoteAt
  <2>5. QuoteAddsUp(a, b, i, j)'
    BY <1>2, <1>4, <1>6, <1>7, <2>2 DEF QuoteAddsUp, Sums
  <2> QED
    BY <2>4, <2>5 DEF QuoteFits
<1>10. CASE quote.todo # {}
  <2>1. i <= b /\ i \in Slot
    BY <1>3, <1>10, PricingAssumption DEF Slot
  <2>2. FirstOf(quote.todo) = i /\ quote.todo \ {i} = (i + 1) .. b
    BY <1>3, <2>1, FirstOfInterval
  <2>3. PICK price \in Resolvable(c, d, i) :
          quote' = [quote EXCEPT !.todo = @ \ {i}, !.shown = @ + Rounded(price * Minutes)]
    BY <1>4, <1>10, <2>2 DEF ShowSlot
  <2>4. price \in Nat
    BY <1>5, PricesAreNat
  <2>5. /\ quote'.pc = "look" /\ quote'.slots = quote.slots /\ quote'.todo = (i + 1) .. b
        /\ quote'.shown = quote.shown + Rounded(price * Minutes)
        /\ quote'.sum = quote.sum /\ quote'.court = c /\ quote'.day = d
    BY <1>1, <1>4, <1>8, <2>2, <2>3 DEF Looking
  <2>6. QuoteAt(a, b, i + 1, j)'
    BY <1>3, <2>1, <2>5 DEF QuoteAt
  <2>7. ASSUME Undisputed(c, d, a, b)'
        PROVE  \E P \in [Slot -> Nat], A \in [Nat -> Nat], B \in [Nat -> Nat] :
            /\ Sums(P, A, B, a, i + 1) /\ Prices(P, c, d, a, i + 1)'
            /\ quote'.shown = A[i + 1] /\ quote'.sum = B[a]
    <3>1. PICK P \in [Slot -> Nat], A \in [Nat -> Nat], B \in [Nat -> Nat] :
            /\ Sums(P, A, B, a, i) /\ Prices(P, c, d, a, i)
            /\ quote.shown = A[i] /\ quote.sum = B[a]
      BY <1>2, <1>3, <1>4, <1>6, <2>7 DEF QuoteAddsUp
    <3> DEFINE amount == price * Minutes
               rounded == Rounded(amount)
               P2 == [P EXCEPT ![i] = price]
               A2 == [A EXCEPT ![i + 1] = A[i] + rounded]
               B2 == [B EXCEPT ![i + 1] = B[i] + amount]
    <3>2. /\ P2 \in [Slot -> Nat] /\ A2 \in [Nat -> Nat] /\ B2 \in [Nat -> Nat]
          /\ Sums(P2, A2, B2, a, i + 1)
          /\ A2[i + 1] = A[i] + Rounded(price * Minutes)
          /\ B2[a] = B[a]
      <4>0. a \in Nat /\ i \in Nat /\ a <= i
        BY <1>3
      <4>1. rounded \in Nat /\ amount \in Nat
        BY <2>4, AmountsAreNat
      <4> HIDE DEF amount, rounded
      <4>2. A[i] + rounded \in Nat /\ B[i] + amount \in Nat /\ i + 1 \in Nat
        BY <4>0, <4>1
      <4>3. P2 \in [Slot -> Nat] /\ A2 \in [Nat -> Nat] /\ B2 \in [Nat -> Nat]
        BY <2>4, <4>2
      <4>4. A2[i + 1] = A[i] + rounded /\ B2[i + 1] = B[i] + amount
        BY <4>2
      <4>5. \A s \in a..i : A2[s] = A[s] /\ B2[s] = B[s]
        BY <4>0
      <4>6. P2[i] = price /\ \A s \in a..(i - 1) : P2[s] = P[s]
        BY <4>0, <2>1 DEF Slot
      <4>7. a \in a..i
        BY <4>0
      <4> HIDE DEF P2, A2, B2
      <4>8. Sums(P2, A2, B2, a, i + 1)
        <5>1. A2[i + 1] = A[i] + Rounded(price * Minutes) /\ B2[i + 1] = B[i] + price * Minutes
          BY <4>4 DEF amount, rounded
        <5>2. OneMore(P, A, B, P2, A2, B2, a, i, price)
          BY <4>5, <4>6, <5>1 DEF OneMore
        <5> QED
          BY <2>1, <2>4, <3>1, <4>0, <4>3, <5>2, SumsGrow
      <4> QED
        BY <4>3, <4>4, <4>5, <4>7, <4>8 DEF amount, rounded
    <3>3. Prices(P2, c, d, a, i + 1)
      <4>1. \A s \in a..((i + 1) - 1) : P2[s] \in Resolvable(c, d, s)
        <5> SUFFICES ASSUME NEW s \in a..((i + 1) - 1) PROVE P2[s] \in Resolvable(c, d, s)
          OBVIOUS
        <5>1. CASE s = i
          BY <2>1, <2>3, <5>1
        <5>2. CASE s # i
          <6>1. s \in a..(i - 1) /\ s \in Slot
            BY <1>3, <2>1, <5>2, PricingAssumption DEF Slot
          <6> QED
            BY <3>1, <5>2, <6>1 DEF Prices
        <5> QED
          BY <5>1, <5>2
      <4> QED
        BY <4>1 DEF Prices
    <3> HIDE DEF P2, A2, B2
    <3>4. Prices(P2, c, d, a, i + 1)'
      BY <1>7, <3>3
    <3>5. quote'.shown = A2[i + 1] /\ quote'.sum = B2[a]
      BY <2>5, <3>1, <3>2
    <3> QED
      BY <3>2, <3>4, <3>5
  <2>8. QuoteAddsUp(a, b, i + 1, j)'
    BY <1>3, <2>5, <2>7 DEF QuoteAddsUp, Sums
  <2> QED
    BY <2>6, <2>8 DEF QuoteFits
<1> QED
  BY <1>9, <1>10

LEMMA BookFits ==
    ASSUME RulesSound, QuoteFits, Book
    PROVE  QuoteFits'
<1>1. quote.pc = "seen" /\ UNCHANGED <<rule, base, now, stable>>
  BY DEF Book, rules
<1>2. PICK a \in Slot, b \in Slot, i \in Nat, j \in Nat : QuoteAt(a, b, i, j) /\ QuoteAddsUp(a, b, i, j)
  BY <1>1 DEF QuoteFits
<1>3. PICK c, d : c = quote.court /\ d = quote.day
  OBVIOUS
<1>4. quote \in Looking /\ quote' = [quote EXCEPT !.pc = "book", !.todo = quote.slots]
  BY <1>1, QuoteFields DEF Book
<1>5. /\ quote'.pc = "book" /\ quote'.slots = quote.slots /\ quote'.todo = quote.slots
      /\ quote'.shown = quote.shown /\ quote'.sum = quote.sum
      /\ quote'.court = c /\ quote'.day = d
  BY <1>3, <1>4 DEF Looking
<1>6. QuoteAt(a, b, i, j)'
  BY <1>1, <1>2, <1>5 DEF QuoteAt
<1>7. Undisputed(c, d, a, b)' => Undisputed(c, d, a, b)
  BY <1>1, SamePrices DEF Undisputed
<1>8. ASSUME NEW P, Prices(P, c, d, a, i) PROVE Prices(P, c, d, a, i)'
  BY <1>1, <1>8, SamePrices DEF Prices
<1>9. QuoteAddsUp(a, b, i, j)'
  BY <1>2, <1>3, <1>5, <1>7, <1>8 DEF QuoteAddsUp, Sums
<1> QED
  BY <1>6, <1>9 DEF QuoteFits

LEMMA ChargeFits ==
    ASSUME RulesSound, QuoteFits, ChargeSlot
    PROVE  QuoteFits'
<1>1. quote.pc = "book" /\ UNCHANGED <<rule, base, now, stable>>
  BY DEF ChargeSlot, rules
<1>2. PICK a \in Slot, b \in Slot, i \in Nat, j \in Nat : QuoteAt(a, b, i, j) /\ QuoteAddsUp(a, b, i, j)
  BY <1>1 DEF QuoteFits
<1>3. /\ quote.slots = a..b /\ quote.todo = j..b /\ i = b + 1 /\ a <= j /\ j <= b + 1
      /\ a \in Nat /\ b \in Nat
  BY <1>1, <1>2, PricingAssumption DEF QuoteAt, Slot
<1>4. PICK c, d : c = quote.court /\ d = quote.day
  OBVIOUS
<1>6. Undisputed(c, d, a, b)' => Undisputed(c, d, a, b)
  BY <1>1, SamePrices DEF Undisputed
<1>7. ASSUME NEW P, Prices(P, c, d, a, i) PROVE Prices(P, c, d, a, i)'
  BY <1>1, <1>7, SamePrices DEF Prices
<1>8. quote \in Looking
  BY <1>1, QuoteFields
<1>9. CASE quote.todo = {}
  <2>1. quote' = [quote EXCEPT !.pc = "charged"]
    BY <1>9 DEF ChargeSlot
  <2>2. /\ quote'.pc = "charged" /\ quote'.slots = quote.slots /\ quote'.shown = quote.shown
        /\ quote'.sum = quote.sum /\ quote'.court = c /\ quote'.day = d
    BY <1>4, <1>8, <2>1 DEF Looking
  <2>3. j = b + 1
    <3>1. ~ (j <= b)
      BY <1>3, <1>9
    <3> QED
      BY <1>3, <3>1
  <2>4. QuoteAt(a, b, i, j)'
    BY <1>3, <2>2, <2>3 DEF QuoteAt
  <2>5. QuoteAddsUp(a, b, i, j)'
    BY <1>2, <1>4, <1>6, <1>7, <2>2 DEF QuoteAddsUp, Sums
  <2> QED
    BY <2>4, <2>5 DEF QuoteFits
<1>10. CASE quote.todo # {}
  <2>1. j <= b
    BY <1>3, <1>10
  <2>2. FirstOf(quote.todo) = j /\ quote.todo \ {j} = (j + 1) .. b
    BY <1>3, <2>1, FirstOfInterval
  <2>3. PICK price \in Resolvable(c, d, j) :
          quote' = [quote EXCEPT !.todo = @ \ {j}, !.sum = @ + price * Minutes]
    BY <1>4, <1>10, <2>2 DEF ChargeSlot, PricedSlot
  <2>4. /\ quote'.pc = "book" /\ quote'.slots = quote.slots /\ quote'.todo = (j + 1) .. b
        /\ quote'.sum = quote.sum + price * Minutes
        /\ quote'.shown = quote.shown /\ quote'.court = c /\ quote'.day = d
    BY <1>1, <1>4, <1>8, <2>2, <2>3 DEF Looking
  <2>5. QuoteAt(a, b, i, j + 1)'
    BY <1>3, <2>1, <2>4 DEF QuoteAt
  <2>6. ASSUME Undisputed(c, d, a, b)'
        PROVE  \E P \in [Slot -> Nat], A \in [Nat -> Nat], B \in [Nat -> Nat] :
            /\ Sums(P, A, B, a, i) /\ Prices(P, c, d, a, i)'
            /\ quote'.shown = A[i] /\ quote'.sum = B[j + 1]
    <3>1. PICK P \in [Slot -> Nat], A \in [Nat -> Nat], B \in [Nat -> Nat] :
            /\ Sums(P, A, B, a, i) /\ Prices(P, c, d, a, i)
            /\ quote.shown = A[i] /\ quote.sum = B[j]
      BY <1>2, <1>4, <1>6, <2>6 DEF QuoteAddsUp
    <3>2. j \in a..b /\ j \in a..(i - 1)
      BY <1>3, <2>1
    <3>3. P[j] \in Resolvable(c, d, j) /\ ~Tied(c, d, j)
      BY <1>6, <2>6, <3>1, <3>2 DEF Prices, Undisputed
    <3>4. P[j] = price
      BY <3>3, OnePrice
    <3>5. B[j + 1] = B[j] + P[j] * Minutes
      BY <3>1, <3>2 DEF Sums
    <3>6. quote'.shown = A[i] /\ quote'.sum = B[j + 1]
      BY <2>4, <3>1, <3>4, <3>5
    <3> QED
      BY <1>7, <3>1, <3>6
  <2>7. QuoteAddsUp(a, b, i, j + 1)'
    BY <2>4, <2>6 DEF QuoteAddsUp, Sums
  <2> QED
    BY <2>5, <2>7 DEF QuoteFits
<1> QED
  BY <1>9, <1>10

\* No other step touches a quote and what it is trusted for.
LEMMA OwnersLeaveQuotes ==
    ASSUME QuoteFits,
           \/ \E c \in Court : CreateRule(c) \/ Reprice(c)
           \/ \E p \in Process :
                 \/ \E r \in Rule : ReadForUpdate(p, r) \/ ReadForRemove(p, r)
                 \/ SaveUpdate(p) \/ RemoveRule(p) \/ SaveCopies(p)
                 \/ \E c, source \in Court : ReadForCopy(p, c, source)
                 \/ \E v, source \in DOMAIN OwnerOf : ReadForVenueCopy(p, v, source)
           \/ Tick
    PROVE  QuoteFits'
<1>1. ASSUME NEW c \in Court, CreateRule(c) PROVE UNCHANGED quote /\ stable' = FALSE
  BY <1>1 DEF CreateRule, Changed
<1>2. ASSUME NEW c \in Court, Reprice(c) PROVE UNCHANGED quote /\ stable' = FALSE
  BY <1>2 DEF Reprice
<1>3. ASSUME NEW p \in Process, NEW r \in Rule, ReadForUpdate(p, r) \/ ReadForRemove(p, r)
      PROVE  UNCHANGED <<quote, rule, base, now, stable>>
  BY <1>3 DEF ReadForUpdate, ReadForRemove, rules
<1>4. ASSUME NEW p \in Process, SaveUpdate(p) \/ RemoveRule(p)
      PROVE  UNCHANGED quote /\ stable' = FALSE
  BY <1>4 DEF SaveUpdate, RemoveRule, Changed
<1>5. ASSUME NEW p \in Process, SaveCopies(p) PROVE UNCHANGED quote /\ stable' = FALSE
  BY <1>5 DEF SaveCopies
<1>6. ASSUME NEW p \in Process, NEW c, NEW source, ReadForCopy(p, c, source) \/ ReadForVenueCopy(p, c, source)
      PROVE  UNCHANGED <<quote, rule, base, now, stable>>
  BY <1>6 DEF ReadForCopy, ReadForVenueCopy, rules
<1>7. ASSUME Tick PROVE UNCHANGED quote /\ stable' = FALSE
  BY <1>7 DEF Tick
<1>8. UNCHANGED quote /\ (stable' = FALSE \/ UNCHANGED <<rule, base, now, stable>>)
  BY <1>1, <1>2, <1>3, <1>4, <1>5, <1>6, <1>7
<1> QED
  BY <1>8, QuoteStands

\* A charge and the prices shown for it differ by at most half a hundredth for
\* each slot and another for the charge.
LEMMA FitIsCharged == RulesSound /\ QuoteFits => SeenIsCharged
<1> SUFFICES ASSUME RulesSound, QuoteFits, quote.pc = "charged", stable,
                    \A s \in quote.slots : ~Tied(quote.court, quote.day, s)
             PROVE  2 * Max({Rounded(quote.sum) - quote.shown, -(Rounded(quote.sum) - quote.shown)})
                        <= Cardinality(quote.slots) + 1
  BY DEF SeenIsCharged
<1>1. PICK a \in Slot, b \in Slot, i \in Nat, j \in Nat : QuoteAt(a, b, i, j) /\ QuoteAddsUp(a, b, i, j)
  BY DEF QuoteFits
<1>2. /\ quote.slots = a..b /\ i = b + 1 /\ j = b + 1 /\ a <= b + 1
      /\ a \in Nat /\ b \in Nat
  BY <1>1, PricingAssumption DEF QuoteAt, Slot
<1>3. Undisputed(quote.court, quote.day, a, b)
  BY <1>2 DEF Undisputed
<1>4. PICK P \in [Slot -> Nat], A \in [Nat -> Nat], B \in [Nat -> Nat] :
        Sums(P, A, B, a, i) /\ quote.shown = A[i] /\ quote.sum = B[i]
  BY <1>1, <1>2, <1>3 DEF QuoteAddsUp
<1>5. i \in a..i
  BY <1>2
<1>6. PICK shown \in Nat, sum \in Nat : shown = quote.shown /\ sum = quote.sum
  BY QuoteFields
<1>7. 60 * shown <= sum + 30 * (i - a) /\ sum <= 60 * shown + 30 * (i - a)
  BY <1>4, <1>5, <1>6 DEF Sums
<1>8. PICK charged \in Nat : charged = Rounded(sum)
  BY <1>6, RoundedIsNear
<1>9. 60 * charged <= sum + 30 /\ sum <= 60 * charged + 30
  BY <1>8, RoundedIsNear
<1>10. Cardinality(quote.slots) = i - a
  <2>1. Cardinality(a..b) = IF a > b THEN 0 ELSE b - a + 1
    BY <1>2, FS_Interval
  <2> QED
    BY <1>2, <2>1
<1>11. 2 * (charged - shown) <= i - a + 1 /\ 2 * (-(charged - shown)) <= i - a + 1
  <2>1. PICK n \in Nat : n = i - a
    BY <1>2
  <2>2. 60 * shown <= sum + 30 * n /\ sum <= 60 * shown + 30 * n
    BY <1>7, <2>1
  <2>3. 2 * (charged - shown) <= n + 1
    BY <1>9, <2>2
  <2>4. 2 * (-(charged - shown)) <= n + 1
    BY <1>9, <2>2
  <2> QED
    BY <2>1, <2>3, <2>4
<1> DEFINE difference == charged - shown
<1>12. Max({difference, -difference}) \in {difference, -difference}
  <2>1. \E x \in {difference, -difference} : \A y \in {difference, -difference} : x >= y
    OBVIOUS
  <2> QED
    BY <2>1 DEF Max
<1>13. 2 * Max({difference, -difference}) <= i - a + 1
  BY <1>11, <1>12
<1> QED
  BY <1>6, <1>8, <1>10, <1>13

\* The property SeenIsCharged: however many slots are quoted and whatever rules
\* apply to them, rounding slot by slot and rounding their sum differ by no
\* more than the roundings do, and nothing else sets the two apart.
THEOREM ChargesFollowQuotes == Spec => []SeenIsCharged
<1>1. Init => QuoteFits
  BY DEF Init, QuoteFits, Idle
<1>2. RulesSound /\ QuoteFits /\ [Next]_vars => QuoteFits'
  <2> SUFFICES ASSUME RulesSound, QuoteFits, [Next]_vars PROVE QuoteFits'
    OBVIOUS
  <2>1. ASSUME NEW c \in Court, NEW d \in Day, Look(c, d) PROVE QuoteFits'
    BY <2>1, LookFits
  <2>2. CASE ShowSlot
    BY <2>2, ShowFits
  <2>3. CASE Book
    BY <2>3, BookFits
  <2>4. CASE ChargeSlot
    BY <2>4, ChargeFits
  <2>5. CASE UNCHANGED vars
    <3>1. UNCHANGED quote /\ UNCHANGED <<rule, base, now, stable>>
      BY <2>5 DEF vars, rules
    <3> QED
      BY <3>1, QuoteStands
  <2> QED
    BY <2>1, <2>2, <2>3, <2>4, <2>5, OwnersLeaveQuotes DEF Next
<1> QED
  BY <1>1, <1>2, PricingTypeCorrect, FitIsCharged, PTL DEF Spec

-----------------------------------------------------------------------------
(* Copies of a price list *)

\* A copy has the entries of its source, no others, and all of one time.
CopyFits ==
    copied # Idle =>
        /\ \A r \in RulesOf(copied.from) :
              \E q \in RulesOf(copied.to) : rule[q].entry = rule[r].entry
        /\ \A q \in RulesOf(copied.to) :
              \E r \in RulesOf(copied.from) : rule[r].entry = rule[q].entry
        /\ \A q, o \in RulesOf(copied.to) : rule[q].made = rule[o].made

\* A copy that is faithful when it is saved fits.
LEMMA FaithfulCopyFits ==
    ASSUME RulesSound, NEW p \in Process, SaveCopies(p)
    PROVE  CopyFits'
<1>1. request[p].pc = "copy"
  BY DEF SaveCopies
<1>2. CASE ~ \E c \in request[p].courts : IsFaithful(p, c)
  BY <1>2 DEF SaveCopies, CopyFits
<1>3. CASE \E c \in request[p].courts : IsFaithful(p, c)
  <2>1. PICK c \in request[p].courts : IsFaithful(p, c)
    BY <1>3
  <2>2. PICK source : source = request[p].source
    OBVIOUS
  <2>3. /\ source # None /\ source # c /\ RulesOf(c) = {}
        /\ request[p].entries = EntriesOf({source})
    BY <2>1, <2>2 DEF IsFaithful
  <2>4. source \in Court /\ c \in Court
    BY <1>1, <2>1, <2>2, <2>3, SoundIsTyped, RequestFields
  <2>5. request[p].courts = {c}
    BY <1>1, <2>1, <2>2, <2>3 DEF RulesSound, RequestsFit
  <2>6. copied' = [from |-> source, to |-> CHOOSE k \in {c} : TRUE]
    BY <1>3, <2>2, <2>5 DEF SaveCopies
  <2>7. (CHOOSE k \in {c} : TRUE) = c
    OBVIOUS
  <2>8. copied'.from = source /\ copied'.to = c
    BY <2>6, <2>7
  <2>9. \A r \in Rule : request[p].entries[r] # Absent <=> rule[r].court = source
    BY <2>3, <2>4, EntriesRead
  <2>10. \A r \in Rule : rule[r].court = source => request[p].entries[r] = rule[r].entry
    BY <2>3, <2>4, <2>9, EntriesRead
  <2>11. CASE Copies(p) = {}
    <3>1. UNCHANGED rule
      BY <2>11 DEF SaveCopies, rules
    <3>2. RulesOf(source) = {}
      <4>1. ASSUME NEW r \in RulesOf(source) PROVE FALSE
        <5>1. r \in {o \in Rule : request[p].entries[o] # Absent}
          BY <2>9 DEF RulesOf
        <5>2. <<r, c>> \in Copies(p)
          BY <2>5, <5>1 DEF Copies
        <5> QED
          BY <2>11, <5>2
      <4> QED
        BY <4>1
    <3>3. RulesOf(source)' = {} /\ RulesOf(c)' = {}
      BY <2>3, <3>1, <3>2 DEF RulesOf
    <3> QED
      BY <2>8, <3>3 DEF CopyFits, RulesOf
  <2>12. CASE Copies(p) # {}
    <3> DEFINE new == (used + 1) .. used'
    <3>1. /\ \A r \in Rule : r \notin new => rule'[r] = rule[r]
          /\ \A r \in new :
                /\ r \in Rule /\ rule'[r].made = clock + 1 /\ rule'[r].court = c
                /\ \E o \in Rule : /\ request[p].entries[o] # Absent
                                   /\ rule'[r].entry = request[p].entries[o]
          /\ \A o \in Rule : request[p].entries[o] # Absent =>
                \E r \in new : rule'[r].entry = request[p].entries[o] /\ rule'[r].court = c
      BY <2>5, <2>12, CopiesWritten
    <3>2. ASSUME NEW o \in Rule, rule[o].court \in Court
          PROVE  o \notin new
      <4>1. rule[o] # Absent
        BY <3>2, SoundIsTyped, RuleFields, PricingAssumption
      <4>2. o <= used /\ o \in Nat /\ used \in Nat
        BY <4>1, SoundIsTyped, RuleFields, PricingAssumption DEF Rule, RulesSound, RulesFit
      <4> QED
        BY <4>2
    <3> HIDE DEF new
    <3>3. ASSUME NEW q \in Rule
          PROVE  /\ rule'[q].court = c <=> q \in new
                 /\ rule'[q].court = source <=> rule[q].court = source
                 /\ rule'[q].court = source => rule'[q] = rule[q]
      <4>1. CASE q \in new
        <5>1. rule'[q].court = c
          BY <3>1, <4>1
        <5>2. rule[q].court # source
          BY <2>4, <3>2, <4>1
        <5> QED
          BY <2>3, <4>1, <5>1, <5>2
      <4>2. CASE q \notin new
        <5>1. rule'[q] = rule[q]
          BY <3>1, <4>2
        <5>2. rule[q].court # c
          BY <2>3 DEF RulesOf
        <5> QED
          BY <4>2, <5>1, <5>2
      <4> QED
        BY <4>1, <4>2
    <3>4. ASSUME NEW r \in Rule, rule'[r].court = source
          PROVE  \E q \in Rule : rule'[q].court = c /\ rule'[q].entry = rule'[r].entry
      <4>1. rule[r].court = source /\ rule'[r] = rule[r]
        BY <3>3, <3>4
      <4>2. request[p].entries[r] # Absent /\ request[p].entries[r] = rule[r].entry
        BY <2>9, <2>10, <4>1
      <4>3. PICK q \in new : rule'[q].entry = request[p].entries[r] /\ rule'[q].court = c
        BY <3>1, <4>2
      <4> QED
        BY <3>1, <4>1, <4>2, <4>3
    <3>5. ASSUME NEW q \in Rule, rule'[q].court = c
          PROVE  \E r \in Rule : rule'[r].court = source /\ rule'[r].entry = rule'[q].entry
      <4>1. q \in new
        BY <3>3, <3>5
      <4>2. PICK o \in Rule : /\ request[p].entries[o] # Absent
                              /\ rule'[q].entry = request[p].entries[o]
        BY <3>1, <4>1
      <4>3. rule[o].court = source /\ request[p].entries[o] = rule[o].entry
        BY <2>9, <2>10, <4>2
      <4>4. rule'[o].court = source /\ rule'[o] = rule[o]
        BY <3>3, <4>3
      <4> QED
        BY <4>2, <4>3, <4>4
    <3>6. \A q \in Rule : rule'[q].court = c => rule'[q].made = clock + 1
      BY <3>1, <3>3
    <3> QED
      BY <2>8, <3>4, <3>5, <3>6 DEF CopyFits, RulesOf
  <2> QED
    BY <2>11, <2>12
<1> QED
  BY <1>2, <1>3

LEMMA CopyStays ==
    ASSUME CopyFits, copied' = Idle \/ UNCHANGED <<rule, copied>>
    PROVE  CopyFits'
  BY DEF CopyFits, RulesOf

\* Rules with one entry apply alike and cost alike.
LEMMA FitCopyCharges == RulesSound /\ CopyFits => CopyMayChargeTheSame
<1> SUFFICES ASSUME RulesSound, CopyFits, copied # Idle, NEW d \in Day, NEW s \in Slot
             PROVE  LET from == Matching(copied.from, d, s)
                        source == Resolvable(copied.from, d, s)
                        target == Resolvable(copied.to, d, s)
                    IN  /\ Matching(copied.to, d, s) = {} <=> from = {}
                        /\ from # {} => source \subseteq target
                        /\ from # {} /\ (\A a, b \in from :
                                rule[a].entry.priority = rule[b].entry.priority => a = b)
                              => source = target
  BY DEF CopyMayChargeTheSame
<1> DEFINE c == copied.from
           t == copied.to
<1>1. c \in Court /\ t \in Court
  BY DEF RulesSound, OthersFit
<1> HIDE DEF c, t
<1>2. /\ \A r \in RulesOf(c) : \E q \in RulesOf(t) : rule[q].entry = rule[r].entry
      /\ \A q \in RulesOf(t) : \E r \in RulesOf(c) : rule[r].entry = rule[q].entry
      /\ \A q, o \in RulesOf(t) : rule[q].made = rule[o].made
  BY DEF CopyFits, c, t
<1>3. ASSUME NEW r \in Matching(c, d, s)
      PROVE  \E q \in Matching(t, d, s) : rule[q].entry = rule[r].entry
  BY <1>2 DEF Matching
<1>4. ASSUME NEW q \in Matching(t, d, s)
      PROVE  \E r \in Matching(c, d, s) : rule[r].entry = rule[q].entry
  BY <1>2 DEF Matching
<1>5. ASSUME NEW r \in Matching(c, d, s) \cup Matching(t, d, s)
      PROVE  rule[r].entry.priority \in Nat /\ rule[r].made \in Nat
  <2>1. r \in Rule /\ rule[r].court \in Court
    BY <1>1 DEF Matching, RulesOf
  <2>2. rule[r] # Absent
    BY <2>1, SoundIsTyped, RuleFields, PricingAssumption
  <2>3. rule[r].entry \in Entry /\ rule[r].made \in Nat
    BY <2>1, <2>2, SoundIsTyped, RuleFields
  <2> QED
    BY <2>3 DEF Entry
<1>6. Matching(t, d, s) = {} <=> Matching(c, d, s) = {}
  BY <1>3, <1>4
<1>7. ASSUME NEW q \in Matching(t, d, s)
      PROVE  q \in Selectable(t, d, s) <=>
                \A o \in Matching(t, d, s) : rule[o].entry.priority <= rule[q].entry.priority
  <2>1. \A o \in Matching(t, d, s) :
          ~SortsBefore(o, q) <=> rule[o].entry.priority <= rule[q].entry.priority
    <3> SUFFICES ASSUME NEW o \in Matching(t, d, s)
                 PROVE  ~SortsBefore(o, q) <=> rule[o].entry.priority <= rule[q].entry.priority
      OBVIOUS
    <3>1. rule[o].made = rule[q].made
      BY <1>2 DEF Matching
    <3>2. /\ rule[o].entry.priority \in Nat /\ rule[o].made \in Nat
          /\ rule[q].entry.priority \in Nat /\ rule[q].made \in Nat
      BY <1>5
    <3> QED
      BY <3>1, <3>2 DEF SortsBefore
  <2> QED
    BY <2>1 DEF Selectable
<1>8. ASSUME NEW r \in Selectable(c, d, s)
      PROVE  /\ r \in Matching(c, d, s)
             /\ \A o \in Matching(c, d, s) : rule[o].entry.priority <= rule[r].entry.priority
  <2>1. r \in Matching(c, d, s) /\ \A o \in Matching(c, d, s) : ~SortsBefore(o, r)
    BY DEF Selectable
  <2>2. ASSUME NEW o \in Matching(c, d, s)
        PROVE  rule[o].entry.priority <= rule[r].entry.priority
    <3>1. rule[o].entry.priority \in Nat /\ rule[r].entry.priority \in Nat
      BY <1>5, <2>1
    <3>2. ~ (rule[o].entry.priority > rule[r].entry.priority)
      BY <2>1 DEF SortsBefore
    <3> QED
      BY <3>1, <3>2
  <2> QED
    BY <2>1, <2>2
<1>9. ASSUME Matching(c, d, s) # {}
      PROVE  Resolvable(c, d, s) \subseteq Resolvable(t, d, s)
  <2> SUFFICES ASSUME NEW price \in Resolvable(c, d, s) PROVE price \in Resolvable(t, d, s)
    OBVIOUS
  <2>1. PICK r \in Selectable(c, d, s) : price = RulePrice(rule[r].entry, d, s)
    BY <1>9 DEF Resolvable
  <2>2. PICK q \in Matching(t, d, s) : rule[q].entry = rule[r].entry
    BY <1>3, <1>8
  <2>3. \A o \in Matching(t, d, s) : rule[o].entry.priority <= rule[q].entry.priority
    BY <1>4, <1>8, <2>2
  <2>4. q \in Selectable(t, d, s)
    BY <1>7, <2>3
  <2> QED
    BY <1>6, <1>9, <2>1, <2>2, <2>4 DEF Resolvable
<1>10. ASSUME Matching(c, d, s) # {},
              \A a, b \in Matching(c, d, s) :
                  rule[a].entry.priority = rule[b].entry.priority => a = b
       PROVE  Resolvable(t, d, s) \subseteq Resolvable(c, d, s)
  <2> SUFFICES ASSUME NEW price \in Resolvable(t, d, s) PROVE price \in Resolvable(c, d, s)
    OBVIOUS
  <2>1. PICK q \in Selectable(t, d, s) : price = RulePrice(rule[q].entry, d, s)
    BY <1>6, <1>10 DEF Resolvable
  <2>2. q \in Matching(t, d, s)
    BY DEF Selectable
  <2>3. PICK r \in Matching(c, d, s) : rule[r].entry = rule[q].entry
    BY <1>4, <2>2
  <2>4. ASSUME NEW o \in Matching(c, d, s) PROVE ~SortsBefore(o, r)
    <3>1. PICK k \in Matching(t, d, s) : rule[k].entry = rule[o].entry
      BY <1>3
    <3>2. rule[k].entry.priority <= rule[q].entry.priority
      BY <1>7, <2>2
    <3>3. rule[o].entry.priority <= rule[r].entry.priority
      BY <2>3, <3>1, <3>2
    <3>4. /\ rule[o].entry.priority \in Nat /\ rule[o].made \in Nat
          /\ rule[r].entry.priority \in Nat /\ rule[r].made \in Nat
      BY <1>5
    <3>5. rule[o].entry.priority = rule[r].entry.priority => o = r
      BY <1>10
    <3> QED
      BY <3>3, <3>4, <3>5 DEF SortsBefore
  <2>5. r \in Selectable(c, d, s)
    BY <2>4 DEF Selectable
  <2> QED
    BY <1>10, <2>1, <2>3, <2>5 DEF Resolvable
<1> QED
  BY <1>6, <1>9, <1>10 DEF c, t

\* The property CopyMayChargeTheSame: the copy of any price list applies where
\* the source does, and charges what the source charges or, where priorities
\* tie, what another rule of that priority would.  Copies get one created_at,
\* so that only the priority is left to order them.
THEOREM CopiesChargeAsTheirSource == Spec => []CopyMayChargeTheSame
<1>1. Init => CopyFits
  BY DEF Init, CopyFits
<1>2. RulesSound /\ CopyFits /\ [Next]_vars => CopyFits'
  <2> SUFFICES ASSUME RulesSound, CopyFits, [Next]_vars PROVE CopyFits'
    OBVIOUS
  <2>1. ASSUME NEW p \in Process, SaveCopies(p) PROVE CopyFits'
    BY <2>1, FaithfulCopyFits
  <2>2. ASSUME NEW c \in Court, CreateRule(c) PROVE copied' = Idle
    BY <2>2 DEF CreateRule, Changed
  <2>3. ASSUME NEW p \in Process, SaveUpdate(p) \/ RemoveRule(p) PROVE copied' = Idle
    BY <2>3 DEF SaveUpdate, RemoveRule, Changed
  <2>4. ASSUME NEW c \in Court, Reprice(c) PROVE UNCHANGED <<rule, copied>>
    BY <2>4 DEF Reprice, rules
  <2>5. ASSUME NEW p \in Process, NEW r \in Rule, ReadForUpdate(p, r) \/ ReadForRemove(p, r)
        PROVE  UNCHANGED <<rule, copied>>
    BY <2>5 DEF ReadForUpdate, ReadForRemove, rules
  <2>6. ASSUME NEW p \in Process, NEW c, NEW source,
               ReadForCopy(p, c, source) \/ ReadForVenueCopy(p, c, source)
        PROVE  UNCHANGED <<rule, copied>>
    BY <2>6 DEF ReadForCopy, ReadForVenueCopy, rules
  <2>7. ASSUME NEW c \in Court, NEW d \in Day, Look(c, d) PROVE UNCHANGED <<rule, copied>>
    BY <2>7 DEF Look, rules
  <2>8. ASSUME ShowSlot \/ Book \/ ChargeSlot \/ Tick PROVE UNCHANGED <<rule, copied>>
    BY <2>8 DEF ShowSlot, Book, ChargeSlot, Tick, rules
  <2>9. CASE UNCHANGED vars
    BY <2>9, CopyStays DEF vars, rules
  <2>10. CASE Next
    BY <2>1, <2>2, <2>3, <2>4, <2>5, <2>6, <2>7, <2>8, <2>10, CopyStays DEF Next
  <2> QED
    BY <2>9, <2>10
<1> QED
  BY <1>1, <1>2, PricingTypeCorrect, FitCopyCharges, PTL DEF Spec
=============================================================================
