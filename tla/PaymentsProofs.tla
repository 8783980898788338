--------------------------- MODULE PaymentsProofs ---------------------------
(***************************************************************************)
(* Proofs about module Payments for any bookings and any number of         *)
(* requests in progress together.                                          *)
(***************************************************************************)
EXTENDS Payments, TLAPS

\* Every save writes values of the columns' types, also one whose row was read
\* long before.
THEOREM PaymentsTypeCorrect == Spec => []TypeOK
<1> USE DEF TypeOK, Idle, Holding, Without
<1>1. Init => TypeOK
  BY DEF Init, NoPayment, PaymentRow, Person, DisputeStatus
<1>2. TypeOK /\ [Next]_vars => TypeOK'
  <2> SUFFICES ASSUME TypeOK, [Next]_vars PROVE TypeOK'
    OBVIOUS
  <2>1. ASSUME NEW b \in Booking, CreateForBooking(b) PROVE TypeOK'
    BY <2>1 DEF CreateForBooking, PaymentRow
  <2>2. ASSUME NEW m \in Marker, MarkStep(m) PROVE TypeOK'
    <3>1. ASSUME NEW b \in Booking, ReadUnpaid(m, b) PROVE TypeOK'
      BY <3>1 DEF ReadUnpaid, rows
    <3>2. CASE SavePaid(m)
      <4>1. marking[m].booking \in Booking /\ marking[m].row \in PaymentRow
        BY <3>2 DEF SavePaid
      <4>2. [marking[m].row EXCEPT !.status = "paid", !.paidBy = "owner"] \in PaymentRow
        BY <4>1 DEF PaymentRow, Person
      <4> QED
        BY <3>2, <4>1, <4>2 DEF SavePaid
    <3>3. CASE MailPaid(m)
      BY <3>3 DEF MailPaid, MaySend, rows
    <3> QED
      BY <2>2, <3>1, <3>2, <3>3 DEF MarkStep
  <2>3. ASSUME NEW r \in Refunder, RefundStep(r) PROVE TypeOK'
    <3>1. ASSUME NEW b \in Booking, ReadPaid(r, b) PROVE TypeOK'
      BY <3>1 DEF ReadPaid, rows
    <3>2. CASE SaveRefunded(r)
      <4>1. refunding[r].booking \in Booking /\ refunding[r].row \in PaymentRow
        BY <3>2 DEF SaveRefunded
      <4>2. RefundedRow(refunding[r].row, "owner") \in PaymentRow
        BY <4>1 DEF RefundedRow, PaymentRow, Person
      <4> QED
        BY <3>2, <4>1, <4>2 DEF SaveRefunded
    <3>3. CASE MailRefunded(r)
      BY <3>3 DEF MailRefunded, MaySend, rows
    <3> QED
      BY <2>3, <3>1, <3>2, <3>3 DEF RefundStep
  <2>4. ASSUME NEW c \in Customer, DisputeStep(c) PROVE TypeOK'
    <3>1. ASSUME NEW b \in Booking, ReadDisputed(c, b) PROVE TypeOK'
      BY <3>1 DEF ReadDisputed, rows
    <3>2. CASE CheckUndisputed(c)
      BY <3>2 DEF CheckUndisputed, rows
    <3>3. CASE InsertDispute(c)
      BY <3>3 DEF InsertDispute, DisputeStatus
    <3> QED
      BY <2>4, <3>1, <3>2, <3>3 DEF DisputeStep
  <2>5. ASSUME NEW a \in Admin, ResolveStep(a) PROVE TypeOK'
    <3>1. ASSUME NEW b \in Booking, NEW action \in {"refund", "reject"},
                 ReadPending(a, b, action)
          PROVE  TypeOK'
      BY <3>1 DEF ReadPending, rows
    <3>2. CASE AdminReadPaid(a)
      BY <3>2 DEF AdminReadPaid, rows
    <3>3. CASE AdminSaveRefunded(a)
      <4>1. resolving[a].booking \in Booking /\ resolving[a].row \in PaymentRow
        BY <3>3 DEF AdminSaveRefunded
      <4>2. RefundedRow(resolving[a].row, "admin") \in PaymentRow
        BY <4>1 DEF RefundedRow, PaymentRow, Person
      <4> QED
        BY <3>3, <4>1, <4>2 DEF AdminSaveRefunded
    <3>4. CASE AdminMailRefunded(a)
      BY <3>4 DEF AdminMailRefunded, MaySend, rows
    <3>5. CASE MailRejected(a)
      BY <3>5 DEF MailRejected, MaySend, rows
    <3>6. CASE SaveDecision(a)
      BY <3>6 DEF SaveDecision, DisputeStatus
    <3> QED
      BY <2>5, <3>1, <3>2, <3>3, <3>4, <3>5, <3>6 DEF ResolveStep
  <2>6. CASE Restart
    BY <2>6 DEF Restart, rows
  <2>7. CASE UNCHANGED vars
    BY <2>7 DEF vars, rows
  <2> QED
    BY <2>1, <2>2, <2>3, <2>4, <2>5, <2>6, <2>7 DEF Next
<1> QED
  BY <1>1, <1>2, PTL DEF Spec

-----------------------------------------------------------------------------
\* Every step keeps the columns of a payment in agreement, disputes about paid
\* bookings, and what handlers hold in line with the rows.
LEMMA PaymentsInductiveStep ==
    ASSUME PaymentsInvariant, TypeOK', [Next]_vars
    PROVE  PaymentsInvariant'
<1> USE DEF PaymentsInvariant
<1> USE DEF PaymentColumnsAgree, DisputeIsAboutPaidBooking, HandlersAgreeWithRows,
    WasPaid, RowIsConsistent
<1>1. ASSUME NEW b \in Booking, CreateForBooking(b) PROVE PaymentsInvariant'
  BY <1>1 DEF CreateForBooking, TypeOK, Idle, Holding, Without, PaymentRow
<1>2. ASSUME NEW m \in Marker, MarkStep(m) PROVE PaymentsInvariant'
  <2>1. ASSUME NEW b \in Booking, ReadUnpaid(m, b) PROVE PaymentsInvariant'
    BY <2>1 DEF ReadUnpaid, rows, TypeOK, Idle
  <2>2. CASE SavePaid(m)
    <3>1. /\ marking[m].booking \in Booking
          /\ marking[m].row \in PaymentRow
          /\ marking[m].row.status = "unpaid"
          /\ RowIsConsistent(marking[m].row)
      BY <2>2 DEF SavePaid, TypeOK, Idle, Holding, Without
    <3> DEFINE new == [marking[m].row EXCEPT !.status = "paid", !.paidBy = "owner"]
    <3>2. RowIsConsistent(new) /\ new.status = "paid"
      BY <3>1 DEF PaymentRow
    <3> HIDE DEF new
    <3>3. payment' = [payment EXCEPT ![marking[m].booking] = new]
      BY <2>2 DEF SavePaid, new
    <3>4. PaymentColumnsAgree'
      BY <3>1, <3>2, <3>3 DEF TypeOK
    <3>5. DisputeIsAboutPaidBooking'
      BY <2>2, <3>1, <3>2, <3>3 DEF SavePaid, TypeOK
    <3>6. HandlersAgreeWithRows'
      BY <2>2, <3>1, <3>2, <3>3 DEF SavePaid, TypeOK, Idle, Holding, Without
    <3> QED
      BY <3>4, <3>5, <3>6
  <2>3. CASE MailPaid(m)
    BY <2>3 DEF MailPaid, rows, TypeOK, Idle
  <2> QED
    BY <1>2, <2>1, <2>2, <2>3 DEF MarkStep
<1>3. ASSUME NEW r \in Refunder, RefundStep(r) PROVE PaymentsInvariant'
  <2>1. ASSUME NEW b \in Booking, ReadPaid(r, b) PROVE PaymentsInvariant'
    BY <2>1 DEF ReadPaid, rows, TypeOK, Idle
  <2>2. CASE SaveRefunded(r)
    <3>1. /\ refunding[r].booking \in Booking
          /\ refunding[r].row \in PaymentRow
          /\ refunding[r].row.status = "paid"
          /\ RowIsConsistent(refunding[r].row)
      BY <2>2 DEF SaveRefunded, TypeOK, Idle, Holding, Without
    <3> DEFINE new == RefundedRow(refunding[r].row, "owner")
    <3>2. RowIsConsistent(new) /\ new.status = "refunded"
      BY <3>1 DEF PaymentRow, RefundedRow
    <3> HIDE DEF new
    <3>3. payment' = [payment EXCEPT ![refunding[r].booking] = new]
      BY <2>2 DEF SaveRefunded, new
    <3>4. PaymentColumnsAgree'
      BY <3>1, <3>2, <3>3 DEF TypeOK
    <3>5. DisputeIsAboutPaidBooking'
      BY <2>2, <3>1, <3>2, <3>3 DEF SaveRefunded, TypeOK
    <3>6. HandlersAgreeWithRows'
      BY <2>2, <3>1, <3>2, <3>3 DEF SaveRefunded, TypeOK, Idle, Holding, Without
    <3> QED
      BY <3>4, <3>5, <3>6
  <2>3. CASE MailRefunded(r)
    BY <2>3 DEF MailRefunded, rows, TypeOK, Idle
  <2> QED
    BY <1>3, <2>1, <2>2, <2>3 DEF RefundStep
<1>4. ASSUME NEW c \in Customer, DisputeStep(c) PROVE PaymentsInvariant'
  <2>1. ASSUME NEW b \in Booking, ReadDisputed(c, b) PROVE PaymentsInvariant'
    BY <2>1 DEF ReadDisputed, rows, TypeOK, Idle
  <2>2. CASE CheckUndisputed(c)
    BY <2>2 DEF CheckUndisputed, rows, TypeOK, Idle, Without
  <2>3. CASE InsertDispute(c)
    BY <2>3 DEF InsertDispute, rows, TypeOK, Idle, Without
  <2> QED
    BY <1>4, <2>1, <2>2, <2>3 DEF DisputeStep
<1>5. ASSUME NEW a \in Admin, ResolveStep(a) PROVE PaymentsInvariant'
  <2>1. ASSUME NEW b \in Booking, NEW action \in {"refund", "reject"},
               ReadPending(a, b, action)
        PROVE  PaymentsInvariant'
    BY <2>1 DEF ReadPending, rows, TypeOK, Idle
  <2>2. CASE AdminReadPaid(a)
    BY <2>2 DEF AdminReadPaid, rows, TypeOK, Idle, Holding, Without
  <2>3. CASE AdminSaveRefunded(a)
    <3>1. /\ resolving[a].booking \in Booking
          /\ resolving[a].row \in PaymentRow
          /\ resolving[a].row.status = "paid"
          /\ RowIsConsistent(resolving[a].row)
          /\ resolving[a] # Idle
      BY <2>3 DEF AdminSaveRefunded, TypeOK, Idle, Holding, Without
    <3> DEFINE new == RefundedRow(resolving[a].row, "admin")
    <3>2. RowIsConsistent(new) /\ new.status = "refunded"
      BY <3>1 DEF PaymentRow, RefundedRow
    <3> HIDE DEF new
    <3>3. payment' = [payment EXCEPT ![resolving[a].booking] = new]
      BY <2>3 DEF AdminSaveRefunded, new
    <3>4. PaymentColumnsAgree'
      BY <3>1, <3>2, <3>3 DEF TypeOK
    <3>5. DisputeIsAboutPaidBooking'
      BY <2>3, <3>1, <3>2, <3>3 DEF AdminSaveRefunded, TypeOK
    <3>6. HandlersAgreeWithRows'
      BY <2>3, <3>1, <3>2, <3>3 DEF AdminSaveRefunded, TypeOK, Idle, Holding, Without
    <3> QED
      BY <3>4, <3>5, <3>6
  <2>4. CASE AdminMailRefunded(a)
    BY <2>4 DEF AdminMailRefunded, rows, TypeOK, Idle, Holding, Without
  <2>5. CASE MailRejected(a)
    BY <2>5 DEF MailRejected, rows, TypeOK, Idle, Holding, Without
  <2>6. CASE SaveDecision(a)
    BY <2>6 DEF SaveDecision, rows, TypeOK, Idle, Holding, Without
  <2> QED
    BY <1>5, <2>1, <2>2, <2>3, <2>4, <2>5, <2>6 DEF ResolveStep
<1>6. CASE Restart
  BY <1>6 DEF Restart, rows, Idle
<1>7. CASE UNCHANGED vars
  BY <1>7 DEF vars, rows
<1> QED
  BY <1>1, <1>2, <1>3, <1>4, <1>5, <1>6, <1>7 DEF Next

\* In every reachable state the columns of a payment agree and every dispute is
\* about a booking that was paid.
THEOREM PaymentsInvariance == Spec => []PaymentsInvariant
<1>1. Init /\ TypeOK => PaymentsInvariant
  BY DEF Init, PaymentsInvariant, PaymentColumnsAgree, DisputeIsAboutPaidBooking,
    HandlersAgreeWithRows, WasPaid, RowIsConsistent, NoPayment, Idle
<1>2. PaymentsInvariant /\ TypeOK' /\ [Next]_vars => PaymentsInvariant'
  BY PaymentsInductiveStep
<1> QED
  BY <1>1, <1>2, PaymentsTypeCorrect, PTL DEF Spec

\* The status a handler's save gives a payment, and to which one.
LEMMA SavedStatus ==
    ASSUME PaymentsInvariant
    PROVE  /\ \A m \in Marker : SavePaid(m) =>
               /\ marking[m].booking \in Booking
               /\ \A b \in Booking : payment'[b].status =
                    IF b = marking[m].booking THEN "paid" ELSE payment[b].status
           /\ \A r \in Refunder : SaveRefunded(r) =>
               /\ refunding[r].booking \in Booking
               /\ \A b \in Booking : payment'[b].status =
                    IF b = refunding[r].booking THEN "refunded" ELSE payment[b].status
           /\ \A a \in Admin : AdminSaveRefunded(a) =>
               /\ resolving[a].booking \in Booking
               /\ \A b \in Booking : payment'[b].status =
                    IF b = resolving[a].booking THEN "refunded" ELSE payment[b].status
<1> USE DEF PaymentsInvariant, TypeOK, Idle, Holding, Without
<1>1. ASSUME NEW m \in Marker, SavePaid(m)
      PROVE  /\ marking[m].booking \in Booking
             /\ \A b \in Booking : payment'[b].status =
                    IF b = marking[m].booking THEN "paid" ELSE payment[b].status
  <2>1. marking[m].booking \in Booking /\ marking[m].row \in PaymentRow
    BY <1>1 DEF SavePaid
  <2>2. [marking[m].row EXCEPT !.status = "paid", !.paidBy = "owner"].status = "paid"
    BY <2>1 DEF PaymentRow
  <2> QED
    BY <1>1, <2>1, <2>2 DEF SavePaid
<1>2. ASSUME NEW r \in Refunder, SaveRefunded(r)
      PROVE  /\ refunding[r].booking \in Booking
             /\ \A b \in Booking : payment'[b].status =
                    IF b = refunding[r].booking THEN "refunded" ELSE payment[b].status
  <2>1. refunding[r].booking \in Booking /\ refunding[r].row \in PaymentRow
    BY <1>2 DEF SaveRefunded
  <2>2. RefundedRow(refunding[r].row, "owner").status = "refunded"
    BY <2>1 DEF PaymentRow, RefundedRow
  <2> QED
    BY <1>2, <2>1, <2>2 DEF SaveRefunded
<1>3. ASSUME NEW a \in Admin, AdminSaveRefunded(a)
      PROVE  /\ resolving[a].booking \in Booking
             /\ \A b \in Booking : payment'[b].status =
                    IF b = resolving[a].booking THEN "refunded" ELSE payment[b].status
  <2>1. resolving[a].booking \in Booking /\ resolving[a].row \in PaymentRow
    BY <1>3 DEF AdminSaveRefunded
  <2>2. RefundedRow(resolving[a].row, "admin").status = "refunded"
    BY <2>1 DEF PaymentRow, RefundedRow
  <2> QED
    BY <1>3, <2>1, <2>2 DEF AdminSaveRefunded
<1> QED
  BY <1>1, <1>2, <1>3

\* The steps of which SavedStatus does not speak save no payment, but for the
\* insert of a new one.
LEMMA OtherStepsSaveNothing ==
    ASSUME [Next]_vars,
           \A m \in Marker : ~SavePaid(m),
           \A r \in Refunder : ~SaveRefunded(r),
           \A a \in Admin : ~AdminSaveRefunded(a)
    PROVE  \/ UNCHANGED payment
           \/ \E b \in Booking : CreateForBooking(b)
BY DEF Next, MarkStep, ReadUnpaid, MailPaid, RefundStep, ReadPaid, MailRefunded,
  DisputeStep, ReadDisputed, CheckUndisputed, InsertDispute, ResolveStep,
  ReadPending, AdminReadPaid, AdminMailRefunded, MailRejected, SaveDecision,
  Restart, vars, rows

\* However requests overlap, a payment that was received stays received.
THEOREM MoneyIsKept == Spec => MoneyIsNotForgotten
<1>1. PaymentsInvariant /\ [Next]_vars
        => [\A b \in Booking : WasPaid(b) => WasPaid(b)']_vars
  <2> SUFFICES ASSUME PaymentsInvariant, [Next]_vars,
                      NEW b \in Booking, WasPaid(b)
               PROVE  WasPaid(b)'
    OBVIOUS
  <2>1. CASE \E x \in Booking : CreateForBooking(x)
    BY <2>1 DEF CreateForBooking, WasPaid, PaymentsInvariant, TypeOK
  <2> QED
    BY <2>1, SavedStatus, OtherStepsSaveNothing DEF WasPaid
<1> QED
  BY <1>1, PaymentsInvariance, PTL DEF Spec, MoneyIsNotForgotten

-----------------------------------------------------------------------------
\* No two markPaid requests are in progress together.
OneMarker == \A m, n \in Marker : m = n

\* With one markPaid at a time, no step takes a payment out of refunded, and
\* none but its own save touches a payment that a markPaid has read unpaid.
LEMMA RefundedStays ==
    ASSUME OneMarker, PaymentsInvariant, RefundsStand, [Next]_vars
    PROVE  /\ \A b \in Booking :
                payment[b].status = "refunded" => payment'[b].status = "refunded"
           /\ \A m \in Marker : marking[m].pc = "read" /\ marking'[m].pc = "read" =>
                payment'[marking[m].booking].status = "unpaid"
<1> USE DEF PaymentsInvariant, RefundsStand
<1>1. CASE \E m \in Marker : SavePaid(m)
  <2>1. PICK m \in Marker : SavePaid(m)
    BY <1>1
  <2>2. marking[m].pc = "read" /\ \A n \in Marker : n = m
    BY <2>1 DEF SavePaid, OneMarker
  <2>3. payment[marking[m].booking].status = "unpaid"
    BY <2>2
  <2>4. marking'[m].pc = "mail"
    BY <2>1 DEF SavePaid, TypeOK
  <2> QED
    BY <2>1, <2>2, <2>3, <2>4, SavedStatus
<1>2. CASE \E r \in Refunder : SaveRefunded(r)
  <2>1. PICK r \in Refunder : SaveRefunded(r)
    BY <1>2
  <2>2. WasPaid(refunding[r].booking)
    BY <2>1 DEF SaveRefunded, HandlersAgreeWithRows
  <2>3. \A m \in Marker : marking[m].pc = "read" =>
           marking[m].booking \in Booking /\ marking[m].booking # refunding[r].booking
    BY <2>2 DEF WasPaid, TypeOK, Idle, Holding, Without
  <2> QED
    BY <2>1, <2>3, SavedStatus
<1>3. CASE \E a \in Admin : AdminSaveRefunded(a)
  <2>1. PICK a \in Admin : AdminSaveRefunded(a)
    BY <1>3
  <2>2. WasPaid(resolving[a].booking)
    <3>1. resolving[a].pc = "read"
      BY <2>1 DEF AdminSaveRefunded
    <3>2. resolving[a] # Idle
      BY <3>1 DEF Idle
    <3>3. resolving[a].booking \in Booking
      BY <2>1, SavedStatus
    <3> QED
      BY <3>2, <3>3 DEF DisputeIsAboutPaidBooking
  <2>3. \A m \in Marker : marking[m].pc = "read" =>
           marking[m].booking \in Booking /\ marking[m].booking # resolving[a].booking
    BY <2>2 DEF WasPaid, TypeOK, Idle, Holding, Without
  <2> QED
    BY <2>1, <2>3, SavedStatus
<1>4. CASE \E x \in Booking : CreateForBooking(x)
  <2>1. PICK x \in Booking : CreateForBooking(x)
    BY <1>4
  <2>2. \A b \in Booking : payment[b].status # "absent" => payment'[b] = payment[b]
    BY <2>1 DEF CreateForBooking, TypeOK
  <2>3. \A m \in Marker : marking[m].pc = "read" => marking[m].booking \in Booking
    BY DEF TypeOK, Idle, Holding, Without
  <2> QED
    BY <2>2, <2>3
<1>5. CASE UNCHANGED payment
  BY <1>5
<1> QED
  BY <1>1, <1>2, <1>3, <1>4, <1>5, OtherStepsSaveNothing

\* A markPaid that has read its payment at the end of a step had read it before
\* the step, or reads it in the step.
LEMMA MarkingMoves ==
    ASSUME TypeOK, [Next]_vars, NEW m \in Marker
    PROVE  \/ marking'[m] = marking[m]
           \/ \E b \in Booking : ReadUnpaid(m, b)
           \/ marking'[m].pc # "read"
<1>1. ASSUME NEW n \in Marker, MarkStep(n), n # m PROVE marking'[m] = marking[m]
  BY <1>1 DEF MarkStep, ReadUnpaid, SavePaid, MailPaid, TypeOK
<1>2. CASE MarkStep(m)
  BY <1>2 DEF MarkStep, ReadUnpaid, SavePaid, MailPaid, TypeOK, Idle
<1>3. CASE Restart
  BY <1>3 DEF Restart, Idle
<1> QED
  BY <1>1, <1>2, <1>3 DEF Next, CreateForBooking, RefundStep, ReadPaid,
    SaveRefunded, MailRefunded, DisputeStep, ReadDisputed, CheckUndisputed,
    InsertDispute, ResolveStep, ReadPending, AdminReadPaid, AdminSaveRefunded,
    AdminMailRefunded, MailRejected, SaveDecision, vars

\* A markRefunded about to mail at the end of a step was so before the step, or
\* saves in the step.
LEMMA RefundingMoves ==
    ASSUME TypeOK, [Next]_vars, NEW r \in Refunder
    PROVE  \/ refunding'[r] = refunding[r]
           \/ SaveRefunded(r) /\ refunding'[r].booking = refunding[r].booking
           \/ refunding'[r].pc # "mail"
<1>1. ASSUME NEW q \in Refunder, RefundStep(q), q # r
      PROVE  refunding'[r] = refunding[r]
  BY <1>1 DEF RefundStep, ReadPaid, SaveRefunded, MailRefunded, TypeOK
<1>2. CASE RefundStep(r)
  BY <1>2 DEF RefundStep, ReadPaid, SaveRefunded, MailRefunded, TypeOK, Idle
<1>3. CASE Restart
  BY <1>3 DEF Restart, Idle
<1> QED
  BY <1>1, <1>2, <1>3 DEF Next, CreateForBooking, MarkStep, ReadUnpaid, SavePaid,
    MailPaid, DisputeStep, ReadDisputed, CheckUndisputed, InsertDispute,
    ResolveStep, ReadPending, AdminReadPaid, AdminSaveRefunded,
    AdminMailRefunded, MailRejected, SaveDecision, vars

\* An admin whose refund is saved at the end of a step had it saved before the
\* step, or saves it in the step.
LEMMA ResolvingMoves ==
    ASSUME TypeOK, [Next]_vars, NEW a \in Admin
    PROVE  \/ resolving'[a] = resolving[a]
           \/ AdminSaveRefunded(a) /\ resolving'[a].booking = resolving[a].booking
           \/ /\ AdminMailRefunded(a)
              /\ resolving'[a].booking = resolving[a].booking
           \/ resolving'[a].pc \notin {"mail", "refunded"}
<1>1. ASSUME NEW x \in Admin, ResolveStep(x), x # a
      PROVE  resolving'[a] = resolving[a]
  BY <1>1 DEF ResolveStep, ReadPending, AdminReadPaid, AdminSaveRefunded,
    AdminMailRefunded, MailRejected, SaveDecision, TypeOK
<1>2. CASE ResolveStep(a)
  <2>1. CASE \E b \in Booking, action \in {"refund", "reject"} : ReadPending(a, b, action)
    BY <2>1 DEF ReadPending, TypeOK
  <2>2. CASE AdminReadPaid(a)
    BY <2>2 DEF AdminReadPaid, TypeOK, Idle
  <2>3. CASE AdminSaveRefunded(a)
    BY <2>3 DEF AdminSaveRefunded, TypeOK
  <2>4. CASE AdminMailRefunded(a)
    BY <2>4 DEF AdminMailRefunded, TypeOK, Idle, Holding, Without
  <2>5. CASE MailRejected(a)
    BY <2>5 DEF MailRejected, TypeOK, Idle, Holding, Without
  <2>6. CASE SaveDecision(a)
    BY <2>6 DEF SaveDecision, TypeOK, Idle
  <2> QED
    BY <1>2, <2>1, <2>2, <2>3, <2>4, <2>5, <2>6 DEF ResolveStep
<1>3. CASE Restart
  BY <1>3 DEF Restart, Idle
<1> QED
  BY <1>1, <1>2, <1>3 DEF Next, CreateForBooking, MarkStep, ReadUnpaid, SavePaid,
    MailPaid, RefundStep, ReadPaid, SaveRefunded, MailRefunded, DisputeStep,
    ReadDisputed, CheckUndisputed, InsertDispute, vars

\* A decision to refund, or a refund mail, that a step adds comes from a request
\* whose refund is saved.
LEMMA DecisionMoves ==
    ASSUME TypeOK, [Next]_vars, NEW b \in Booking,
           dispute'[b] = "resolved_refund" \/ <<"refunded", b>> \in outbox'
    PROVE  \/ dispute[b] = "resolved_refund" \/ <<"refunded", b>> \in outbox
           \/ \E r \in Refunder : MailRefunded(r) /\ refunding[r].booking = b
           \/ \E a \in Admin : AdminMailRefunded(a) /\ resolving[a].booking = b
           \/ \E a \in Admin : /\ SaveDecision(a) /\ resolving[a].booking = b
                                /\ resolving[a].pc = "refunded"
<1>1. ASSUME NEW r \in Refunder, MailRefunded(r) PROVE UNCHANGED dispute
  BY <1>1 DEF MailRefunded, rows
<1>2. ASSUME NEW a \in Admin, AdminMailRefunded(a) PROVE UNCHANGED dispute
  BY <1>2 DEF AdminMailRefunded, rows
<1>3. ASSUME NEW m \in Marker, MailPaid(m) PROVE UNCHANGED dispute
  BY <1>3 DEF MailPaid, rows
<1>4. ASSUME NEW a \in Admin, MailRejected(a) PROVE UNCHANGED dispute
  BY <1>4 DEF MailRejected, rows
<1>5. ASSUME NEW a \in Admin, SaveDecision(a), resolving[a].booking = b,
             dispute'[b] = "resolved_refund"
      PROVE  resolving[a].pc = "refunded"
  BY <1>5 DEF SaveDecision, TypeOK
<1>6. ASSUME NEW a \in Admin, SaveDecision(a), resolving[a].booking # b
      PROVE  dispute'[b] = dispute[b]
  BY <1>6 DEF SaveDecision, TypeOK
<1>7. ASSUME NEW c \in Customer, InsertDispute(c), dispute'[b] = "resolved_refund"
      PROVE  dispute[b] = "resolved_refund"
  BY <1>7 DEF InsertDispute, TypeOK
<1>8. ASSUME NEW a \in Admin, SaveDecision(a) PROVE UNCHANGED outbox
  BY <1>8 DEF SaveDecision
<1>9. ASSUME NEW c \in Customer, InsertDispute(c) PROVE UNCHANGED outbox
  BY <1>9 DEF InsertDispute
<1>10. CASE \E r \in Refunder : MailRefunded(r)
  BY <1>1, <1>10 DEF MailRefunded, MaySend
<1>11. CASE \E a \in Admin : AdminMailRefunded(a)
  BY <1>2, <1>11 DEF AdminMailRefunded, MaySend
<1>12. CASE \E m \in Marker : MailPaid(m)
  BY <1>3, <1>12 DEF MailPaid, MaySend
<1>13. CASE \E a \in Admin : MailRejected(a)
  BY <1>4, <1>13 DEF MailRejected, MaySend
<1>14. CASE \E a \in Admin : SaveDecision(a)
  BY <1>5, <1>6, <1>8, <1>14
<1>15. CASE \E c \in Customer : InsertDispute(c)
  BY <1>7, <1>9, <1>15
<1>16. CASE UNCHANGED <<dispute, outbox>>
  BY <1>16
<1> QED
  BY <1>10, <1>11, <1>12, <1>13, <1>14, <1>15, <1>16 DEF Next, CreateForBooking,
    MarkStep, ReadUnpaid, SavePaid, RefundStep, ReadPaid, SaveRefunded,
    DisputeStep, ReadDisputed, CheckUndisputed, ResolveStep, ReadPending,
    AdminReadPaid, AdminSaveRefunded, Restart, vars, rows

\* With one markPaid at a time every refund stands.
LEMMA RefundsStandStep ==
    ASSUME OneMarker, PaymentsInvariant, RefundsStand, [Next]_vars
    PROVE  RefundsStand'
<1> USE DEF PaymentsInvariant, RefundsStand
<1>1. /\ \A r \in Refunder : refunding[r].pc = "mail" => refunding[r].booking \in Booking
      /\ \A a \in Admin : resolving[a].pc \in {"mail", "refunded"}
                            => resolving[a].booking \in Booking
  BY DEF TypeOK, Idle, Holding, Without
<1>2. ASSUME NEW m \in Marker, marking'[m].pc = "read"
      PROVE  payment'[marking'[m].booking].status = "unpaid"
  <2>1. CASE marking'[m] = marking[m]
    BY <1>2, <2>1, RefundedStays
  <2>2. CASE \E b \in Booking : ReadUnpaid(m, b)
    BY <2>2 DEF ReadUnpaid, rows, TypeOK
  <2> QED
    BY <1>2, <2>1, <2>2, MarkingMoves
<1>3. ASSUME NEW r \in Refunder, refunding'[r].pc = "mail"
      PROVE  payment'[refunding'[r].booking].status = "refunded"
  <2>1. CASE refunding'[r] = refunding[r]
    BY <1>1, <1>3, <2>1, RefundedStays
  <2>2. CASE SaveRefunded(r) /\ refunding'[r].booking = refunding[r].booking
    BY <2>2, SavedStatus
  <2> QED
    BY <1>3, <2>1, <2>2, RefundingMoves
<1>4. ASSUME NEW a \in Admin, resolving'[a].pc \in {"mail", "refunded"}
      PROVE  payment'[resolving'[a].booking].status = "refunded"
  <2>1. CASE resolving'[a] = resolving[a]
    BY <1>1, <1>4, <2>1, RefundedStays
  <2>2. CASE AdminSaveRefunded(a) /\ resolving'[a].booking = resolving[a].booking
    BY <2>2, SavedStatus
  <2>3. CASE AdminMailRefunded(a) /\ resolving'[a].booking = resolving[a].booking
    BY <1>1, <2>3, RefundedStays DEF AdminMailRefunded
  <2> QED
    BY <1>4, <2>1, <2>2, <2>3, ResolvingMoves
<1>5. RefundDecisionsAreCarriedOut'
  <2> SUFFICES ASSUME NEW b \in Booking,
                      dispute'[b] = "resolved_refund" \/ <<"refunded", b>> \in outbox'
               PROVE  payment'[b].status = "refunded"
    BY DEF RefundDecisionsAreCarriedOut
  <2>1. payment[b].status = "refunded"
    BY DecisionMoves DEF RefundDecisionsAreCarriedOut, MailRefunded, AdminMailRefunded
  <2> QED
    BY <2>1, RefundedStays
<1> QED
  BY <1>2, <1>3, <1>4, <1>5

\* With one markPaid at a time: no payment leaves refunded, every decision to
\* refund is carried out, every refund mail is true.
THEOREM RefundsStandWithOneMarker ==
    ASSUME OneMarker
    PROVE  Spec => RefundIsFinal /\ []RefundDecisionsAreCarriedOut
<1>1. Init => RefundsStand
  BY DEF Init, RefundsStand, RefundDecisionsAreCarriedOut, Idle
<1>2. PaymentsInvariant /\ RefundsStand /\ [Next]_vars => RefundsStand'
  BY RefundsStandStep
<1>3. PaymentsInvariant /\ RefundsStand /\ [Next]_vars
        => [\A b \in Booking : payment[b].status = "refunded"
                                => payment'[b].status = "refunded"]_vars
  BY RefundedStays
<1>4. RefundsStand => RefundDecisionsAreCarriedOut
  BY DEF RefundsStand
<1> QED
  BY <1>1, <1>2, <1>3, <1>4, PaymentsInvariance, PTL DEF Spec, RefundIsFinal

\* With one markPaid at a time, what the disputes page and the refund mails say
\* is what the payments table says: no decision to refund is left undone.
THEOREM RefundDecisionsStand ==
    ASSUME OneMarker
    PROVE  Spec => []RefundDecisionsAreCarriedOut
<1>1. Spec => RefundIsFinal /\ []RefundDecisionsAreCarriedOut
  BY RefundsStandWithOneMarker
<1> QED
  BY <1>1, PTL
=============================================================================
