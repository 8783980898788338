------------------------------ MODULE Payments ------------------------------
(***************************************************************************)
(* PaymentsService and DisputesService (apps/api/src/payments, disputes):  *)
(* the payment row of every booking, the customer's dispute about it and   *)
(* the admin's decision.                                                   *)
(*                                                                         *)
(* markPaid, markRefunded, adminRefund, createDispute and resolve read a   *)
(* row, check its status, wait at least once, and save.  save(entity)      *)
(* writes every column of the entity that differs from the row of that     *)
(* moment, so what a handler saves is the row it READ with its own change. *)
(***************************************************************************)
EXTENDS Naturals

CONSTANTS
    Booking,
    Marker,         \* markPaid requests that may be in progress together
    Refunder,       \* markRefunded requests, likewise
    Customer,       \* createDispute requests, likewise
    Admin           \* resolve requests, likewise

Person == {"owner", "admin"}

\* payments: the columns status, paid_by, refunded_by.
NoPayment == [status |-> "absent", paidBy |-> "nobody", refundedBy |-> "nobody"]
PaymentRow == [status: {"absent", "unpaid", "paid", "refunded"},
               paidBy: Person \cup {"nobody"},
               refundedBy: Person \cup {"nobody"}]

DisputeStatus == {"absent", "pending", "resolved_refund", "rejected"}

VARIABLES
    payment,        \* [Booking -> PaymentRow]
    dispute,        \* [Booking -> DisputeStatus]; booking_id is unique
    marking,        \* progress of each markPaid
    refunding,      \* progress of each markRefunded
    disputing,      \* progress of each createDispute
    resolving,      \* progress of each resolve
    outbox          \* mails handed over, <<kind, booking>>

rows == <<payment, dispute>>
vars == <<rows, marking, refunding, disputing, resolving, outbox>>

Idle == [pc |-> "idle"]
Holding(pcs) == [pc: pcs, booking: Booking, row: PaymentRow]
Without(pcs) == [pc: pcs, booking: Booking]

\* Every column and every handler in progress holds a value of its type.
TypeOK ==
    /\ payment \in [Booking -> PaymentRow]
    /\ dispute \in [Booking -> DisputeStatus]
    /\ marking \in [Marker -> {Idle} \cup Holding({"read"}) \cup Without({"mail"})]
    /\ refunding \in [Refunder -> {Idle} \cup Holding({"read"}) \cup Without({"mail"})]
    /\ disputing \in [Customer -> {Idle} \cup Without({"paid", "unique"})]
    /\ resolving \in [Admin -> {Idle} \cup Holding({"read"})
                               \cup Without({"refund", "mail", "refunded", "reject", "rejected"})]
    /\ outbox \subseteq {"paid", "refunded", "rejected"} \X Booking

Init ==
    /\ payment = [b \in Booking |-> NoPayment]
    /\ dispute = [b \in Booking |-> "absent"]
    /\ marking = [m \in Marker |-> Idle]
    /\ refunding = [r \in Refunder |-> Idle]
    /\ disputing = [c \in Customer |-> Idle]
    /\ resolving = [a \in Admin |-> Idle]
    /\ outbox = {}

\* sendSafely: the mail goes out or its failure is logged and forgotten.
MaySend(kind, b) == outbox' \in {outbox, outbox \cup {<<kind, b>>}}

-----------------------------------------------------------------------------
(* PaymentsService *)

\* createForBooking, inside the transaction that creates the booking.
CreateForBooking(b) ==
    /\ payment[b].status = "absent"
    /\ payment' = [payment EXCEPT ![b].status = "unpaid"]
    /\ UNCHANGED <<dispute, marking, refunding, disputing, resolving, outbox>>

\* Mutant: a payment marked twice passes the check.
ReadUnpaidOrPaid(m, b) ==
    /\ marking[m] = Idle
    /\ payment[b].status \in {"unpaid", "paid"}
    /\ marking' = [marking EXCEPT ![m] =
                    [pc |-> "read", booking |-> b, row |-> payment[b]]]
    /\ UNCHANGED <<rows, refunding, disputing, resolving, outbox>>

\* Mutant: markPaid does not check the status.
ReadAnyPayment(m, b) ==
    /\ marking[m] = Idle
    /\ payment[b].status # "absent"
    /\ marking' = [marking EXCEPT ![m] =
                    [pc |-> "read", booking |-> b, row |-> payment[b]]]
    /\ UNCHANGED <<rows, refunding, disputing, resolving, outbox>>

\* markPaid, up to the read of the payment and its check.
ReadUnpaid(m, b) ==
    /\ marking[m] = Idle
    /\ payment[b].status = "unpaid"
    /\ marking' = [marking EXCEPT ![m] =
                    [pc |-> "read", booking |-> b, row |-> payment[b]]]
    /\ UNCHANGED <<rows, refunding, disputing, resolving, outbox>>

SavePaid(m) ==
    /\ marking[m].pc = "read"
    /\ LET b == marking[m].booking IN
        /\ payment' = [payment EXCEPT ![b] =
                [marking[m].row EXCEPT !.status = "paid", !.paidBy = "owner"]]
        /\ marking' = [marking EXCEPT ![m] = [pc |-> "mail", booking |-> b]]
    /\ UNCHANGED <<dispute, refunding, disputing, resolving, outbox>>

MailPaid(m) ==
    /\ marking[m].pc = "mail"
    /\ MaySend("paid", marking[m].booking)
    /\ marking' = [marking EXCEPT ![m] = Idle]
    /\ UNCHANGED <<rows, refunding, disputing, resolving>>

\* Mutant: performRefund does not record who refunded.
RefundedRowAnonymous(row, person) == [row EXCEPT !.status = "refunded"]

\* Mutant: performRefund puts the payment back to unpaid.
RefundedRowReset(row, person) == [row EXCEPT !.status = "unpaid", !.refundedBy = person]

\* performRefund: the row that is saved after row was read and found paid.
RefundedRow(row, person) == [row EXCEPT !.status = "refunded", !.refundedBy = person]

\* Mutant: markRefunded does not check the status.
ReadAnyForRefund(r, b) ==
    /\ refunding[r] = Idle
    /\ payment[b].status # "absent"
    /\ refunding' = [refunding EXCEPT ![r] =
                        [pc |-> "read", booking |-> b, row |-> payment[b]]]
    /\ UNCHANGED <<rows, marking, disputing, resolving, outbox>>

\* markRefunded, up to the read of the payment and its check.
ReadPaid(r, b) ==
    /\ refunding[r] = Idle
    /\ payment[b].status = "paid"
    /\ refunding' = [refunding EXCEPT ![r] =
                        [pc |-> "read", booking |-> b, row |-> payment[b]]]
    /\ UNCHANGED <<rows, marking, disputing, resolving, outbox>>

SaveRefunded(r) ==
    /\ refunding[r].pc = "read"
    /\ LET b == refunding[r].booking IN
        /\ payment' = [payment EXCEPT ![b] = RefundedRow(refunding[r].row, "owner")]
        /\ refunding' = [refunding EXCEPT ![r] = [pc |-> "mail", booking |-> b]]
    /\ UNCHANGED <<dispute, marking, disputing, resolving, outbox>>

MailRefunded(r) ==
    /\ refunding[r].pc = "mail"
    /\ MaySend("refunded", refunding[r].booking)
    /\ refunding' = [refunding EXCEPT ![r] = Idle]
    /\ UNCHANGED <<rows, marking, disputing, resolving>>

-----------------------------------------------------------------------------
(* DisputesService.createDispute *)

\* Mutant: createDispute does not check that the booking was paid.
ReadDisputedUnpaid(c, b) ==
    /\ disputing[c] = Idle
    /\ payment[b].status # "absent"
    /\ disputing' = [disputing EXCEPT ![c] = [pc |-> "paid", booking |-> b]]
    /\ UNCHANGED <<rows, marking, refunding, resolving, outbox>>

\* The read of the booking with its payment.
ReadDisputed(c, b) ==
    /\ disputing[c] = Idle
    /\ payment[b].status = "paid"
    /\ disputing' = [disputing EXCEPT ![c] = [pc |-> "paid", booking |-> b]]
    /\ UNCHANGED <<rows, marking, refunding, resolving, outbox>>

\* The read of an earlier dispute.
CheckUndisputed(c) ==
    /\ disputing[c].pc = "paid"
    /\ disputing' = [disputing EXCEPT ![c] =
            IF dispute[@.booking] = "absent" THEN [@ EXCEPT !.pc = "unique"] ELSE Idle]
    /\ UNCHANGED <<rows, marking, refunding, resolving, outbox>>

\* The insert; a second one fails on the unique booking_id.
InsertDispute(c) ==
    /\ disputing[c].pc = "unique"
    /\ LET b == disputing[c].booking IN
        dispute' = [dispute EXCEPT ![b] = IF @ = "absent" THEN "pending" ELSE @]
    /\ disputing' = [disputing EXCEPT ![c] = Idle]
    /\ UNCHANGED <<payment, marking, refunding, resolving, outbox>>

-----------------------------------------------------------------------------
(* DisputesService.resolve *)

\* Mutant: a refund is decided and adminRefund is not called.
ReadPendingRecordsOnly(a, b, action) ==
    /\ resolving[a] = Idle
    /\ dispute[b] = "pending"
    /\ resolving' = [resolving EXCEPT ![a] =
            [pc |-> IF action = "refund" THEN "refunded" ELSE "reject", booking |-> b]]
    /\ UNCHANGED <<rows, marking, refunding, disputing, outbox>>

\* The read of the dispute, its check and the choice of the action.
ReadPending(a, b, action) ==
    /\ resolving[a] = Idle
    /\ dispute[b] = "pending"
    /\ resolving' = [resolving EXCEPT ![a] = [pc |-> action, booking |-> b]]
    /\ UNCHANGED <<rows, marking, refunding, disputing, outbox>>

\* adminRefund, up to its check: a payment that is not paid ends the request.
AdminReadPaid(a) ==
    /\ resolving[a].pc = "refund"
    /\ LET b == resolving[a].booking IN
        resolving' = [resolving EXCEPT ![a] =
            IF payment[b].status = "paid"
                THEN [pc |-> "read", booking |-> b, row |-> payment[b]]
                ELSE Idle]
    /\ UNCHANGED <<rows, marking, refunding, disputing, outbox>>

AdminSaveRefunded(a) ==
    /\ resolving[a].pc = "read"
    /\ LET b == resolving[a].booking IN
        /\ payment' = [payment EXCEPT ![b] = RefundedRow(resolving[a].row, "admin")]
        /\ resolving' = [resolving EXCEPT ![a] = [pc |-> "mail", booking |-> b]]
    /\ UNCHANGED <<dispute, marking, refunding, disputing, outbox>>

\* The mails go out before the dispute is saved.
AdminMailRefunded(a) ==
    /\ resolving[a].pc = "mail"
    /\ MaySend("refunded", resolving[a].booking)
    /\ resolving' = [resolving EXCEPT ![a].pc = "refunded"]
    /\ UNCHANGED <<rows, marking, refunding, disputing>>

MailRejected(a) ==
    /\ resolving[a].pc = "reject"
    /\ MaySend("rejected", resolving[a].booking)
    /\ resolving' = [resolving EXCEPT ![a].pc = "rejected"]
    /\ UNCHANGED <<rows, marking, refunding, disputing>>

\* Mutant: the action's name is saved in place of the status.
SaveDecisionAsAction(a) ==
    /\ resolving[a].pc \in {"refunded", "rejected"}
    /\ dispute' = [dispute EXCEPT ![resolving[a].booking] =
            IF resolving[a].pc = "refunded" THEN "refund" ELSE "reject"]
    /\ resolving' = [resolving EXCEPT ![a] = Idle]
    /\ UNCHANGED <<payment, marking, refunding, disputing, outbox>>

\* The save of the dispute read at ReadPending, whatever its row is by now.
SaveDecision(a) ==
    /\ resolving[a].pc \in {"refunded", "rejected"}
    /\ dispute' = [dispute EXCEPT ![resolving[a].booking] =
            IF resolving[a].pc = "refunded" THEN "resolved_refund" ELSE "rejected"]
    /\ resolving' = [resolving EXCEPT ![a] = Idle]
    /\ UNCHANGED <<payment, marking, refunding, disputing, outbox>>

-----------------------------------------------------------------------------
\* The server restarts: requests in progress are gone, rows stay.
Restart ==
    /\ marking' = [m \in Marker |-> Idle]
    /\ refunding' = [r \in Refunder |-> Idle]
    /\ disputing' = [c \in Customer |-> Idle]
    /\ resolving' = [a \in Admin |-> Idle]
    /\ UNCHANGED <<rows, outbox>>

MarkStep(m) == (\E b \in Booking : ReadUnpaid(m, b)) \/ SavePaid(m) \/ MailPaid(m)

RefundStep(r) ==
    (\E b \in Booking : ReadPaid(r, b)) \/ SaveRefunded(r) \/ MailRefunded(r)

DisputeStep(c) ==
    (\E b \in Booking : ReadDisputed(c, b)) \/ CheckUndisputed(c) \/ InsertDispute(c)

ResolveStep(a) ==
    \/ \E b \in Booking, action \in {"refund", "reject"} : ReadPending(a, b, action)
    \/ AdminReadPaid(a)
    \/ AdminSaveRefunded(a)
    \/ AdminMailRefunded(a)
    \/ MailRejected(a)
    \/ SaveDecision(a)

Next ==
    \/ \E b \in Booking : CreateForBooking(b)
    \/ \E m \in Marker : MarkStep(m)
    \/ \E r \in Refunder : RefundStep(r)
    \/ \E c \in Customer : DisputeStep(c)
    \/ \E a \in Admin : ResolveStep(a)
    \/ Restart

Spec == Init /\ [][Next]_vars
-----------------------------------------------------------------------------
(* Properties *)

WasPaid(b) == payment[b].status \in {"paid", "refunded"}

\* A row's status and who acted on it.
RowIsConsistent(row) ==
    /\ row.paidBy # "nobody" <=> row.status \in {"paid", "refunded"}
    /\ row.refundedBy # "nobody" <=> row.status = "refunded"

\* Overlapping saves never mix columns: whatever the requests, a payment names
\* who refunded it exactly while it is refunded, and who received the money
\* from then on.
PaymentColumnsAgree == \A b \in Booking : RowIsConsistent(payment[b])

\* A dispute, and every request about to file or to decide one, is about a
\* booking the owner was paid for, though createDispute checks that two awaits
\* before it inserts.
DisputeIsAboutPaidBooking ==
    \A b \in Booking :
        \/ dispute[b] # "absent"
        \/ \E c \in Customer : disputing[c] # Idle /\ disputing[c].booking = b
        \/ \E a \in Admin : resolving[a] # Idle /\ resolving[a].booking = b
        => WasPaid(b)

\* A decision to refund stands only on a payment that is refunded, and no
\* customer was told of a refund that does not stand.
RefundDecisionsAreCarriedOut ==
    \A b \in Booking :
        dispute[b] = "resolved_refund" \/ <<"refunded", b>> \in outbox
            => payment[b].status = "refunded"

\* Money received is never forgotten.
MoneyIsNotForgotten ==
    [][\A b \in Booking : WasPaid(b) => WasPaid(b)']_vars

\* What the design promises of payments: nothing leads out of refunded.
RefundIsFinal ==
    [][\A b \in Booking :
        payment[b].status = "refunded" => payment'[b].status = "refunded"]_vars

\* What a handler in progress has read still bounds what the rows can be.
HandlersAgreeWithRows ==
    /\ \A m \in Marker :
        /\ marking[m].pc = "read" =>
            /\ marking[m].row.status = "unpaid"
            /\ RowIsConsistent(marking[m].row)
            /\ payment[marking[m].booking].status # "absent"
        /\ marking[m].pc = "mail" => WasPaid(marking[m].booking)
    /\ \A r \in Refunder :
        /\ refunding[r].pc = "read" =>
            /\ refunding[r].row.status = "paid"
            /\ RowIsConsistent(refunding[r].row)
            /\ WasPaid(refunding[r].booking)
        /\ refunding[r].pc = "mail" => WasPaid(refunding[r].booking)
    /\ \A a \in Admin :
        /\ resolving[a].pc = "read" =>
            /\ resolving[a].row.status = "paid"
            /\ RowIsConsistent(resolving[a].row)
        /\ resolving[a] # Idle => dispute[resolving[a].booking] # "absent"

\* The inductive invariant behind the properties that need no assumption.
PaymentsInvariant ==
    /\ TypeOK
    /\ PaymentColumnsAgree
    /\ DisputeIsAboutPaidBooking
    /\ HandlersAgreeWithRows

\* While markPaid requests do not overlap, the row one has read is the row
\* there is, and a refund that was saved stands.
RefundsStand ==
    /\ \A m \in Marker :
        marking[m].pc = "read" =>
            payment[marking[m].booking].status = "unpaid"
    /\ \A r \in Refunder :
        refunding[r].pc = "mail" =>
            payment[refunding[r].booking].status = "refunded"
    /\ \A a \in Admin :
        resolving[a].pc \in {"mail", "refunded"} =>
            payment[resolving[a].booking].status = "refunded"
    /\ RefundDecisionsAreCarriedOut
=============================================================================
