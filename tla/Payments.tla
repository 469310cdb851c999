------------------------------- MODULE Payments -------------------------------
(***************************************************************************)
(* The money of one reservation: Razorpay orders, their capture by the     *)
(* verify endpoint and by webhooks, refunds by staff, and an extension     *)
(* that changes what the stay costs (paymentService.ts and decideExtension *)
(* of reservationService.ts).  Where its rooms come from is Booking.tla.   *)
(*                                                                         *)
(* A transaction or a single statement is one step; a handler that reads   *)
(* first keeps what it read in request[p].  A webhook may come any number  *)
(* of times and in any order while its event is fresh (the replay window   *)
(* of routes/webhooks.ts), or not at all.  A request may fail before its   *)
(* write - a webhook that does is answered 200 all the same - and the      *)
(* process may stop at any time and forget its requests.                   *)
(*                                                                         *)
(* A definition whose name starts with "Mutant" is not part of the model:  *)
(* it is a plausible slip in the code that the definition below it models. *)
(***************************************************************************)
EXTENDS Naturals, FiniteSets, FiniteSetsExt

CONSTANTS
    Payments,       \* bound: Payment rows, each with its Razorpay order
    Requests,       \* handler calls that can be in flight at once
    Total,          \* totalAmount of the booked stay
    ExtendedTotal,  \* totalAmount of the stay once it is extended
    FailingOrders,  \* orders of which the guest's first attempt may be declined
    RefundedOrders  \* orders that staff may refund

ASSUME AmountsAssumption ==
    /\ Total \in Nat \ {0}
    /\ ExtendedTotal \in Nat
    /\ Total <= ExtendedTotal

ASSUME OrdersAssumption ==
    /\ IsFiniteSet(Payments)
    /\ FailingOrders \subseteq Payments
    /\ RefundedOrders \subseteq Payments

VARIABLES
    reservation,  \* the Reservation row
    payment,      \* the Payment table
    provider,     \* what Razorpay knows of each order
    request       \* what each in-flight handler has read so far

vars == <<reservation, payment, provider, request>>

Amounts == 0..ExtendedTotal

ReservationRow ==
    [status: {"PENDING_PAYMENT", "CONFIRMED", "EXPIRED", "CANCELLED"},
     totalAmount: {Total, ExtendedTotal}, amountPaid: Amounts, amountDue: Amounts]

\* providerPaymentId is set by the first capture and never unset.
PaymentRow ==
    [status: {"NONE", "CREATED", "CAPTURED", "FAILED", "REFUNDED",
              "PARTIALLY_REFUNDED"},
     amount: Amounts, providerPaymentId: BOOLEAN]
NoPayment == [status |-> "NONE", amount |-> 0, providerPaymentId |-> FALSE]

\* External: an order is paid at most once, after any number of failed attempts.
\* capturedEvent and failedEvent are TRUE while a webhook that reports the
\* capture or a failed attempt would still be accepted.  settled: a delivery of
\* the capture that failed here was answered 200, so Razorpay need not repeat it.
ProviderOrder ==
    [captured: BOOLEAN, capturedEvent: BOOLEAN, failedEvent: BOOLEAN,
     settled: BOOLEAN, refunded: Amounts]
OpenOrder ==
    [captured |-> FALSE, capturedEvent |-> FALSE, failedEvent |-> FALSE,
     settled |-> FALSE, refunded |-> 0]

Idle == [at |-> "idle"]
RequestState ==
    {Idle}
    \cup [at: {"createOrder"}, amount: Amounts]
    \cup [at: {"capture"}, payment: Payments, paid: Amounts,
          total: {Total, ExtendedTotal}, confirms: BOOLEAN, webhook: BOOLEAN]
    \cup [at: {"refundCall", "refundMark", "refundRead"},
          payment: Payments, amount: Amounts]
    \cup [at: {"refundWrite"}, amount: Amounts, paid: Amounts,
          total: {Total, ExtendedTotal}]
    \cup [at: {"extend"}, paid: Amounts]

AtMost(a, b) == IF a <= b THEN a ELSE b
Less(a, b) == IF a >= b THEN a - b ELSE 0

Exists(o) == payment[o].status # "NONE"

-------------------------------------------------------------------------------
(* createOrderForReservation                                               *)

\* A reservation that has lapsed can still be paid: EXPIRED is not rejected.
Payable ==
    /\ reservation.status \notin {"CANCELLED", "CHECKED_OUT", "NO_SHOW"}
    /\ reservation.amountDue > 0

\* Bound: a row is left for every order that is being created.
RowsLeft ==
    Cardinality({o \in Payments : ~Exists(o)})
        > Cardinality({p \in Requests : request[p].at = "createOrder"})

\* If a CREATED payment exists it is returned and nothing changes.  The order
\* at the provider is created before the row and is of no use without it.
CreateOrderRead(p) ==
    /\ request[p] = Idle
    /\ RowsLeft
    /\ Payable
    /\ \A o \in Payments : payment[o].status # "CREATED"
    /\ request' = [request EXCEPT ![p] =
                        [at |-> "createOrder", amount |-> reservation.amountDue]]
    /\ UNCHANGED <<reservation, payment, provider>>

CreateOrder(p) ==
    /\ request[p].at = "createOrder"
    /\ \E o \in Payments :
        /\ ~Exists(o)
        /\ payment' = [payment EXCEPT ![o] =
                [status |-> "CREATED", amount |-> request[p].amount,
                 providerPaymentId |-> FALSE]]
    /\ request' = [request EXCEPT ![p] = Idle]
    /\ UNCHANGED <<reservation, provider>>

-------------------------------------------------------------------------------
(* External: the guest at the Razorpay checkout                            *)

AttemptFails(o) ==
    /\ o \in FailingOrders
    /\ Exists(o)
    /\ ~provider[o].captured
    /\ provider' = [provider EXCEPT ![o].failedEvent = TRUE]
    /\ UNCHANGED <<reservation, payment, request>>

GuestPays(o) ==
    /\ Exists(o)
    /\ ~provider[o].captured
    /\ provider' = [provider EXCEPT ![o].captured = TRUE,
                                    ![o].capturedEvent = TRUE]
    /\ UNCHANGED <<reservation, payment, request>>

\* isWithinReplayWindow: created_at is more than five minutes ago, and every
\* further delivery of the event is answered with 401.
EventAges(o) ==
    /\ \/ /\ provider[o].capturedEvent
          /\ provider' = [provider EXCEPT ![o].capturedEvent = FALSE]
       \/ /\ provider[o].failedEvent
          /\ provider' = [provider EXCEPT ![o].failedEvent = FALSE]
    /\ UNCHANGED <<reservation, payment, request>>

-------------------------------------------------------------------------------
(* verifyAndCapture and the payment.captured webhook                       *)

\* The payment and its reservation are read before the transaction.
ReadForCapture(p, o, webhook) ==
    /\ request[p] = Idle
    /\ Exists(o)
    /\ request' = [request EXCEPT ![p] =
            [at |-> "capture", payment |-> o, paid |-> reservation.amountPaid,
             total |-> reservation.totalAmount,
             confirms |-> reservation.status = "PENDING_PAYMENT",
             webhook |-> webhook]]
    /\ UNCHANGED <<reservation, payment, provider>>

\* The signature was not checked.
MutantVerifyRead(p) == \E o \in Payments : ReadForCapture(p, o, FALSE)

\* A valid signature exists only for an order that was paid.
VerifyRead(p) ==
    \E o \in Payments : provider[o].captured /\ ReadForCapture(p, o, FALSE)

\* The webhook looks for the row in CREATED, as the order endpoint does.
MutantCapturedWebhookRead(p, o) ==
    /\ provider[o].capturedEvent
    /\ payment[o].status = "CREATED"
    /\ ReadForCapture(p, o, TRUE)

CapturedWebhookRead(p, o) ==
    /\ provider[o].capturedEvent
    /\ ReadForCapture(p, o, TRUE)

\* The transaction does not look whether the payment is CAPTURED already.
MutantCapture(p) ==
    /\ request[p].at = "capture"
    /\ LET o == request[p].payment
           newAmountPaid == AtMost(request[p].paid + payment[o].amount,
                                   request[p].total)
       IN
        /\ payment' = [payment EXCEPT ![o].status = "CAPTURED",
                                      ![o].providerPaymentId = TRUE]
        /\ reservation' = [reservation EXCEPT
                !.amountPaid = newAmountPaid,
                !.amountDue = Less(request[p].total, newAmountPaid),
                !.status = IF request[p].confirms THEN "CONFIRMED" ELSE @]
    /\ request' = [request EXCEPT ![p] = Idle]
    /\ UNCHANGED provider

\* The transaction reads the payment's status again, and writes amounts and a
\* status computed from the reservation as it was.
Capture(p) ==
    /\ request[p].at = "capture"
    /\ LET o == request[p].payment
           newAmountPaid == AtMost(request[p].paid + payment[o].amount,
                                   request[p].total)
       IN
        IF payment[o].status = "CAPTURED"
        THEN UNCHANGED <<reservation, payment>>
        ELSE
        /\ payment' = [payment EXCEPT ![o].status = "CAPTURED",
                                      ![o].providerPaymentId = TRUE]
        /\ reservation' = [reservation EXCEPT
                !.amountPaid = newAmountPaid,
                !.amountDue = Less(request[p].total, newAmountPaid),
                !.status = IF request[p].confirms THEN "CONFIRMED" ELSE @]
    /\ request' = [request EXCEPT ![p] = Idle]
    /\ UNCHANGED provider

\* An error before the transaction is through.  The guest is told; a webhook's is
\* logged, by the handler or by the route, and answered 200.
CaptureFails(p) ==
    /\ request[p].at = "capture"
    /\ provider' = [provider EXCEPT ![request[p].payment].settled =
                        @ \/ request[p].webhook]
    /\ request' = [request EXCEPT ![p] = Idle]
    /\ UNCHANGED <<reservation, payment>>

-------------------------------------------------------------------------------
(* The payment.failed and refund.processed webhooks                        *)

\* One updateMany whatever the status.  An event without order_id (a payment
\* made without an order) leaves the filter out and matches every row.
FailedWebhook ==
    /\ \E failed \in {{o} : o \in {x \in Payments : provider[x].failedEvent}}
                     \cup (IF FailingOrders = {} THEN {} ELSE {Payments}) :
            payment' = [o \in Payments |->
                            IF o \in failed /\ Exists(o)
                            THEN [payment[o] EXCEPT !.status = "FAILED"]
                            ELSE payment[o]]
    /\ UNCHANGED <<reservation, provider, request>>

\* A partial refund is also reported as REFUNDED.
RefundedWebhook(o) ==
    /\ provider[o].refunded > 0
    /\ payment[o].providerPaymentId
    /\ payment' = [payment EXCEPT ![o].status = "REFUNDED"]
    /\ UNCHANGED <<reservation, provider, request>>

-------------------------------------------------------------------------------
(* refundPayment: read, call the provider, mark the payment, read the      *)
(* reservation, write the reservation                                      *)

Refundable(o) ==
    /\ o \in RefundedOrders
    /\ payment[o].status = "CAPTURED"
    /\ payment[o].providerPaymentId

RefundRead(p) ==
    /\ request[p] = Idle
    /\ \E o \in Payments :
        /\ Refundable(o)
        /\ \E amount \in 1..payment[o].amount :
            request' = [request EXCEPT ![p] =
                [at |-> "refundCall", payment |-> o, amount |-> amount]]
    /\ UNCHANGED <<reservation, payment, provider>>

\* External: the provider refuses to return more than it captured.
RefundCall(p) ==
    /\ request[p].at = "refundCall"
    /\ LET o == request[p].payment
           refunded == provider[o].refunded + request[p].amount
       IN IF refunded <= payment[o].amount
          THEN /\ provider' = [provider EXCEPT ![o].refunded = refunded]
               /\ request' = [request EXCEPT ![p].at = "refundMark"]
          ELSE /\ request' = [request EXCEPT ![p] = Idle]
               /\ UNCHANGED provider
    /\ UNCHANGED <<reservation, payment>>

RefundMark(p) ==
    /\ request[p].at = "refundMark"
    /\ LET o == request[p].payment IN
        payment' = [payment EXCEPT ![o].status =
            IF request[p].amount = payment[o].amount THEN "REFUNDED"
                                                     ELSE "PARTIALLY_REFUNDED"]
    /\ request' = [request EXCEPT ![p].at = "refundRead"]
    /\ UNCHANGED <<reservation, provider>>

RefundReadReservation(p) ==
    /\ request[p].at = "refundRead"
    /\ request' = [request EXCEPT ![p] =
            [at |-> "refundWrite", amount |-> request[p].amount,
             paid |-> reservation.amountPaid, total |-> reservation.totalAmount]]
    /\ UNCHANGED <<reservation, payment, provider>>

RefundWrite(p) ==
    /\ request[p].at = "refundWrite"
    /\ LET newAmountPaid == Less(request[p].paid, request[p].amount) IN
        reservation' = [reservation EXCEPT
            !.amountPaid = newAmountPaid,
            !.amountDue = AtMost(request[p].total - newAmountPaid, request[p].total)]
    /\ request' = [request EXCEPT ![p] = Idle]
    /\ UNCHANGED <<payment, provider>>

-------------------------------------------------------------------------------
(* The other writers of the reservation                                    *)

\* decideExtension prices the longer stay from a row it read earlier.
ExtendRead(p) ==
    /\ request[p] = Idle
    /\ request' = [request EXCEPT ![p] =
                        [at |-> "extend", paid |-> reservation.amountPaid]]
    /\ UNCHANGED <<reservation, payment, provider>>

\* What is due is counted from what was due.
MutantExtend(p) ==
    /\ request[p].at = "extend"
    /\ reservation' = [reservation EXCEPT
            !.totalAmount = ExtendedTotal,
            !.amountDue = ExtendedTotal - Total]
    /\ request' = [request EXCEPT ![p] = Idle]
    /\ UNCHANGED <<payment, provider>>

Extend(p) ==
    /\ request[p].at = "extend"
    /\ reservation' = [reservation EXCEPT
            !.totalAmount = ExtendedTotal,
            !.amountDue = ExtendedTotal - request[p].paid]
    /\ request' = [request EXCEPT ![p] = Idle]
    /\ UNCHANGED <<payment, provider>>

\* The sweep and a cancellation, as their last write leaves the row
\* (Booking.tla has their steps).
Expire ==
    /\ reservation.status = "PENDING_PAYMENT"
    /\ reservation' = [reservation EXCEPT !.status = "EXPIRED"]
    /\ UNCHANGED <<payment, provider, request>>

Cancel ==
    /\ reservation.status # "CANCELLED"
    /\ reservation' = [reservation EXCEPT !.status = "CANCELLED"]
    /\ UNCHANGED <<payment, provider, request>>

\* The process stops: its requests are forgotten, the tables are not.
Restart ==
    /\ request' = [p \in Requests |-> Idle]
    /\ UNCHANGED <<reservation, payment, provider>>

-------------------------------------------------------------------------------
\* A booking that staff create is CONFIRMED before anything is paid.
Init ==
    /\ \E status \in {"PENDING_PAYMENT", "CONFIRMED"} :
        reservation = [status |-> status, totalAmount |-> Total,
                       amountPaid |-> 0, amountDue |-> Total]
    /\ payment = [o \in Payments |-> NoPayment]
    /\ provider = [o \in Payments |-> OpenOrder]
    /\ request = [p \in Requests |-> Idle]

Handler(p) ==
    \/ CreateOrderRead(p)
    \/ CreateOrder(p)
    \/ VerifyRead(p)
    \/ \E o \in Payments : CapturedWebhookRead(p, o)
    \/ Capture(p)
    \/ CaptureFails(p)
    \/ RefundRead(p)
    \/ RefundCall(p)
    \/ RefundMark(p)
    \/ RefundReadReservation(p)
    \/ RefundWrite(p)
    \/ ExtendRead(p)
    \/ Extend(p)

Next ==
    \/ \E p \in Requests : Handler(p)
    \/ \E o \in Payments :
        \/ AttemptFails(o)
        \/ GuestPays(o)
        \/ EventAges(o)
        \/ RefundedWebhook(o)
    \/ FailedWebhook
    \/ Expire
    \/ Cancel
    \/ Restart

Spec == Init /\ [][Next]_vars

\* Razorpay repeats payment.captured until it is answered 200, which it is once the
\* capture is recorded or has failed; a handler is not stopped by restarts and errors
\* each time it comes so far; nobody else is obliged to act.
FairSpec ==
    /\ Spec
    /\ \A o \in Payments :
        SF_vars(/\ ~payment[o].providerPaymentId /\ ~provider[o].settled
                /\ \E p \in Requests : CapturedWebhookRead(p, o))
    /\ \A p \in Requests, o \in Payments :
        SF_vars(Capture(p) /\ request[p].payment = o)
    /\ \A p \in Requests :
        /\ WF_vars(CreateOrder(p))
        /\ WF_vars(RefundCall(p))
        /\ WF_vars(RefundMark(p))
        /\ WF_vars(RefundReadReservation(p))
        /\ WF_vars(RefundWrite(p))
        /\ WF_vars(Extend(p))

-------------------------------------------------------------------------------
(* Properties                                                              *)

\* Every row and in-flight request is well formed; in particular no amount of
\* the reservation exceeds what the longest stay costs, whatever was read when.
TypeOK ==
    /\ reservation \in ReservationRow
    /\ payment \in [Payments -> PaymentRow]
    /\ provider \in [Payments -> ProviderOrder]
    /\ request \in [Requests -> RequestState]

\* What confirms a reservation is the recording of a capture: a second report of
\* the same payment, begun while it was still unpaid, does not bring back what was
\* cancelled or has lapsed since the first.
ConfirmedOnlyByCapture ==
    [][reservation.status # "CONFIRMED" /\ reservation'.status = "CONFIRMED" =>
        \E o \in Payments :
            /\ provider[o].captured
            /\ payment[o].status # "CAPTURED" /\ payment'[o].status = "CAPTURED"]_vars

Recorded(o) ==
    payment[o].status \in {"CAPTURED", "REFUNDED", "PARTIALLY_REFUNDED"}

\* What the system records as captured or refunded, the provider captured: no
\* order of webhooks, failures and refunds invents a payment.
RecordedOnlyIfCaptured ==
    \A o \in Payments :
        Recorded(o) => provider[o].captured

AmountCaptured ==
    SumFunctionOnSet([o \in Payments |-> payment[o].amount],
                     {o \in Payments : provider[o].captured})

\* The reservation is never credited with more than the guest has paid, however
\* often verify and the webhook report the same payment.
PaidNeverExceedsCaptured == reservation.amountPaid <= AmountCaptured

\* The amounts of the reservation add up.
AmountsAddUp ==
    reservation.amountPaid + reservation.amountDue = reservation.totalAmount

\* A payment that the provider captured is recorded in the end - also when the
\* guest never returns from the checkout, when a failed attempt is reported
\* first and when the process restarts - unless its events are all too old by
\* the time they are delivered, or a delivery fails and is answered 200.
FreshCaptureIsRecorded ==
    \A o \in Payments :
        provider[o].captured ~>
            \/ payment[o].providerPaymentId
            \/ ~provider[o].capturedEvent
            \/ provider[o].settled

-------------------------------------------------------------------------------
(* Claims of the documentation that the code does not keep                 *)

\* The webhook makes up for a guest who does not return from the checkout.
CapturedIsRecorded ==
    \A o \in Payments : provider[o].captured ~> Recorded(o)

\* An order that is not paid yet is reused, never doubled.
OneOpenOrder ==
    Cardinality({o \in Payments : payment[o].status = "CREATED"}) <= 1

\* A reservation that has received money is not left waiting or lapsed.
PaidReservationIsConfirmed ==
    reservation.amountPaid > 0 =>
        reservation.status \notin {"PENDING_PAYMENT", "EXPIRED"}

\* Writing back a refund reduces what the reservation has paid, or leaves it at
\* zero.
RefundReducesPaid ==
    [][\A p \in Requests :
        request[p].at = "refundWrite" /\ RefundWrite(p) =>
            reservation'.amountPaid <= reservation.amountPaid]_vars

\* A payment that was refunded is not credited again.
RefundedNotCreditedAgain ==
    [][\A o \in Payments :
        payment[o].status \in {"REFUNDED", "PARTIALLY_REFUNDED"} =>
            payment'[o].status # "CAPTURED"]_vars
================================================================================
