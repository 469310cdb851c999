--------------------------- MODULE Payments_proofs ----------------------------
(***************************************************************************)
(* Theorems about Payments.tla for any number of orders and requests and   *)
(* any amounts.                                                            *)
(***************************************************************************)
EXTENDS Payments, TLAPS

USE AmountsAssumption DEF AmountsAssumption, Amounts

\* What an in-flight request carries is decided by its program point.
LEMMA RequestShape ==
    ASSUME NEW q \in RequestState
    PROVE  /\ q.at = "createOrder" => q.amount \in Amounts
           /\ q.at = "capture" =>
                /\ q.payment \in Payments
                /\ q.paid \in Amounts
                /\ q.total \in {Total, ExtendedTotal}
                /\ q.confirms \in BOOLEAN
                /\ q.webhook \in BOOLEAN
           /\ q.at \in {"refundCall", "refundMark", "refundRead"} =>
                q.payment \in Payments /\ q.amount \in Amounts
           /\ q.at = "refundWrite" =>
                /\ q.amount \in Amounts
                /\ q.paid \in Amounts
                /\ q.total \in {Total, ExtendedTotal}
           /\ q.at = "extend" => q.paid \in Amounts
<1>1. CASE q = Idle
  BY <1>1 DEF Idle
<1>2. CASE q \in [at: {"createOrder"}, amount: Amounts]
  BY <1>2
<1>3. CASE q \in [at: {"capture"}, payment: Payments, paid: Amounts,
                  total: {Total, ExtendedTotal}, confirms: BOOLEAN, webhook: BOOLEAN]
  BY <1>3
<1>4. CASE q \in [at: {"refundCall", "refundMark", "refundRead"},
                  payment: Payments, amount: Amounts]
  BY <1>4
<1>5. CASE q \in [at: {"refundWrite"}, amount: Amounts, paid: Amounts,
                  total: {Total, ExtendedTotal}]
  BY <1>5
<1>6. CASE q \in [at: {"extend"}, paid: Amounts]
  BY <1>6
<1>7. QED
  BY <1>1, <1>2, <1>3, <1>4, <1>5, <1>6 DEF RequestState

-------------------------------------------------------------------------------
(* Type correctness                                                        *)

\* What was paid never exceeds a total, not even the older total that a handler
\* still carries: without this, what is due could be less than nothing.
WithinTotal ==
    /\ reservation.amountPaid <= reservation.totalAmount
    /\ \A p \in Requests :
        request[p].at \in {"capture", "refundWrite"} =>
            /\ request[p].paid <= request[p].total
            /\ request[p].total <= reservation.totalAmount

\* The two ways the code cuts an amount off stay between zero and its bounds.
LEMMA AmountArithmetic ==
    ASSUME NEW a \in Nat, NEW b \in Nat
    PROVE  /\ AtMost(a, b) \in Nat
           /\ AtMost(a, b) <= a
           /\ AtMost(a, b) <= b
           /\ Less(a, b) \in Nat
           /\ Less(a, b) <= a
  BY DEF AtMost, Less

\* Every step keeps the types, stale reads included, since what was read is bounded
\* as the row was.
LEMMA TypeStep == TypeOK /\ WithinTotal /\ [Next]_vars => TypeOK' /\ WithinTotal'
<1> SUFFICES ASSUME TypeOK, WithinTotal, [Next]_vars PROVE TypeOK' /\ WithinTotal'
  OBVIOUS
<1> USE DEF TypeOK, WithinTotal
<1>a. /\ reservation.totalAmount \in {Total, ExtendedTotal}
      /\ reservation.amountPaid \in Amounts
      /\ reservation.amountDue \in Amounts
  BY DEF ReservationRow
<1>1. ASSUME NEW p \in Requests, CreateOrderRead(p) PROVE TypeOK' /\ WithinTotal'
  BY <1>1, <1>a DEF CreateOrderRead, RequestState
<1>2. ASSUME NEW p \in Requests, CreateOrder(p) PROVE TypeOK' /\ WithinTotal'
  <2>1. request[p].amount \in Amounts
    BY <1>2, RequestShape DEF CreateOrder
  <2>2. [status |-> "CREATED", amount |-> request[p].amount,
         providerPaymentId |-> FALSE] \in PaymentRow
    BY <2>1 DEF PaymentRow
  <2>3. payment' \in [Payments -> PaymentRow]
    BY <1>2, <2>2 DEF CreateOrder
  <2>4. request' \in [Requests -> RequestState]
    BY <1>2 DEF CreateOrder, RequestState
  <2>5. QED
    BY <1>2, <2>3, <2>4 DEF CreateOrder, Idle
<1>3. ASSUME NEW p \in Requests, NEW o \in Payments, NEW webhook \in BOOLEAN,
             ReadForCapture(p, o, webhook)
      PROVE  TypeOK' /\ WithinTotal'
  <2> DEFINE q == [at |-> "capture", payment |-> o, paid |-> reservation.amountPaid,
                   total |-> reservation.totalAmount,
                   confirms |-> reservation.status = "PENDING_PAYMENT",
                   webhook |-> webhook]
  <2>1. q \in RequestState
    BY <1>a DEF RequestState
  <2>2. request' = [request EXCEPT ![p] = q]
    BY <1>3 DEF ReadForCapture
  <2>3. TypeOK'
    BY <1>3, <2>1, <2>2 DEF ReadForCapture
  <2>4. WithinTotal'
    BY <1>3, <1>a, <2>2 DEF ReadForCapture
  <2>5. QED
    BY <2>3, <2>4
<1>4. ASSUME NEW p \in Requests, Capture(p) PROVE TypeOK' /\ WithinTotal'
  <2> DEFINE o == request[p].payment
             newAmountPaid == AtMost(request[p].paid + payment[o].amount,
                                     request[p].total)
  <2>1. /\ o \in Payments
        /\ request[p].paid \in Amounts
        /\ request[p].total \in {Total, ExtendedTotal}
        /\ request[p].total <= reservation.totalAmount
    BY <1>4, RequestShape DEF Capture
  <2>2. payment[o].amount \in Nat
    BY <2>1 DEF PaymentRow
  <2>3. request' = [request EXCEPT ![p] = Idle] /\ request' \in [Requests -> RequestState]
    BY <1>4 DEF Capture, RequestState
  <2>4. CASE payment[o].status = "CAPTURED"
    BY <1>4, <2>3, <2>4 DEF Capture, Idle
  <2>5. CASE payment[o].status # "CAPTURED"
    <3>0. request[p].paid + payment[o].amount \in Nat /\ request[p].total \in Nat
      BY <2>1, <2>2
    <3>a. newAmountPaid \in Nat /\ newAmountPaid <= request[p].total
      BY <3>0, AmountArithmetic
    <3>1. /\ newAmountPaid \in Nat
          /\ newAmountPaid <= request[p].total
          /\ Less(request[p].total, newAmountPaid) \in Nat
          /\ Less(request[p].total, newAmountPaid) <= request[p].total
      BY <3>0, <3>a, AmountArithmetic
    <3>2. newAmountPaid \in Amounts /\ Less(request[p].total, newAmountPaid) \in Amounts
      BY <2>1, <3>1
    <3> HIDE DEF newAmountPaid
    <3>3. reservation' = [reservation EXCEPT
                !.amountPaid = newAmountPaid,
                !.amountDue = Less(request[p].total, newAmountPaid),
                !.status = IF request[p].confirms THEN "CONFIRMED" ELSE @]
      BY <1>4, <2>5 DEF Capture, newAmountPaid
    <3>4. reservation' \in ReservationRow
      BY <3>2, <3>3 DEF ReservationRow
    <3>5. payment' \in [Payments -> PaymentRow]
      BY <1>4, <2>1, <2>5 DEF Capture, PaymentRow
    <3>6. TypeOK'
      BY <1>4, <2>3, <3>4, <3>5 DEF Capture
    <3>7. reservation'.amountPaid = newAmountPaid
            /\ reservation'.totalAmount = reservation.totalAmount
      BY <3>3 DEF ReservationRow
    <3>8. WithinTotal'
      BY <1>a, <2>1, <2>3, <3>1, <3>7 DEF Idle
    <3>9. QED
      BY <3>6, <3>8
  <2>6. QED
    BY <2>4, <2>5
<1>5. ASSUME NEW p \in Requests, RefundRead(p) PROVE TypeOK' /\ WithinTotal'
  <2>1. PICK o \in Payments :
            \E amount \in 1..payment[o].amount :
                request' = [request EXCEPT ![p] =
                    [at |-> "refundCall", payment |-> o, amount |-> amount]]
    BY <1>5 DEF RefundRead
  <2>2. PICK amount \in 1..payment[o].amount :
            request' = [request EXCEPT ![p] =
                [at |-> "refundCall", payment |-> o, amount |-> amount]]
    BY <2>1
  <2>3. payment[o].amount \in Amounts
    BY DEF PaymentRow
  <2>4. amount \in Amounts
    BY <2>2, <2>3
  <2>5. request' \in [Requests -> RequestState]
    BY <2>2, <2>4 DEF RequestState
  <2>6. QED
    BY <1>5, <2>2, <2>5 DEF RefundRead
<1>6. ASSUME NEW p \in Requests, RefundCall(p) PROVE TypeOK' /\ WithinTotal'
  <2> DEFINE o == request[p].payment
             refunded == provider[o].refunded + request[p].amount
  <2>1. o \in Payments /\ request[p].amount \in Amounts /\ provider[o].refunded \in Nat
    BY <1>6, RequestShape DEF RefundCall, ProviderOrder
  <2>2. payment[o].amount \in Amounts
    BY <2>1 DEF PaymentRow
  <2>3. CASE refunded <= payment[o].amount
    <3>1. refunded \in Amounts
      BY <2>1, <2>2, <2>3
    <3>2. provider' = [provider EXCEPT ![o].refunded = refunded]
      BY <1>6, <2>3 DEF RefundCall
    <3> HIDE DEF refunded
    <3>3. provider' \in [Payments -> ProviderOrder]
      BY <2>1, <3>1, <3>2 DEF ProviderOrder
    <3>4. request' = [request EXCEPT ![p].at = "refundMark"]
      BY <1>6, <2>3 DEF RefundCall, refunded
    <3>5. [request[p] EXCEPT !.at = "refundMark"] \in RequestState
      <4>1. request[p] \in [at: {"refundCall", "refundMark", "refundRead"},
                            payment: Payments, amount: Amounts]
        BY <1>6 DEF RefundCall, RequestState, Idle
      <4>2. QED
        BY <4>1 DEF RequestState
    <3>6. request' \in [Requests -> RequestState]
      BY <3>4, <3>5
    <3>7. WithinTotal'
      BY <1>6, <3>4, <3>5 DEF RefundCall
    <3>8. QED
      BY <1>6, <3>3, <3>6, <3>7 DEF RefundCall
  <2>4. CASE ~(refunded <= payment[o].amount)
    BY <1>6, <2>4 DEF RefundCall, RequestState, Idle
  <2>5. QED
    BY <2>3, <2>4
<1>7. ASSUME NEW p \in Requests, RefundMark(p) PROVE TypeOK' /\ WithinTotal'
  <2>1. request[p] \in [at: {"refundCall", "refundMark", "refundRead"},
                        payment: Payments, amount: Amounts]
    BY <1>7 DEF RefundMark, RequestState, Idle
  <2>2. [request[p] EXCEPT !.at = "refundRead"] \in RequestState
    BY <2>1 DEF RequestState
  <2>3. request' = [request EXCEPT ![p].at = "refundRead"]
    BY <1>7 DEF RefundMark
  <2>4. request' \in [Requests -> RequestState]
    BY <2>2, <2>3
  <2>5. payment' \in [Payments -> PaymentRow]
    BY <1>7, <2>1 DEF RefundMark, PaymentRow
  <2>6. WithinTotal'
    BY <1>7, <2>1, <2>3 DEF RefundMark
  <2>7. QED
    BY <1>7, <2>4, <2>5, <2>6 DEF RefundMark
<1>8. ASSUME NEW p \in Requests, RefundReadReservation(p) PROVE TypeOK' /\ WithinTotal'
  <2>1. request[p].amount \in Amounts
    BY <1>8, RequestShape DEF RefundReadReservation
  <2>2. request' = [request EXCEPT ![p] =
            [at |-> "refundWrite", amount |-> request[p].amount,
             paid |-> reservation.amountPaid, total |-> reservation.totalAmount]]
    BY <1>8 DEF RefundReadReservation
  <2>3. request' \in [Requests -> RequestState]
    BY <1>a, <2>1, <2>2 DEF RequestState
  <2>4. WithinTotal'
    BY <1>8, <1>a, <2>2 DEF RefundReadReservation
  <2>5. QED
    BY <1>8, <2>3, <2>4 DEF RefundReadReservation
<1>9. ASSUME NEW p \in Requests, RefundWrite(p) PROVE TypeOK' /\ WithinTotal'
  <2> DEFINE newAmountPaid == Less(request[p].paid, request[p].amount)
             due == AtMost(request[p].total - newAmountPaid, request[p].total)
  <2>1. /\ request[p].amount \in Amounts
        /\ request[p].paid \in Amounts
        /\ request[p].total \in {Total, ExtendedTotal}
        /\ request[p].paid <= request[p].total
        /\ request[p].total <= reservation.totalAmount
    BY <1>9, RequestShape DEF RefundWrite
  <2>2. newAmountPaid \in Nat /\ newAmountPaid <= request[p].paid
    <3>1. request[p].paid \in Nat /\ request[p].amount \in Nat
      BY <2>1
    <3>2. QED
      BY <3>1, AmountArithmetic
  <2>3. newAmountPaid \in Amounts /\ newAmountPaid <= reservation.totalAmount
    BY <1>a, <2>1, <2>2
  <2>4. due \in Nat /\ due <= request[p].total
    <3>1. request[p].total - newAmountPaid \in Nat
      BY <2>1, <2>2
    <3>2. QED
      BY <2>1, <3>1, AmountArithmetic
  <2>5. due \in Amounts
    BY <2>1, <2>4
  <2>6. reservation' = [reservation EXCEPT !.amountPaid = newAmountPaid,
                                           !.amountDue = due]
    BY <1>9 DEF RefundWrite
  <2> HIDE DEF newAmountPaid, due
  <2>7. reservation' \in ReservationRow
    BY <2>3, <2>5, <2>6 DEF ReservationRow
  <2>8. request' \in [Requests -> RequestState]
    BY <1>9 DEF RefundWrite, RequestState
  <2>9. WithinTotal'
    BY <1>9, <2>3, <2>6 DEF RefundWrite, ReservationRow, Idle
  <2>10. QED
    BY <1>9, <2>7, <2>8, <2>9 DEF RefundWrite
<1>10. ASSUME NEW p \in Requests, ExtendRead(p) PROVE TypeOK' /\ WithinTotal'
  BY <1>10, <1>a DEF ExtendRead, RequestState
<1>11. ASSUME NEW p \in Requests, Extend(p) PROVE TypeOK' /\ WithinTotal'
  <2>1. request[p].paid \in Amounts
    BY <1>11, RequestShape DEF Extend
  <2>2. ExtendedTotal - request[p].paid \in Amounts
    BY <2>1
  <2>3. reservation' = [reservation EXCEPT
            !.totalAmount = ExtendedTotal,
            !.amountDue = ExtendedTotal - request[p].paid]
    BY <1>11 DEF Extend
  <2>4. reservation' \in ReservationRow
    BY <2>2, <2>3 DEF ReservationRow
  <2>5. /\ reservation'.totalAmount = ExtendedTotal
        /\ reservation'.amountPaid = reservation.amountPaid
    BY <2>3 DEF ReservationRow
  <2>6. request' = [request EXCEPT ![p] = Idle] /\ request' \in [Requests -> RequestState]
    BY <1>11 DEF Extend, RequestState
  <2>7. WithinTotal'
    <3>1. reservation'.amountPaid <= reservation'.totalAmount
      BY <1>a, <2>5
    <3>2. ASSUME NEW q \in Requests, request'[q].at \in {"capture", "refundWrite"}
          PROVE  /\ request'[q].paid <= request'[q].total
                 /\ request'[q].total <= reservation'.totalAmount
      <4>1. request'[q] = request[q]
        BY <2>6, <3>2 DEF Idle
      <4>2. request[q].total \in {Total, ExtendedTotal}
        BY <3>2, <4>1, RequestShape
      <4>3. QED
        BY <2>5, <3>2, <4>1, <4>2
    <3>3. QED
      BY <3>1, <3>2
  <2>8. QED
    BY <1>11, <2>4, <2>6, <2>7 DEF Extend
<1>12. ASSUME NEW o \in Payments, AttemptFails(o) PROVE TypeOK' /\ WithinTotal'
  BY <1>12 DEF AttemptFails, ProviderOrder
<1>13. ASSUME NEW o \in Payments, GuestPays(o) PROVE TypeOK' /\ WithinTotal'
  BY <1>13 DEF GuestPays, ProviderOrder
<1>14. ASSUME NEW o \in Payments, EventAges(o) PROVE TypeOK' /\ WithinTotal'
  BY <1>14, ZenonT(40) DEF EventAges, ProviderOrder
<1>15. ASSUME NEW o \in Payments, RefundedWebhook(o) PROVE TypeOK' /\ WithinTotal'
  BY <1>15 DEF RefundedWebhook, PaymentRow
<1>16. CASE FailedWebhook
  BY <1>16 DEF FailedWebhook, PaymentRow
<1>17. CASE Expire
  BY <1>17 DEF Expire, ReservationRow
<1>18. CASE Cancel
  BY <1>18 DEF Cancel, ReservationRow
<1>19. CASE Restart
  BY <1>19 DEF Restart, RequestState, Idle
<1>20. CASE UNCHANGED vars
  BY <1>20 DEF vars
<1>21. ASSUME NEW p \in Requests, CaptureFails(p) PROVE TypeOK' /\ WithinTotal'
  <2> DEFINE o == request[p].payment
             settled == provider[o].settled \/ request[p].webhook
  <2>1. /\ provider' = [provider EXCEPT ![o].settled = settled]
        /\ request' = [request EXCEPT ![p] = Idle]
        /\ UNCHANGED <<reservation, payment>>
    BY <1>21 DEF CaptureFails
  <2>2. o \in Payments /\ request[p].webhook \in BOOLEAN
    BY <1>21, RequestShape DEF CaptureFails
  <2>3. provider[o] \in ProviderOrder /\ settled \in BOOLEAN
    BY <2>2 DEF ProviderOrder
  <2> HIDE DEF o, settled
  <2>4. [provider[o] EXCEPT !.settled = settled] \in ProviderOrder
    BY <2>3 DEF ProviderOrder
  <2>5. provider' \in [Payments -> ProviderOrder]
    BY <2>1, <2>4
  <2>6. request' \in [Requests -> RequestState]
    BY <2>1 DEF RequestState
  <2>7. WithinTotal'
    BY <2>1 DEF Idle
  <2>8. QED
    BY <2>1, <2>5, <2>6, <2>7
<1>22. QED
  BY <1>1, <1>2, <1>3, <1>4, <1>5, <1>6, <1>7, <1>8, <1>9, <1>10, <1>11, <1>12,
     <1>13, <1>14, <1>15, <1>16, <1>17, <1>18, <1>19, <1>20, <1>21
     DEF Next, Handler, VerifyRead, CapturedWebhookRead

\* Every reachable state is well formed: no amount is negative or exceeds what
\* the longest stay costs.
THEOREM TypeCorrect == Spec => []TypeOK
<1>1. Init => TypeOK /\ WithinTotal
  BY DEF Init, TypeOK, WithinTotal, ReservationRow, PaymentRow, NoPayment,
         ProviderOrder, OpenOrder, RequestState, Idle
<1>2. QED
  BY <1>1, TypeStep, PTL DEF Spec

-------------------------------------------------------------------------------
(* Nothing is recorded or confirmed that was not paid                      *)

\* Whoever may still write CAPTURED or REFUNDED, a request, a webhook or a refund
\* by payment id, holds evidence that the provider captured the order.  The
\* property itself is not inductive: it says nothing of that evidence.
CapturesAreReal ==
    /\ RecordedOnlyIfCaptured
    /\ \A o \in Payments :
        payment[o].providerPaymentId \/ provider[o].capturedEvent
            => provider[o].captured
    /\ \A p \in Requests :
        request[p].at \in {"capture", "refundCall", "refundMark"}
            => provider[request[p].payment].captured

\* A captured order stays captured, so evidence of a capture never expires.
LEMMA CapturedStays ==
    TypeOK /\ [Next]_vars =>
        \A o \in Payments : provider[o].captured => provider'[o].captured
<1> SUFFICES ASSUME TypeOK, [Next]_vars, NEW o \in Payments, provider[o].captured
             PROVE  provider'[o].captured
  OBVIOUS
<1>1. provider \in [Payments -> ProviderOrder]
  BY DEF TypeOK
<1>2. CASE provider' = provider
  BY <1>2
<1>3. ASSUME NEW p \in Requests, RefundCall(p) PROVE provider'[o].captured
  BY <1>1, <1>3 DEF RefundCall, ProviderOrder
<1>4. ASSUME NEW x \in Payments, AttemptFails(x) \/ GuestPays(x) \/ EventAges(x)
      PROVE  provider'[o].captured
  BY <1>1, <1>4 DEF AttemptFails, GuestPays, EventAges, ProviderOrder
<1>5. ASSUME NEW p \in Requests, CaptureFails(p) PROVE provider'[o].captured
  BY <1>1, <1>5 DEF CaptureFails, ProviderOrder
<1>6. QED
  BY <1>2, <1>3, <1>4, <1>5
     DEF Next, Handler, vars, CreateOrderRead, CreateOrder, VerifyRead,
         CapturedWebhookRead, ReadForCapture, Capture, RefundRead, RefundMark,
         RefundReadReservation, RefundWrite, ExtendRead, Extend,
         RefundedWebhook, FailedWebhook, Expire, Cancel, Restart

\* Every capture and refund that is begun is of a payment the provider has captured.
LEMMA RealStep ==
    TypeOK /\ CapturesAreReal /\ [Next]_vars => CapturesAreReal'
<1> SUFFICES ASSUME TypeOK, CapturesAreReal, [Next]_vars PROVE CapturesAreReal'
  OBVIOUS
<1> USE DEF CapturesAreReal, RecordedOnlyIfCaptured, Recorded
<1>a. \A o \in Payments : provider[o].captured => provider'[o].captured
  BY CapturedStays
<1>b. /\ payment \in [Payments -> PaymentRow]
      /\ provider \in [Payments -> ProviderOrder]
      /\ request \in [Requests -> RequestState]
  BY DEF TypeOK
<1>c. \A q \in Requests :
        request[q].at \in {"capture", "refundCall", "refundMark"}
            => request[q].payment \in Payments
  BY <1>b, RequestShape
<1>1. CASE UNCHANGED <<payment, provider, request>>
  BY <1>1
<1>2. ASSUME NEW p \in Requests,
             CreateOrderRead(p) \/ ExtendRead(p) \/ RefundReadReservation(p)
                \/ RefundWrite(p) \/ Extend(p)
      PROVE  CapturesAreReal'
  BY <1>2, <1>b
     DEF CreateOrderRead, ExtendRead, RefundReadReservation, RefundWrite, Extend, Idle
<1>3. ASSUME NEW p \in Requests, CreateOrder(p) PROVE CapturesAreReal'
  BY <1>3, <1>b DEF CreateOrder, Exists, Idle, PaymentRow
<1>4. ASSUME NEW p \in Requests, NEW o \in Payments, NEW webhook \in BOOLEAN,
             ReadForCapture(p, o, webhook), provider[o].captured
      PROVE  CapturesAreReal'
  BY <1>4, <1>b DEF ReadForCapture
<1>5. ASSUME NEW p \in Requests, Capture(p) PROVE CapturesAreReal'
  <2>1. provider' = provider /\ request' = [request EXCEPT ![p] = Idle]
    BY <1>5 DEF Capture
  <2>2. request[p].payment \in Payments /\ provider[request[p].payment].captured
    BY <1>5, <1>c DEF Capture
  <2>3. \/ payment' = payment
        \/ payment' = [payment EXCEPT ![request[p].payment].status = "CAPTURED",
                                      ![request[p].payment].providerPaymentId = TRUE]
    BY <1>5 DEF Capture
  <2>4. QED
    BY <1>b, <2>1, <2>2, <2>3 DEF Idle, PaymentRow
<1>6. ASSUME NEW p \in Requests, RefundRead(p) PROVE CapturesAreReal'
  <2>1. PICK o \in Payments :
            /\ Refundable(o)
            /\ \E amount \in 1..payment[o].amount :
                request' = [request EXCEPT ![p] =
                    [at |-> "refundCall", payment |-> o, amount |-> amount]]
    BY <1>6 DEF RefundRead
  <2>2. provider[o].captured
    BY <2>1 DEF Refundable
  <2>3. PICK amount \in 1..payment[o].amount :
            request' = [request EXCEPT ![p] =
                [at |-> "refundCall", payment |-> o, amount |-> amount]]
    BY <2>1
  <2>4. QED
    BY <1>6, <1>b, <2>2, <2>3 DEF RefundRead
<1>7. ASSUME NEW p \in Requests, RefundCall(p) PROVE CapturesAreReal'
  <2>1. request[p].at = "refundCall" /\ payment' = payment
    BY <1>7 DEF RefundCall
  <2>2. \/ request' = [request EXCEPT ![p] = Idle]
        \/ request' = [request EXCEPT ![p].at = "refundMark"]
    BY <1>7 DEF RefundCall
  <2>3. \A o \in Payments : provider'[o].capturedEvent = provider[o].capturedEvent
    BY <1>7, <1>b, <1>c DEF RefundCall, ProviderOrder
  <2>4. request[p] \in [at: {"refundCall", "refundMark", "refundRead"},
                        payment: Payments, amount: Amounts]
    BY <2>1, <1>b DEF RequestState, Idle
  <2>5. \A q \in Requests :
            request'[q].at \in {"capture", "refundCall", "refundMark"} =>
                /\ request[q].at \in {"capture", "refundCall", "refundMark"}
                /\ request'[q].payment = request[q].payment
    BY <1>b, <2>1, <2>2, <2>4 DEF Idle
  <2>6. QED
    BY <1>a, <1>c, <2>1, <2>3, <2>5
<1>8. ASSUME NEW p \in Requests, RefundMark(p) PROVE CapturesAreReal'
  <2>1. request[p].at = "refundMark" /\ provider' = provider
    BY <1>8 DEF RefundMark
  <2>2. request[p].payment \in Payments /\ provider[request[p].payment].captured
    BY <1>c, <2>1
  <2>3. \A o \in Payments :
            payment'[o].providerPaymentId = payment[o].providerPaymentId
    BY <1>8, <1>b, <2>2 DEF RefundMark, PaymentRow
  <2>4. \A o \in Payments : o # request[p].payment => payment'[o] = payment[o]
    BY <1>8, <1>b DEF RefundMark
  <2>5. RecordedOnlyIfCaptured'
    BY <2>1, <2>2, <2>4
  <2>6. request' = [request EXCEPT ![p].at = "refundRead"]
    BY <1>8 DEF RefundMark
  <2>7. request[p] \in [at: {"refundCall", "refundMark", "refundRead"},
                        payment: Payments, amount: Amounts]
    BY <2>1, <1>b DEF RequestState, Idle
  <2>8. \A q \in Requests :
            request'[q].at \in {"capture", "refundCall", "refundMark"} =>
                request'[q] = request[q]
    BY <1>b, <2>6, <2>7
  <2>9. QED
    BY <2>1, <2>3, <2>5, <2>8
<1>9. ASSUME NEW o \in Payments, AttemptFails(o) \/ GuestPays(o) \/ EventAges(o)
      PROVE  CapturesAreReal'
  <2>1. payment' = payment /\ request' = request
    BY <1>9 DEF AttemptFails, GuestPays, EventAges
  <2>2. \A x \in Payments : provider'[x].capturedEvent => provider'[x].captured
    BY <1>9, <1>b DEF AttemptFails, GuestPays, EventAges, ProviderOrder
  <2>3. QED
    BY <1>a, <1>c, <2>1, <2>2
<1>10. ASSUME NEW o \in Payments, RefundedWebhook(o) PROVE CapturesAreReal'
  BY <1>10, <1>b DEF RefundedWebhook, PaymentRow
<1>11. CASE FailedWebhook
  <2>1. provider' = provider /\ request' = request
    BY <1>11 DEF FailedWebhook
  <2>2. \A o \in Payments :
            \/ payment'[o] = payment[o]
            \/ payment'[o] = [payment[o] EXCEPT !.status = "FAILED"]
    BY <1>11 DEF FailedWebhook
  <2>3. \A o \in Payments :
            /\ payment'[o].providerPaymentId = payment[o].providerPaymentId
            /\ payment'[o].status \in {"FAILED", payment[o].status}
    BY <1>b, <2>2, ZenonT(40) DEF PaymentRow
  <2>4. QED
    BY <2>1, <2>3
<1>12. CASE Restart
  BY <1>12 DEF Restart, Idle
<1>13. ASSUME NEW p \in Requests, CaptureFails(p) PROVE CapturesAreReal'
  <2>1. payment' = payment /\ request' = [request EXCEPT ![p] = Idle]
    BY <1>13 DEF CaptureFails
  <2>2. \A o \in Payments : provider'[o].capturedEvent = provider[o].capturedEvent
    BY <1>13, <1>b DEF CaptureFails, ProviderOrder
  <2>3. QED
    BY <1>a, <1>b, <1>c, <2>1, <2>2 DEF Idle
<1>14. QED
  BY <1>1, <1>2, <1>3, <1>4, <1>5, <1>6, <1>7, <1>8, <1>9, <1>10, <1>11, <1>12,
     <1>13
     DEF Next, Handler, VerifyRead, CapturedWebhookRead, Expire, Cancel, vars

\* Whatever the order of webhooks, verifications, failures, refunds and crashes,
\* a payment recorded as captured or refunded was captured by the provider.
THEOREM RecordedIsCaptured == Spec => []RecordedOnlyIfCaptured
<1>1. Init => CapturesAreReal
  BY DEF Init, CapturesAreReal, RecordedOnlyIfCaptured, Recorded, NoPayment,
         OpenOrder, Idle
<1>2. CapturesAreReal => RecordedOnlyIfCaptured
  BY DEF CapturesAreReal
<1>3. QED
  BY <1>1, <1>2, RealStep, TypeCorrect, PTL DEF Spec

\* A step that confirms the reservation records a captured payment; a capture
\* that finds its payment recorded leaves the reservation as it is.
LEMMA ConfirmingStep ==
    ASSUME TypeOK, CapturesAreReal, [Next]_vars,
           reservation.status # "CONFIRMED", reservation'.status = "CONFIRMED"
    PROVE  \E o \in Payments :
              /\ provider[o].captured
              /\ payment[o].status # "CAPTURED" /\ payment'[o].status = "CAPTURED"
<1>1. reservation \in ReservationRow /\ payment \in [Payments -> PaymentRow]
  BY DEF TypeOK
<1>2. PICK p \in Requests : Capture(p)
  BY <1>1
     DEF Next, Handler, vars, CreateOrderRead, CreateOrder, VerifyRead,
         CapturedWebhookRead, ReadForCapture, CaptureFails, RefundRead, RefundCall,
         RefundMark, RefundReadReservation, RefundWrite, ExtendRead, Extend,
         AttemptFails, GuestPays, EventAges, RefundedWebhook, FailedWebhook, Expire,
         Cancel, Restart, ReservationRow
<1>3. request[p].payment \in Payments /\ provider[request[p].payment].captured
  <2>1. request[p].at = "capture" /\ request[p] \in RequestState
    BY <1>2 DEF Capture, TypeOK
  <2>2. QED
    BY <2>1, RequestShape DEF CapturesAreReal
<1>4. payment[request[p].payment].status # "CAPTURED"
  BY <1>2 DEF Capture
<1>5. payment' = [payment EXCEPT ![request[p].payment].status = "CAPTURED",
                                 ![request[p].payment].providerPaymentId = TRUE]
  BY <1>2, <1>4 DEF Capture
<1>6. payment'[request[p].payment].status = "CAPTURED"
  BY <1>1, <1>3, <1>5 DEF PaymentRow
<1>7. QED
  BY <1>3, <1>4, <1>6

\* Only the recording of a capture confirms a reservation: no stale report, retry
\* or restart brings a cancelled or lapsed one back.
THEOREM ConfirmedIsCaptured == Spec => ConfirmedOnlyByCapture
<1>1. Init => CapturesAreReal
  BY DEF Init, CapturesAreReal, RecordedOnlyIfCaptured, Recorded, NoPayment,
         OpenOrder, Idle
<1>2. TypeOK /\ CapturesAreReal /\ [Next]_vars =>
        [reservation.status # "CONFIRMED" /\ reservation'.status = "CONFIRMED" =>
            \E o \in Payments :
                /\ provider[o].captured
                /\ payment[o].status # "CAPTURED" /\ payment'[o].status = "CAPTURED"]_vars
  BY ConfirmingStep
<1>3. QED
  BY <1>1, <1>2, RealStep, TypeCorrect, PTL DEF Spec, ConfirmedOnlyByCapture

-------------------------------------------------------------------------------
(* The amounts add up while handlers do not overlap                        *)

\* What a handler has read of the reservation's amounts is still so.
ReadIsCurrent ==
    \A p \in Requests :
        /\ request[p].at \in {"capture", "refundWrite", "extend"} =>
                request[p].paid = reservation.amountPaid
        /\ request[p].at \in {"capture", "refundWrite"} =>
                request[p].total = reservation.totalAmount

\* Types and the bound on what was read hold in every reachable state.
LEMMA WithinTotalAlways == Spec => [](TypeOK /\ WithinTotal)
<1>1. Init => TypeOK /\ WithinTotal
  BY DEF Init, TypeOK, WithinTotal, ReservationRow, PaymentRow, NoPayment,
         ProviderOrder, OpenOrder, RequestState, Idle
<1>2. QED
  BY <1>1, TypeStep, PTL DEF Spec

\* Each writer of the amounts writes two that make up the total it read.
LEMMA AddUpStep ==
    ASSUME NEW p, Requests = {p},
           TypeOK, WithinTotal, ReadIsCurrent, AmountsAddUp, [Next]_vars
    PROVE  ReadIsCurrent' /\ AmountsAddUp'
<1> USE DEF ReadIsCurrent, AmountsAddUp, Idle
<1>a. /\ reservation.amountPaid \in Nat /\ reservation.amountDue \in Nat
      /\ reservation.totalAmount \in {Total, ExtendedTotal}
      /\ reservation = [reservation EXCEPT !.amountPaid = reservation.amountPaid]
  BY DEF TypeOK, ReservationRow
<1>b. /\ reservation \in ReservationRow
      /\ request \in [Requests -> RequestState]
      /\ request[p] \in RequestState
  BY DEF TypeOK
<1>1. CASE Capture(p)
  <2> DEFINE o == request[p].payment
             new == AtMost(request[p].paid + payment[o].amount, request[p].total)
  <2>1. /\ request' = [request EXCEPT ![p] = Idle]
        /\ \/ UNCHANGED reservation
           \/ reservation' = [reservation EXCEPT
                !.amountPaid = new,
                !.amountDue = Less(request[p].total, new),
                !.status = IF request[p].confirms THEN "CONFIRMED" ELSE @]
    BY <1>1 DEF Capture
  <2>2. ReadIsCurrent'
    BY <1>b, <2>1
  <2>3. CASE UNCHANGED reservation
    BY <2>2, <2>3
  <2>4. CASE reservation' = [reservation EXCEPT
                !.amountPaid = new,
                !.amountDue = Less(request[p].total, new),
                !.status = IF request[p].confirms THEN "CONFIRMED" ELSE @]
    <3>1. /\ request[p].at = "capture" /\ o \in Payments
          /\ request[p].paid \in Nat /\ request[p].total \in Nat
      BY <1>1, <1>b, RequestShape DEF Capture
    <3>2. payment[o].amount \in Nat
      BY <3>1 DEF TypeOK, PaymentRow
    <3>3. /\ new \in Nat /\ new <= request[p].total
          /\ Less(request[p].total, new) = request[p].total - new
      <4>1. new \in Nat /\ new <= request[p].total
        BY <3>1, <3>2 DEF AtMost
      <4>2. QED
        BY <3>1, <4>1 DEF Less
    <3>4. request[p].total = reservation.totalAmount
      BY <3>1
    <3>5. /\ reservation'.amountPaid = new
          /\ reservation'.amountDue = Less(request[p].total, new)
          /\ reservation'.totalAmount = reservation.totalAmount
      BY <1>b, <2>4 DEF ReservationRow
    <3>6. QED
      BY <2>2, <3>1, <3>3, <3>4, <3>5
  <2>5. QED
    BY <2>1, <2>3, <2>4
<1>2. CASE RefundWrite(p)
  <2> DEFINE new == Less(request[p].paid, request[p].amount)
  <2>1. /\ request[p].at = "refundWrite"
        /\ request' = [request EXCEPT ![p] = Idle]
        /\ reservation' = [reservation EXCEPT
                !.amountPaid = new,
                !.amountDue = AtMost(request[p].total - new, request[p].total)]
    BY <1>2 DEF RefundWrite
  <2>2. /\ request[p].paid \in Nat /\ request[p].amount \in Nat
        /\ request[p].total \in Nat /\ request[p].paid <= request[p].total
    BY <1>b, <2>1, RequestShape DEF WithinTotal
  <2>3. /\ new \in Nat /\ new <= request[p].total
        /\ AtMost(request[p].total - new, request[p].total) = request[p].total - new
    BY <2>2 DEF Less, AtMost
  <2>4. /\ reservation'.amountPaid = new
        /\ reservation'.amountDue = AtMost(request[p].total - new, request[p].total)
        /\ reservation'.totalAmount = reservation.totalAmount
    BY <1>b, <2>1 DEF ReservationRow
  <2>5. ReadIsCurrent'
    BY <1>b, <2>1
  <2>6. QED
    BY <2>1, <2>2, <2>3, <2>4, <2>5
<1>3. CASE Extend(p)
  <2>1. /\ request[p].at = "extend"
        /\ request' = [request EXCEPT ![p] = Idle]
        /\ reservation' = [reservation EXCEPT
                !.totalAmount = ExtendedTotal,
                !.amountDue = ExtendedTotal - request[p].paid]
    BY <1>3 DEF Extend
  <2>2. request[p].paid = reservation.amountPaid
    BY <2>1
  <2>3. /\ reservation'.amountPaid = reservation.amountPaid
        /\ reservation'.amountDue = ExtendedTotal - request[p].paid
        /\ reservation'.totalAmount = ExtendedTotal
    BY <1>b, <2>1 DEF ReservationRow
  <2>4. ReadIsCurrent'
    BY <1>b, <2>1
  <2>5. QED
    BY <1>a, <2>2, <2>3, <2>4
<1>4. ASSUME NEW o \in Payments, NEW webhook \in BOOLEAN, ReadForCapture(p, o, webhook)
      PROVE  ReadIsCurrent' /\ AmountsAddUp'
  BY <1>b, <1>4 DEF ReadForCapture
<1>5. CASE RefundReadReservation(p)
  BY <1>b, <1>5 DEF RefundReadReservation
<1>6. CASE ExtendRead(p)
  BY <1>b, <1>6 DEF ExtendRead
<1>7. CASE CreateOrderRead(p) \/ CreateOrder(p) \/ RefundRead(p) \/ RefundCall(p) \/ RefundMark(p)
  <2>1. UNCHANGED reservation
    BY <1>7 DEF CreateOrderRead, CreateOrder, RefundRead, RefundCall, RefundMark
  <2>2. request'[p].at \notin {"capture", "refundWrite", "extend"}
    <3>1. CASE CreateOrderRead(p)
      BY <1>b, <3>1 DEF CreateOrderRead
    <3>2. CASE CreateOrder(p)
      BY <1>b, <3>2 DEF CreateOrder
    <3>3. CASE RefundRead(p)
      BY <1>b, <3>3 DEF RefundRead
    <3>4. CASE RefundMark(p)
      <4>1. request'[p].at = "refundRead"
        BY <1>b, <3>4, RequestShape DEF RefundMark, RequestState
      <4>2. QED
        BY <4>1
    <3>5. CASE RefundCall(p)
      <4>1. \/ request' = [request EXCEPT ![p].at = "refundMark"]
            \/ request' = [request EXCEPT ![p] = Idle]
        BY <3>5 DEF RefundCall
      <4>2. QED
        BY <1>b, <4>1 DEF RequestState
    <3>6. QED
      BY <1>7, <3>1, <3>2, <3>3, <3>4, <3>5
  <2>3. QED
    BY <2>1, <2>2
<1>8. CASE \E o \in Payments : AttemptFails(o) \/ GuestPays(o) \/ EventAges(o) \/ RefundedWebhook(o)
  BY <1>8 DEF AttemptFails, GuestPays, EventAges, RefundedWebhook
<1>9. CASE FailedWebhook \/ UNCHANGED vars
  BY <1>9 DEF FailedWebhook, vars
<1>10. CASE Expire \/ Cancel
  <2>1. /\ UNCHANGED request
        /\ reservation'.amountPaid = reservation.amountPaid
        /\ reservation'.amountDue = reservation.amountDue
        /\ reservation'.totalAmount = reservation.totalAmount
    BY <1>b, <1>10 DEF Expire, Cancel, ReservationRow
  <2>2. QED
    BY <2>1
<1>11. CASE Restart
  BY <1>b, <1>11 DEF Restart
<1>12. CASE CaptureFails(p)
  BY <1>b, <1>12 DEF CaptureFails
<1>13. QED
  BY <1>1, <1>2, <1>3, <1>4, <1>5, <1>6, <1>7, <1>8, <1>9, <1>10, <1>11, <1>12
     DEF Next, Handler, VerifyRead, CapturedWebhookRead

\* As long as one handler runs at a time - with webhooks, the sweep, cancellations
\* and restarts between its statements - what is paid and what is due make up the
\* total, for any number of orders and any amounts.
THEOREM AmountsAlwaysAddUp ==
    ASSUME NEW p, Requests = {p}
    PROVE  Spec => []AmountsAddUp
<1>1. Init => ReadIsCurrent /\ AmountsAddUp
  BY DEF Init, ReadIsCurrent, AmountsAddUp, Idle
<1>2. TypeOK /\ WithinTotal /\ ReadIsCurrent /\ AmountsAddUp /\ [Next]_vars
        => ReadIsCurrent' /\ AmountsAddUp'
  BY AddUpStep
<1>3. QED
  BY <1>1, <1>2, WithinTotalAlways, PTL DEF Spec
================================================================================
