------------------------------- MODULE Checkout -------------------------------
(***************************************************************************)
(* A guest's browser on the way to a paid booking: the details page, which *)
(* holds the room and books it, the payment page with Razorpay's widget,   *)
(* and the confirmation page, in tabs that may be reloaded at any time and *)
(* whose calls may be lost.  The handlers that answer the payment page are *)
(* those of Payments, whose steps are taken together with the page's.      *)
(*                                                                         *)
(* A tab's calls are handled in its own slot of Requests; webhooks, refunds *)
(* and the staff's extension use the others.  Holds and what they keep free *)
(* are the subject of Booking.tla: here is the one hold of the session.    *)
(***************************************************************************)
EXTENDS Payments, Sequences

CONSTANTS
    Tabs,     \* bound: tabs of the guest's browser, each with its slot
    NoOrder   \* no order of the provider

ASSUME TabsAssumption ==
    /\ Tabs \subseteq Requests
    /\ NoOrder \notin Payments

VARIABLES
    hold,      \* status of the session's ReservationHold
    tab,       \* what each tab shows and waits for
    created,   \* the Payment rows in the order of their creation
    raced,     \* history: whether requests overlapped that must not
    declined,  \* history: whether payment.failed closed an order that was open
    again      \* history: whether a payment recorded before was recorded anew

checkoutVars == <<vars, hold, tab, created, raced, declined, again>>

Page(page) == [page |-> page]
Blank == Page("blank")
DetailsPage == [page: {"details"}, held: BOOLEAN, error: BOOLEAN]
\* known: the payment config has been answered ("configured" is not null).
\* asked: the order endpoint was called; order: the widget's; reported: the order
\* the widget reported as paid; verify: how far the call to verify it is; redirect:
\* the timer to the confirmation page runs.
PaymentPage ==
    [page: {"pay"},
     step: {"loading", "ready", "paying", "verifying", "success", "error"},
     known: BOOLEAN, razorpayReady: BOOLEAN, due: Amounts,
     asked: BOOLEAN, offered: Payments \cup {NoOrder, "refused"},
     widget: {"closed", "open", "paid", "left"}, order: Payments \cup {NoOrder},
     reported: Payments \cup {NoOrder}, verify: {"none", "sent", "read", "done"},
     redirect: BOOLEAN]
ConfirmationPage ==
    [page: {"confirmation"},
     shown: {"loading", "error", "PENDING_PAYMENT", "CONFIRMED", "EXPIRED", "CANCELLED"}]

Fresh ==
    [page |-> "pay", step |-> "loading", known |-> FALSE, razorpayReady |-> FALSE,
     due |-> 0, asked |-> FALSE, offered |-> NoOrder, widget |-> "closed",
     order |-> NoOrder, reported |-> NoOrder, verify |-> "none", redirect |-> FALSE]
Confirmation == [page |-> "confirmation", shown |-> "loading"]

On(t, page) == tab[t].page = page
At(t, step) == On(t, "pay") /\ tab[t].step = step
Booked == hold = "CONVERTED"

\* What the payment page draws: the skeleton also hides an error that came before
\* the config.
View(t) ==
    IF tab[t].step = "loading" \/ ~tab[t].known THEN "skeleton"
    ELSE IF tab[t].step \in {"error", "success"} THEN tab[t].step
    ELSE "form"

Show(t, change) == tab' = [tab EXCEPT ![t] = change]
OnlyTab == UNCHANGED <<vars, hold, created>>

-------------------------------------------------------------------------------
(* The details page                                                        *)

OpenDetails(t) ==
    /\ On(t, "blank") \/ On(t, "details")
    /\ Show(t, [page |-> "details", held |-> FALSE, error |-> FALSE])
    /\ OnlyTab

\* createHold on mount: the session's live hold is used again.  Bound: one
\* reservation, so no hold after the first is converted.
Hold(t) ==
    /\ On(t, "details") /\ ~tab[t].held /\ ~tab[t].error
    /\ \/ /\ ~Booked
          /\ hold' = "ACTIVE"
          /\ Show(t, [tab[t] EXCEPT !.held = TRUE])
       \/ /\ Show(t, [tab[t] EXCEPT !.error = TRUE])
          /\ UNCHANGED hold
    /\ UNCHANGED <<vars, created>>

\* The countdown reaching zero changes nothing on the page; the hold is refused.
HoldLapses ==
    /\ hold = "ACTIVE"
    /\ hold' = "EXPIRED"
    /\ UNCHANGED <<vars, tab, created>>

\* The booking is made, and the answer leads to the payment page or is lost; or
\* the hold is no longer live.
HandleSubmit(t) ==
    /\ On(t, "details") /\ tab[t].held
    /\ IF hold = "ACTIVE"
       THEN /\ hold' = "CONVERTED"
            /\ \E next \in {Fresh, [tab[t] EXCEPT !.error = TRUE]} : Show(t, next)
       ELSE /\ Show(t, [tab[t] EXCEPT !.error = TRUE])
            /\ UNCHANGED hold
    /\ UNCHANGED <<vars, created>>

-------------------------------------------------------------------------------
(* The payment page                                                        *)

\* From the booking, from its link, or loaded again: what the page knew is gone,
\* what the server was asked goes on.
OpenPayment(t) ==
    /\ Booked
    /\ ~On(t, "details")
    /\ tab[t] # Fresh
    /\ Show(t, Fresh)
    /\ OnlyTab

\* The link is incomplete, the booking is not found or a call fails; or the
\* gateway is answered to be not configured.
LoadFails(t) ==
    /\ At(t, "loading")
    /\ \E known \in BOOLEAN : Show(t, [tab[t] EXCEPT !.step = "error", !.known = known])
    /\ OnlyTab

Load(t) ==
    /\ At(t, "loading")
    /\ Show(t, IF reservation.amountDue = 0 THEN Confirmation
               ELSE [tab[t] EXCEPT !.step = "ready", !.known = TRUE,
                                   !.due = reservation.amountDue])
    /\ OnlyTab

ScriptLoads(t) ==
    /\ On(t, "pay") /\ View(t) = "form" /\ ~tab[t].razorpayReady
    /\ Show(t, [tab[t] EXCEPT !.razorpayReady = TRUE])
    /\ OnlyTab

\* Bound: a slot that still handles the call of an earlier page is waited for.
StartPayment(t) ==
    /\ On(t, "pay") /\ View(t) = "form"
    /\ tab[t].step = "ready" /\ tab[t].razorpayReady
    /\ request[t] = Idle
    /\ Show(t, [tab[t] EXCEPT !.step = "paying", !.asked = TRUE, !.offered = NoOrder])
    /\ OnlyTab

\* openCheckout; the widget belongs to this render, in which the step was "ready".
OpenCheckout(t) ==
    /\ On(t, "pay") /\ tab[t].asked /\ tab[t].offered \in Payments
    /\ Show(t, [tab[t] EXCEPT !.asked = FALSE, !.offered = NoOrder,
                              !.widget = "open", !.order = tab[t].offered])
    /\ OnlyTab

\* The order endpoint refuses, or there is no answer.
StartPaymentFails(t) ==
    /\ On(t, "pay") /\ tab[t].asked
    /\ Show(t, [tab[t] EXCEPT !.asked = FALSE, !.offered = NoOrder, !.step = "error"])
    /\ OnlyTab

\* The handler option: the widget reports the payment and goes.
PaymentReported(t) ==
    /\ On(t, "pay") /\ tab[t].widget = "paid" /\ tab[t].verify = "none"
    /\ Show(t, [tab[t] EXCEPT !.step = "verifying", !.verify = "sent", !.widget = "left",
                              !.reported = tab[t].order])
    /\ OnlyTab

\* ondismiss asks for the step of the render that opened the widget: "ready",
\* whatever it is by now.
Dismiss(t) ==
    /\ On(t, "pay") /\ tab[t].widget \in {"open", "left"}
    /\ Show(t, [tab[t] EXCEPT !.step = "ready", !.widget = "closed", !.order = NoOrder])
    /\ OnlyTab

\* payment.failed: the attempt is declined; the guest may try again in the widget,
\* which stays open above the page's error.
PaymentFailed(t) ==
    /\ On(t, "pay") /\ tab[t].widget = "open"
    /\ AttemptFails(tab[t].order)
    /\ Show(t, [tab[t] EXCEPT !.step = "error"])
    /\ UNCHANGED <<hold, created>>

Verified(t) ==
    /\ On(t, "pay") /\ tab[t].verify = "done"
    /\ Show(t, [tab[t] EXCEPT !.step = "success", !.verify = "none", !.redirect = TRUE])
    /\ OnlyTab

\* The failure is not caught.
MutantVerifyFails(t) ==
    /\ On(t, "pay") /\ tab[t].verify # "none"
    /\ Show(t, [tab[t] EXCEPT !.verify = "none"])
    /\ OnlyTab

VerifyFails(t) ==
    /\ On(t, "pay") /\ tab[t].verify # "none"
    /\ Show(t, [tab[t] EXCEPT !.step = "error", !.verify = "none"])
    /\ OnlyTab

\* The timer is not cleared, whatever the page shows when it fires.
Redirect(t) ==
    /\ On(t, "pay") /\ tab[t].redirect
    /\ Show(t, Confirmation)
    /\ OnlyTab

-------------------------------------------------------------------------------
(* The confirmation page                                                   *)

ShowConfirmation(t) ==
    /\ On(t, "confirmation") /\ tab[t].shown = "loading"
    /\ \E shown \in {reservation.status, "error"} : Show(t, [tab[t] EXCEPT !.shown = shown])
    /\ OnlyTab

-------------------------------------------------------------------------------
(* What the server does with a tab's calls                                 *)

\* The newest of the rows that are CREATED.
Open == {i \in DOMAIN created : payment[created[i]].status = "CREATED"}
Newest == created[Max(Open)]

OrderRefused(t) ==
    /\ On(t, "pay") /\ tab[t].asked /\ tab[t].offered = NoOrder /\ request[t] = Idle
    /\ ~Payable
    /\ Show(t, [tab[t] EXCEPT !.offered = "refused"])
    /\ OnlyTab

OrderReused(t) ==
    /\ On(t, "pay") /\ tab[t].asked /\ tab[t].offered = NoOrder /\ request[t] = Idle
    /\ Payable /\ Open # {}
    /\ Show(t, [tab[t] EXCEPT !.offered = Newest])
    /\ OnlyTab

\* An order is made for every call.
MutantOrderRead(t) ==
    /\ On(t, "pay") /\ tab[t].asked /\ tab[t].offered = NoOrder
    /\ request[t] = Idle /\ RowsLeft /\ Payable
    /\ request' = [request EXCEPT ![t] =
                        [at |-> "createOrder", amount |-> reservation.amountDue]]
    /\ UNCHANGED <<reservation, payment, provider, tab, hold, created>>

OrderRead(t) ==
    /\ On(t, "pay") /\ tab[t].asked /\ tab[t].offered = NoOrder
    /\ CreateOrderRead(t)
    /\ UNCHANGED <<tab, hold, created>>

\* The row is there even if the page that asked for it is gone.
OrderMade(t) ==
    /\ CreateOrder(t)
    /\ \E o \in Payments :
        /\ ~Exists(o) /\ payment'[o].status = "CREATED"
        /\ created' = Append(created, o)
        /\ tab' = [tab EXCEPT ![t] =
                IF On(t, "pay") /\ tab[t].asked THEN [tab[t] EXCEPT !.offered = o] ELSE @]
    /\ UNCHANGED hold

VerifyBegins(t) ==
    /\ On(t, "pay") /\ tab[t].verify = "sent"
    /\ VerifyRead(t)
    /\ request'[t].payment = tab[t].reported
    /\ Show(t, [tab[t] EXCEPT !.verify = "read"])
    /\ UNCHANGED <<hold, created>>

VerifyEnds(t) ==
    /\ Capture(t)
    /\ tab' = [tab EXCEPT ![t] =
            IF On(t, "pay") /\ tab[t].verify = "read" THEN [tab[t] EXCEPT !.verify = "done"]
                                                      ELSE @]
    /\ UNCHANGED <<hold, created>>

VerifyBreaks(t) ==
    /\ CaptureFails(t)
    /\ tab' = [tab EXCEPT ![t] =
            IF On(t, "pay") /\ tab[t].verify = "read"
            THEN [tab[t] EXCEPT !.step = "error", !.verify = "none"] ELSE @]
    /\ UNCHANGED <<hold, created>>

-------------------------------------------------------------------------------
(* External: the guest pays in the widget                                   *)

Pay(t) ==
    /\ On(t, "pay") /\ tab[t].widget = "open"
    /\ GuestPays(tab[t].order)
    /\ Show(t, [tab[t] EXCEPT !.widget = "paid"])
    /\ UNCHANGED <<hold, created>>

-------------------------------------------------------------------------------
(* Everybody else: the steps of Payments that no tab takes part in          *)

Elsewhere ==
    /\ Booked
    /\ \/ \E p \in Requests \ Tabs :
            \/ \E o \in Payments : CapturedWebhookRead(p, o)
            \/ Capture(p) \/ CaptureFails(p)
            \/ RefundRead(p) \/ RefundCall(p) \/ RefundMark(p)
            \/ RefundReadReservation(p) \/ RefundWrite(p)
            \/ reservation.totalAmount < ExtendedTotal /\ ExtendRead(p)  \* Bound: one extension.
            \/ Extend(p)
       \/ \E o \in Payments : EventAges(o) \/ RefundedWebhook(o)
       \/ FailedWebhook
       \/ Expire
       \/ Cancel
    /\ UNCHANGED <<tab, hold, created>>

\* The process stops; the calls it was handling fail in their tabs.
Crash ==
    /\ \E p \in Requests : request[p] # Idle
    /\ Restart
    /\ tab' = [t \in Tabs |->
            IF On(t, "pay") /\ tab[t].asked /\ request[t] # Idle
            THEN [tab[t] EXCEPT !.step = "error", !.asked = FALSE]
            ELSE IF On(t, "pay") /\ tab[t].verify = "read"
            THEN [tab[t] EXCEPT !.step = "error", !.verify = "none"]
            ELSE tab[t]]
    /\ UNCHANGED <<hold, created>>

-------------------------------------------------------------------------------
\* The reservation is the one that createFromHold makes of the hold.
CheckoutInit ==
    /\ Init
    /\ reservation.status = "PENDING_PAYMENT"
    /\ hold = "NONE"
    /\ tab = [t \in Tabs |-> Blank]
    /\ created = << >>
    /\ raced = FALSE /\ declined = FALSE /\ again = FALSE

TabNext(t) ==
    \/ OpenDetails(t) \/ Hold(t) \/ HandleSubmit(t)
    \/ OpenPayment(t) \/ LoadFails(t) \/ Load(t) \/ ScriptLoads(t)
    \/ StartPayment(t) \/ OpenCheckout(t) \/ StartPaymentFails(t)
    \/ PaymentReported(t) \/ Dismiss(t) \/ PaymentFailed(t)
    \/ Verified(t) \/ VerifyFails(t) \/ Redirect(t)
    \/ ShowConfirmation(t)
    \/ OrderRefused(t) \/ OrderReused(t) \/ OrderRead(t) \/ OrderMade(t)
    \/ VerifyBegins(t) \/ VerifyEnds(t) \/ VerifyBreaks(t)
    \/ Pay(t)

\* Two orders made at once, or an extension priced while a capture is under way:
\* each reads what the other is about to write.
Overlap ==
    \E p, q \in Requests :
        /\ p # q
        /\ \/ request[p].at = "createOrder" /\ request[q].at = "createOrder"
           \/ request[p].at = "extend" /\ request[q].at = "capture"

Declined == \E o \in Payments : payment[o].status = "CREATED" /\ payment'[o].status = "FAILED"

RecordedAgain ==
    \E o \in Payments :
        /\ payment[o].providerPaymentId /\ payment[o].status # "CAPTURED"
        /\ payment'[o].status = "CAPTURED"

CheckoutNext ==
    /\ (\E t \in Tabs : TabNext(t)) \/ HoldLapses \/ Elsewhere \/ Crash
    /\ raced' = (raced \/ Overlap')
    /\ declined' = (declined \/ Declined)
    /\ again' = (again \/ RecordedAgain)

CheckoutSpec == CheckoutInit /\ [][CheckoutNext]_checkoutVars

-------------------------------------------------------------------------------
(* Properties                                                              *)

\* Every tab, the rows' order and the handlers' slots are well formed.
CheckoutTypeOK ==
    /\ TypeOK
    /\ hold \in {"NONE", "ACTIVE", "EXPIRED", "CONVERTED"}
    /\ tab \in [Tabs -> {Blank} \cup DetailsPage \cup PaymentPage \cup ConfirmationPage]
    /\ {created[i] : i \in DOMAIN created} = {o \in Payments : Exists(o)}
    /\ raced \in BOOLEAN /\ declined \in BOOLEAN /\ again \in BOOLEAN

NothingRefunded == \A o \in Payments : provider[o].refunded = 0

\* However the guest opens, reloads and leaves tabs, whatever call or answer is
\* lost and however often webhooks report it, the guest is not charged more than
\* the stay costs - unless two orders were made at once or an extension was priced
\* during a capture, a payment was recorded anew or refunded, or payment.failed
\* closed an order that could still be paid (createOrderForReservation reuses the
\* open order, and paid orders stay counted).
ChargedOnceUnhurried ==
    ~raced /\ ~declined /\ ~again /\ NothingRefunded =>
        AmountCaptured <= reservation.totalAmount

\* However verify, webhooks, refunds, declined attempts, extensions and a crash
\* interleave, with amounts that were read before others wrote them, the
\* reservation is not credited with more than the guest has paid - as long as no
\* payment that payment.failed or a refund took back is recorded anew.
CreditIsCaptured == ~again => reservation.amountPaid <= AmountCaptured

\* "Payment received" is shown only for a payment that the provider captured and
\* the capture of which was recorded.
SuccessIsRecorded ==
    \A t \in Tabs : At(t, "success") =>
        payment[tab[t].reported].providerPaymentId /\ provider[tab[t].reported].captured

\* A page that spins waits for something that ends it: no order of dismissals,
\* lost answers and crashes leaves "Opening payment" or "Verifying payment" with
\* neither a call nor the widget outstanding.
SpinnerWaits ==
    \A t \in Tabs :
        /\ At(t, "paying") => tab[t].asked \/ tab[t].widget \in {"open", "paid"}
        /\ At(t, "verifying") => tab[t].verify # "none"

\* What the payment page shows is so: a success is recorded, a spinner is waiting.
PageIsTrue == SuccessIsRecorded /\ SpinnerWaits

-------------------------------------------------------------------------------
(* Claims of texts and comments that the code does not keep                *)

\* "Booking Confirmed" (confirmation page.tsx:93).
ConfirmedMeansConfirmed ==
    \A t \in Tabs : On(t, "confirmation") =>
        tab[t].shown \in {"loading", "error", "CONFIRMED"}

\* "We couldn't load your payment" (pay page.tsx:211) is what a failed load shows.
LoadFailureIsShown == \A t \in Tabs : At(t, "error") => View(t) = "error"

\* ondismiss leaves a page that is verifying alone (pay page.tsx:151).
DismissKeepsVerifying ==
    [][\A t \in Tabs : Dismiss(t) => tab[t].step # "verifying"]_checkoutVars

\* The widget asks for the amount on the button, "Pay" (pay page.tsx:339), as long
\* as that is what is due.
AskedIsShown ==
    \A t \in Tabs :
        On(t, "pay") /\ tab[t].widget = "open" /\ tab[t].due = reservation.amountDue
            => payment[tab[t].order].amount = tab[t].due

\* "Payment received" is shown of what the table has as paid.
SuccessIsCaptured == \A t \in Tabs : At(t, "success") => Recorded(tab[t].reported)

\* No order that could still be paid is closed by payment.failed: "reuse it".
ChargedOnceWithoutRaces ==
    ~raced /\ ~again /\ NothingRefunded => AmountCaptured <= reservation.totalAmount

\* The guest is never charged more than the stay costs.
ChargedOnce == AmountCaptured <= reservation.totalAmount
================================================================================
