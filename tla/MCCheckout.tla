------------------------------ MODULE MCCheckout ------------------------------
(* Small instances of Checkout, with one slot for everybody but the guest, and *)
(* of Tariff, which shares no variable with it: a behaviour takes the steps of *)
(* one of them.                                                                *)
EXTENDS Checkout, Tariff, TLC

CONSTANT Scenes    \* bound: what behaviours are about
VARIABLE scene     \* what this one is about

Unextended == \A p \in Requests : request[p].at # "extend"
Undeclined == \A o \in Payments : ~provider[o].failedEvent /\ payment[o].status # "FAILED"
Unrefunded == \A p \in Requests : request[p].at # "refundCall"
OneTab == Cardinality({t \in Tabs : tab[t] # Blank}) <= 1
\* Webhooks stay fresh and do not fail.
Heard == \A o \in Payments :
    ~provider[o].settled /\ (provider[o].captured => provider[o].capturedEvent)

\* Bounds: the sweep, or anybody, leaves the booking alone; one payment is paid back.
Unlapsed == reservation.status # "EXPIRED"
Unended == reservation.status \notin {"EXPIRED", "CANCELLED"}
OneRefund == Cardinality({o \in Payments : provider[o].refunded > 0}) <= 1

\* Two tabs of a stay, or one tab of a stay that may be extended, of which attempts
\* may be declined, or of which payments may be refunded.
Within ==
    \/ scene = "tabs" /\ Unextended /\ Undeclined /\ Unrefunded /\ Heard /\ Unended
    \/ scene = "extension" /\ OneTab /\ Undeclined /\ Unrefunded
    \/ scene = "declined" /\ OneTab /\ Unextended /\ Unrefunded /\ Heard
    \/ scene = "refunds" /\ OneTab /\ Unextended /\ Undeclined /\ Heard /\ Unlapsed /\ OneRefund

MCInit ==
    /\ scene \in Scenes
    /\ CheckoutInit /\ TariffInit
    /\ scene # "tariff" => basePrice = Max(Prices) /\ gst = Max(GstSettings)
MCNext ==
    /\ UNCHANGED scene
    /\ \/ scene = "tariff" /\ TariffNext /\ UNCHANGED checkoutVars
       \/ scene # "tariff" /\ CheckoutNext /\ Within' /\ UNCHANGED tariffVars
MCSpec == MCInit /\ [][MCNext]_<<checkoutVars, tariffVars, scene>>

\* Tabs and rows are interchangeable, and no liveness is checked.
Interchangeable == Permutations(Tabs) \cup Permutations(Payments)
================================================================================
