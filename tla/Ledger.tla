-------------------------------- MODULE Ledger --------------------------------
(***************************************************************************)
(* What the booking system promises about inventory, without saying how:   *)
(* the number of units of a room type that are granted on a night goes up  *)
(* only by a grant that still fits on every night of the stay, and comes   *)
(* down when claims lapse, are released or are cancelled.  Booking.tla is  *)
(* shown to implement this specification.                                  *)
(***************************************************************************)
EXTENDS Naturals

CONSTANTS
    Nights,      \* the nights that can be booked
    TotalUnits   \* RoomType.totalUnits

VARIABLE load    \* units granted on each night

Init == load = [n \in Nights |-> 0]

\* A stay is any set of nights; the grant is refused unless it fits on each.
Grant(stay, quantity) ==
    /\ \A n \in stay : load[n] + quantity <= TotalUnits
    /\ load' = [n \in Nights |-> IF n \in stay THEN load[n] + quantity
                                               ELSE load[n]]

Lapse ==
    /\ load' \in [Nights -> Nat]
    /\ \A n \in Nights : load'[n] <= load[n]

Next ==
    \/ \E stay \in SUBSET Nights, quantity \in 1..TotalUnits : Grant(stay, quantity)
    \/ Lapse

Spec == Init /\ [][Next]_load

\* No night is granted more units than the room type has.
NeverOversold == \A n \in Nights : load[n] <= TotalUnits
================================================================================
