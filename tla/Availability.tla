----------------------------- MODULE Availability -----------------------------
(***************************************************************************)
(* The availability search (getAvailability in availabilityService.ts)     *)
(* beside the holds and bookings of Booking.tla: what a guest is offered   *)
(* against what createHold grants, while staff take rooms out of order     *)
(* and back (updateRoomStatus in adminController.ts).                      *)
(*                                                                         *)
(* A search writes nothing, so it is an operator on the state.  Its three  *)
(* queries are merged into one.  Nothing in the program creates a          *)
(* MaintenanceRecord, so the number of rooms under maintenance is 0.       *)
(***************************************************************************)
EXTENDS Booking

CONSTANT Rooms  \* the active Room rows of the room type

VARIABLE outOfOrder  \* the rooms whose status is OUT_OF_ORDER

availabilityVars == <<vars, outOfOrder>>

ASSUME RoomsAssumption == IsFiniteSet(Rooms)

-------------------------------------------------------------------------------
Reserved(from, to) == Units({}, BlockingReservations, from, to)

\* Only the reservations of the first night are counted.
MutantOffered(from, to) ==
    LET taken == Reserved(from, from + 1) + Cardinality(outOfOrder)
    IN  IF taken < TotalUnits THEN TotalUnits - taken ELSE 0

\* available in the answer to a search for [from, to): reservations and rooms
\* out of order are taken off, holds are not.
Offered(from, to) ==
    LET taken == Reserved(from, to) + Cardinality(outOfOrder)
    IN  IF taken < TotalUnits THEN TotalUnits - taken ELSE 0

\* updateRoomStatus to OUT_OF_ORDER, and from it to any other status.
TakeOutOfOrder(room) ==
    /\ outOfOrder' = outOfOrder \cup {room}
    /\ UNCHANGED vars

ReturnToOrder(room) ==
    /\ outOfOrder' = outOfOrder \ {room}
    /\ UNCHANGED vars

-------------------------------------------------------------------------------
AvailabilityInit == Init /\ outOfOrder = {}

AvailabilityNext ==
    \/ Next /\ UNCHANGED outOfOrder
    \/ \E room \in Rooms : TakeOutOfOrder(room) \/ ReturnToOrder(room)

AvailabilitySpec == AvailabilityInit /\ [][AvailabilityNext]_availabilityVars

-------------------------------------------------------------------------------
(* Properties                                                              *)

AvailabilityTypeOK == TypeOK /\ outOfOrder \subseteq Rooms

\* A search counts everything that overlaps the stay, not night by night.  So
\* it never offers more rooms than are neither reserved nor out of order on
\* each single night, however bookings, sweeps, races and repairs went before.
OfferLeavesEveryNightCovered ==
    \A s \in Search : Offered(s.from, s.to) > 0 =>
        \A n \in s.from .. (s.to - 1) :
            Offered(s.from, s.to) + Reserved(n, n + 1) + Cardinality(outOfOrder)
                <= TotalUnits

-------------------------------------------------------------------------------
(* Claims of the documentation that the code does not keep                 *)

\* "The availability engine counts ACTIVE holds": what a search offers can be
\* held.
OfferCanBeHeld ==
    \A s \in Search : Offered(s.from, s.to) <= Available(s.from, s.to)

\* "OUT_OF_ORDER: excluded from bookable inventory": createHold grants no more
\* rooms than a search offers.
HoldOnlyWhatIsOffered ==
    [][\A h \in Holds :
        hold[h].status = "NONE" /\ hold'[h].status = "ACTIVE" =>
            hold'[h].quantity <= Offered(hold'[h].from, hold'[h].to)
      ]_availabilityVars
===============================================================================
