------------------------------ MODULE MCBackOffice ------------------------------
(* Figures and Catalogue checked together: they share no row, so a behaviour    *)
(* takes the steps of one of them.                                              *)
EXTENDS Figures, Catalogue, TLC

CONSTANT Desks     \* bound: what behaviours are about
VARIABLE desk      \* what this one is about

MCBookings ==
    {[checkIn |-> 0, checkOut |-> 2, roomType |-> "deluxe", roomCount |-> 1, source |-> "WEBSITE", totalAmount |-> 2],
     [checkIn |-> 1, checkOut |-> 2, roomType |-> "suite", roomCount |-> 1, source |-> "STAFF", totalAmount |-> 1],
     [checkIn |-> 0, checkOut |-> 1, roomType |-> "suite", roomCount |-> 2, source |-> "WEBSITE", totalAmount |-> 2]}

\* A server west of UTC, one in UTC and one east of it.
MCZones == -1 .. 1

\* Rooms, tabs and calls are interchangeable, and no liveness is checked.
Interchangeable == Permutations(Rooms) \cup Permutations(Editors) \cup Permutations(Calls)

\* Bound: staff set the status of rooms at the end, next to one stay at most.
LateSets == rooms' # rooms => reservations' # reservations \/ now = LastNow

\* Bound: enquiries come where nobody has booked.
EnquiriesApart == Asked' = {} \/ Booked' = {}

\* Bound: once guests stay, one type is hidden or archived, and nothing after that.
LateHides ==
    /\ activeTypes' # activeTypes => activeTypes = RoomTypes /\ ~MoreRows /\ now = LastNow /\ Booked = Stayed
    /\ activeTypes # RoomTypes => activeTypes' # activeTypes

Unrefunded == \A r \in Booked : reservations[r].payment \in {"NONE", "CAPTURED"}

\* Bound: payments are paid back at the end, where nothing is hidden, in UTC only.
LateRefunds ==
    \/ Unrefunded'
    \/ zone = 0 /\ now = LastNow /\ ~MoreRows /\ activeTypes' = RoomTypes

\* Bound: elsewhere nobody asks, and staff change neither types nor free rooms.
Elsewhere == zone # 0 => /\ UNCHANGED <<enquiries, activeTypes>>
                          /\ rooms' # rooms => reservations' # reservations

BackOfficeInit ==
    /\ desk \in Desks
    /\ FiguresInit /\ CatalogueInit
    /\ desk = "figures" => section = "roomTypes"
    /\ desk = "catalogue" => zone = 0
BackOfficeNext ==
    /\ \/ desk = "figures" /\ FiguresNext /\ LateSets /\ EnquiriesApart /\ LateHides /\ LateRefunds /\ Elsewhere /\ UNCHANGED catalogueVars
       \/ desk = "catalogue" /\ CatalogueNext /\ UNCHANGED figureVars
    /\ UNCHANGED desk
BackOfficeSpec == BackOfficeInit /\ [][BackOfficeNext]_<<figureVars, catalogueVars, desk>>
================================================================================
