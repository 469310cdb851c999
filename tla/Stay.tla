--------------------------------- MODULE Stay ---------------------------------
(***************************************************************************)
(* The front desk: which physical room a confirmed reservation gets, moves *)
(* between rooms, check-in and check-out, extensions, and the cleaning of  *)
(* rooms (reservationService.ts from assignRoom on, isPhysicalRoomAvailable*)
(* of availabilityService.ts, the room and housekeeping handlers of        *)
(* adminController.ts).                                                    *)
(*                                                                         *)
(* Each read of a handler and its transaction are separate steps; what it  *)
(* read is in request[p].  isPhysicalRoomAvailable is one step.  No code   *)
(* opens a MaintenanceRecord, so the check for one always passes.          *)
(*                                                                         *)
(* A definition whose name starts with "Mutant" is not part of the model:  *)
(* it is a plausible slip in the code that the definition below it models. *)
(***************************************************************************)
EXTENDS Naturals, FiniteSets

CONSTANTS
    Reservations,  \* the reservations of one room type, all CONFIRMED at first
    Rooms,         \* its physical rooms
    NoRoom,        \* stands for no assignment found
    Assignments,   \* bound: RoomAssignment rows
    Tasks,         \* bound: HousekeepingTask rows
    Extensions,    \* bound: ExtensionRequest rows
    Requests,      \* handler calls that can be in flight at once
    LastDay,       \* dates are 0..LastDay
    StaffSets      \* the statuses that staff give to rooms by hand

RoomStatus == {"READY", "OCCUPIED", "CLEANING", "DIRTY", "MAINTENANCE", "OUT_OF_ORDER"}

ASSUME RoomsAssumption == NoRoom \notin Rooms
ASSUME DaysAssumption == LastDay \in Nat
ASSUME StaffAssumption == StaffSets \subseteq RoomStatus

VARIABLES
    reservation,  \* the Reservation table
    assignment,   \* the RoomAssignment table
    room,         \* Room.status
    task,         \* the HousekeepingTask table
    extension,    \* the ExtensionRequest table
    request       \* what each in-flight handler has read so far

vars == <<reservation, assignment, room, task, extension, request>>
tables == <<reservation, assignment, room, task, extension>>

Days == 0..LastDay

ReservationRow ==
    [status: {"CONFIRMED", "CHECKED_IN", "CHECKED_OUT", "CANCELLED"},
     checkIn: Days, checkOut: Days]

NoRow == [status |-> "NONE"]
AssignmentRow ==
    {NoRow} \cup [status: {"ACTIVE", "RELEASED"}, reservation: Reservations, room: Rooms]
TaskRow ==
    {NoRow} \cup [status: {"PENDING", "IN_PROGRESS", "COMPLETED", "BLOCKED", "SKIPPED"},
                  reservation: Reservations, room: Rooms]
Outcomes ==
    {"EXTENDED_SAME_ROOM", "EXTENSION_REQUIRES_ROOM_CHANGE", "EXTENSION_UNAVAILABLE"}
ExtensionRow ==
    {NoRow} \cup [status: {"UNDECIDED", "APPROVED", "REJECTED"},
                  reservation: Reservations, checkOut: Days]

Idle == [at |-> "idle"]
RequestState ==
    {Idle}
    \cup [at: {"assignCheck", "assign"}, reservation: Reservations, room: Rooms,
          until: Days]
    \cup [at: {"moveCheck", "move"}, from: Assignments, room: Rooms, until: Days]
    \cup [at: {"checkInFind", "checkOutFind", "cancel"}, reservation: Reservations]
    \cup [at: {"checkIn"}, reservation: Reservations, room: Rooms]
    \cup [at: {"checkOut"}, reservation: Reservations, room: Rooms \cup {NoRoom}]
    \cup [at: {"extendOffer"}, reservation: Reservations, until: Days, checkOut: Days]
    \cup [at: {"extend"}, reservation: Reservations, checkOut: Days, outcome: Outcomes]
    \cup [at: {"approve", "reject"}, extension: Extensions]
    \cup [at: {"roomReady"}, room: Rooms]

Goto(p, state) == request' = [request EXCEPT ![p] = state]

InHouse == {"CONFIRMED", "CHECKED_IN"}
Active(a) == assignment[a].status = "ACTIVE"
Holds(r, rm) ==
    \E a \in Assignments :
        Active(a) /\ assignment[a].reservation = r /\ assignment[a].room = rm

Overlap(r, from, until) ==
    reservation[r].checkIn < until /\ reservation[r].checkOut > from

-------------------------------------------------------------------------------
(* isPhysicalRoomAvailable                                                 *)

\* The first night of the range is not looked at.
MutantFree(rm, from, until, except) ==
    /\ room[rm] \notin {"OUT_OF_ORDER", "MAINTENANCE"}
    /\ \A r \in Reservations \ {except} :
        Holds(r, rm) /\ reservation[r].status \in InHouse
            => ~Overlap(r, from + 1, until)

Free(rm, from, until, except) ==
    /\ room[rm] \notin {"OUT_OF_ORDER", "MAINTENANCE"}
    /\ \A r \in Reservations \ {except} :
        Holds(r, rm) /\ reservation[r].status \in InHouse
            => ~Overlap(r, from, until)

-------------------------------------------------------------------------------
(* assignRoom and moveRoom                                                 *)

AssignRead(p) ==
    /\ request[p] = Idle
    /\ \E r \in Reservations, rm \in Rooms :
        /\ reservation[r].status \in InHouse
        /\ Goto(p, [at |-> "assignCheck", reservation |-> r, room |-> rm,
                    until |-> reservation[r].checkOut])
    /\ UNCHANGED tables

AssignCheck(p) ==
    /\ request[p].at = "assignCheck"
    /\ LET r == request[p].reservation IN
        IF Free(request[p].room, reservation[r].checkIn, request[p].until, r)
        THEN request' = [request EXCEPT ![p].at = "assign"]
        ELSE Goto(p, Idle)
    /\ UNCHANGED tables

\* A reservation may be given several rooms, or the same one twice.
AssignRoom(p) ==
    /\ request[p].at = "assign"
    /\ \E a \in Assignments :
        /\ assignment[a] = NoRow
        /\ assignment' = [assignment EXCEPT ![a] =
                [status |-> "ACTIVE", reservation |-> request[p].reservation,
                 room |-> request[p].room]]
    /\ Goto(p, Idle)
    /\ UNCHANGED <<reservation, room, task, extension>>

\* Any of the reservation's active assignments can be the first that is found;
\* the reservation's status does not matter.
MoveRead(p) ==
    /\ request[p] = Idle
    /\ \E a \in Assignments, rm \in Rooms :
        /\ Active(a)
        /\ assignment[a].room # rm
        /\ Goto(p, [at |-> "moveCheck", from |-> a, room |-> rm,
                    until |-> reservation[assignment[a].reservation].checkOut])
    /\ UNCHANGED tables

MoveCheck(p) ==
    /\ request[p].at = "moveCheck"
    /\ LET r == assignment[request[p].from].reservation IN
        IF Free(request[p].room, reservation[r].checkIn, request[p].until, r)
        THEN request' = [request EXCEPT ![p].at = "move"]
        ELSE Goto(p, Idle)
    /\ UNCHANGED tables

\* The new assignment is created outside the transaction, after the release.
MutantMoveRoom(p) ==
    /\ request[p].at = "move"
    /\ LET from == request[p].from IN
        /\ assignment' = [assignment EXCEPT ![from].status = "RELEASED"]
        /\ Goto(p, [at |-> "assign", reservation |-> assignment[from].reservation,
                    room |-> request[p].room, until |-> request[p].until])
    /\ UNCHANGED <<reservation, room, task, extension>>

\* The row is released again if another move released it meanwhile.  Neither
\* room's status changes.
MoveRoom(p) ==
    /\ request[p].at = "move"
    /\ LET from == request[p].from IN
        \E a \in Assignments :
            /\ assignment[a] = NoRow
            /\ assignment' = [assignment EXCEPT
                    ![from].status = "RELEASED",
                    ![a] = [status |-> "ACTIVE",
                            reservation |-> assignment[from].reservation,
                            room |-> request[p].room]]
    /\ Goto(p, Idle)
    /\ UNCHANGED <<reservation, room, task, extension>>

-------------------------------------------------------------------------------
(* checkIn, checkOut and cancelReservation                                 *)

CheckInRead(p) ==
    /\ request[p] = Idle
    /\ \E r \in Reservations :
        /\ reservation[r].status = "CONFIRMED"
        /\ Goto(p, [at |-> "checkInFind", reservation |-> r])
    /\ UNCHANGED tables

\* Without an active assignment the request is refused.
CheckInFind(p) ==
    /\ request[p].at = "checkInFind"
    /\ LET r == request[p].reservation IN
        \/ \E rm \in Rooms :
            /\ Holds(r, rm)
            /\ Goto(p, [at |-> "checkIn", reservation |-> r, room |-> rm])
        \/ /\ \A rm \in Rooms : ~Holds(r, rm)
           /\ Goto(p, Idle)
    /\ UNCHANGED tables

\* The status that was read is not looked at again.
CheckIn(p) ==
    /\ request[p].at = "checkIn"
    /\ reservation' = [reservation EXCEPT
                            ![request[p].reservation].status = "CHECKED_IN"]
    /\ room' = [room EXCEPT ![request[p].room] = "OCCUPIED"]
    /\ Goto(p, Idle)
    /\ UNCHANGED <<assignment, task, extension>>

\* The status of the reservation is not checked.
MutantCheckOutRead(p) ==
    /\ request[p] = Idle
    /\ \E r \in Reservations :
        Goto(p, [at |-> "checkOutFind", reservation |-> r])
    /\ UNCHANGED tables

CheckOutRead(p) ==
    /\ request[p] = Idle
    /\ \E r \in Reservations :
        /\ reservation[r].status = "CHECKED_IN"
        /\ Goto(p, [at |-> "checkOutFind", reservation |-> r])
    /\ UNCHANGED tables

CheckOutFind(p) ==
    /\ request[p].at = "checkOutFind"
    /\ LET r == request[p].reservation IN
        \/ \E rm \in Rooms :
            /\ Holds(r, rm)
            /\ Goto(p, [at |-> "checkOut", reservation |-> r, room |-> rm])
        \/ /\ \A rm \in Rooms : ~Holds(r, rm)
           /\ Goto(p, [at |-> "checkOut", reservation |-> r, room |-> NoRoom])
    /\ UNCHANGED tables

\* The assignment stays active.
CheckOut(p) ==
    /\ request[p].at = "checkOut"
    /\ LET r == request[p].reservation
           rm == request[p].room
       IN
        /\ reservation' = [reservation EXCEPT ![r].status = "CHECKED_OUT"]
        /\ IF rm = NoRoom
           THEN UNCHANGED <<room, task>>
           ELSE /\ room' = [room EXCEPT ![rm] = "CLEANING"]
                /\ \E t \in Tasks :
                    /\ task[t] = NoRow
                    /\ task' = [task EXCEPT ![t] =
                            [status |-> "PENDING", reservation |-> r, room |-> rm]]
    /\ Goto(p, Idle)
    /\ UNCHANGED <<assignment, extension>>

CancelRead(p) ==
    /\ request[p] = Idle
    /\ \E r \in Reservations :
        /\ reservation[r].status \in InHouse
        /\ Goto(p, [at |-> "cancel", reservation |-> r])
    /\ UNCHANGED tables

\* The rooms stay assigned, and an OCCUPIED room stays OCCUPIED.
Cancel(p) ==
    /\ request[p].at = "cancel"
    /\ reservation' = [reservation EXCEPT
                            ![request[p].reservation].status = "CANCELLED"]
    /\ Goto(p, Idle)
    /\ UNCHANGED <<assignment, room, task, extension>>

-------------------------------------------------------------------------------
(* requestExtension and decideExtension                                    *)

ExtendRead(p) ==
    /\ request[p] = Idle
    /\ \E r \in Reservations, newCheckOut \in Days :
        /\ reservation[r].status \in InHouse
        /\ newCheckOut > reservation[r].checkOut
        /\ Goto(p, [at |-> "extendOffer", reservation |-> r,
                    until |-> reservation[r].checkOut, checkOut |-> newCheckOut])
    /\ UNCHANGED tables

\* The answers the caller may get: one for each room that may be found first.
ExtensionOutcomes(r, from, until) ==
    LET alternatives(rm) ==
            {c \in Rooms \ {rm} : room[c] \in {"READY", "CLEANING"}
                                    /\ Free(c, from, until, r)}
        outcome(rm) ==
            CASE Free(rm, from, until, r) -> "EXTENDED_SAME_ROOM"
              [] ~Free(rm, from, until, r) /\ alternatives(rm) # {}
                    -> "EXTENSION_REQUIRES_ROOM_CHANGE"
              [] OTHER -> "EXTENSION_UNAVAILABLE"
        held == {rm \in Rooms : Holds(r, rm)}
    IN IF held = {} THEN {"EXTENSION_UNAVAILABLE"} ELSE {outcome(rm) : rm \in held}

ExtendOffer(p) ==
    /\ request[p].at = "extendOffer"
    /\ LET q == request[p] IN
        \E o \in ExtensionOutcomes(q.reservation, q.until, q.checkOut) :
            Goto(p, [at |-> "extend", reservation |-> q.reservation,
                     checkOut |-> q.checkOut, outcome |-> o])
    /\ UNCHANGED tables

\* A row is created whatever the outcome, also next to an undecided one.
Extend(p) ==
    /\ request[p].at = "extend"
    /\ \E x \in Extensions :
        /\ extension[x] = NoRow
        /\ extension' = [extension EXCEPT ![x] =
                [status |-> "UNDECIDED", reservation |-> request[p].reservation,
                 checkOut |-> request[p].checkOut]]
    /\ Goto(p, Idle)
    /\ UNCHANGED <<reservation, assignment, room, task>>

DecideRead(p) ==
    /\ request[p] = Idle
    /\ \E x \in Extensions, decision \in {"approve", "reject"} :
        /\ extension[x].status = "UNDECIDED"
        /\ Goto(p, [at |-> decision, extension |-> x])
    /\ UNCHANGED tables

Reject(p) ==
    /\ request[p].at = "reject"
    /\ extension' = [extension EXCEPT ![request[p].extension].status = "REJECTED"]
    /\ Goto(p, Idle)
    /\ UNCHANGED <<reservation, assignment, room, task>>

\* Neither the room, nor the status, nor the current check-out is looked at.
Approve(p) ==
    /\ request[p].at = "approve"
    /\ LET x == request[p].extension IN
        /\ reservation' = [reservation EXCEPT
                ![extension[x].reservation].checkOut = extension[x].checkOut]
        /\ extension' = [extension EXCEPT ![x].status = "APPROVED"]
    /\ Goto(p, Idle)
    /\ UNCHANGED <<assignment, room, task>>

-------------------------------------------------------------------------------
(* updateHkTask and updateRoomStatus                                       *)

\* The task is written first; the room follows in a statement of its own.
UpdateTask(p) ==
    /\ request[p] = Idle
    /\ \E t \in Tasks,
          status \in {"PENDING", "IN_PROGRESS", "COMPLETED", "BLOCKED", "SKIPPED"} :
        /\ task[t] # NoRow
        /\ task' = [task EXCEPT ![t].status = status]
        /\ IF status = "COMPLETED"
           THEN Goto(p, [at |-> "roomReady", room |-> task[t].room])
           ELSE UNCHANGED request
    /\ UNCHANGED <<reservation, assignment, room, extension>>

RoomReady(p) ==
    /\ request[p].at = "roomReady"
    /\ room' = [room EXCEPT ![request[p].room] = "READY"]
    /\ Goto(p, Idle)
    /\ UNCHANGED <<reservation, assignment, task, extension>>

UpdateRoomStatus ==
    /\ \E rm \in Rooms, status \in StaffSets : room' = [room EXCEPT ![rm] = status]
    /\ UNCHANGED <<reservation, assignment, task, extension, request>>

\* The process stops: its requests are forgotten, the tables are not.
Restart ==
    /\ request' = [p \in Requests |-> Idle]
    /\ UNCHANGED tables

-------------------------------------------------------------------------------
Init ==
    /\ reservation \in [Reservations ->
            {r \in ReservationRow : r.status = "CONFIRMED" /\ r.checkIn < r.checkOut}]
    /\ assignment = [a \in Assignments |-> NoRow]
    /\ room = [rm \in Rooms |-> "READY"]
    /\ task = [t \in Tasks |-> NoRow]
    /\ extension = [x \in Extensions |-> NoRow]
    /\ request = [p \in Requests |-> Idle]

Handler(p) ==
    \/ AssignRead(p) \/ AssignCheck(p) \/ AssignRoom(p)
    \/ MoveRead(p) \/ MoveCheck(p) \/ MoveRoom(p)
    \/ CheckInRead(p) \/ CheckInFind(p) \/ CheckIn(p)
    \/ CheckOutRead(p) \/ CheckOutFind(p) \/ CheckOut(p)
    \/ CancelRead(p) \/ Cancel(p)
    \/ ExtendRead(p) \/ ExtendOffer(p) \/ Extend(p)
    \/ DecideRead(p) \/ Reject(p) \/ Approve(p)
    \/ UpdateTask(p) \/ RoomReady(p)

Next ==
    \/ \E p \in Requests : Handler(p)
    \/ UpdateRoomStatus
    \/ Restart

Spec == Init /\ [][Next]_vars

-------------------------------------------------------------------------------
(* Properties                                                              *)

\* Every row and in-flight request is well formed.
TypeOK ==
    /\ reservation \in [Reservations -> ReservationRow]
    /\ assignment \in [Assignments -> AssignmentRow]
    /\ room \in [Rooms -> RoomStatus]
    /\ task \in [Tasks -> TaskRow]
    /\ extension \in [Extensions -> ExtensionRow]
    /\ request \in [Requests -> RequestState]

\* A guest who is checked in has a room, whatever is moved, cancelled or
\* forgotten while the check-in is under way.
CheckedInHasRoom ==
    \A r \in Reservations :
        reservation[r].status = "CHECKED_IN" => \E rm \in Rooms : Holds(r, rm)

\* Every departure leaves a room to clean and a task to clean it: the branch of
\* checkOut without an assignment is never taken.
DepartureLeavesTask ==
    \A r \in Reservations :
        reservation[r].status = "CHECKED_OUT" =>
            \E t \in Tasks : task[t] # NoRow /\ task[t].reservation = r

\* Two stays with a common night in one room.
Share(r, s) ==
    /\ reservation[r].status \in InHouse
    /\ reservation[s].status \in InHouse
    /\ Overlap(r, reservation[s].checkIn, reservation[s].checkOut)
    /\ \E rm \in Rooms : Holds(r, rm) /\ Holds(s, rm)

\* While requests are handled one at a time, two stays get the same room for the
\* same night only through an extension that staff approved.
SharedOnlyByExtension ==
    \A r, s \in Reservations :
        r # s /\ Share(r, s) =>
            \E x \in Extensions :
                extension[x].status = "APPROVED" /\ extension[x].reservation \in {r, s}

\* One of r's rooms is free of other stays from the end of r until checkOut.
AddedNightsFree(r, checkOut) ==
    \E rm \in Rooms :
        /\ Holds(r, rm)
        /\ \A s \in Reservations \ {r} :
            Holds(s, rm) /\ reservation[s].status \in InHouse =>
                \A day \in reservation[r].checkOut .. checkOut - 1 :
                    day \notin reservation[s].checkIn .. reservation[s].checkOut - 1

\* An extension in the same room is offered only if one of the guest's rooms is
\* free of other stays for the added nights.
OfferedExtensionFits ==
    [][\A p \in Requests :
        /\ request[p].at = "extend"
        /\ request[p].outcome = "EXTENDED_SAME_ROOM"
        /\ Extend(p)
        => AddedNightsFree(request[p].reservation, request[p].checkOut)]_vars

\* A stay that was checked out or cancelled does not start again (checkIn, checkOut
\* and cancelReservation write the status they decided on).
EndedStaysEnded ==
    [][\A r \in Reservations :
        reservation[r].status \in {"CHECKED_OUT", "CANCELLED"} =>
            reservation'[r].status = reservation[r].status]_vars

\* A decided extension keeps its decision (decideExtension).
ExtensionDecidedOnce ==
    [][\A x \in Extensions :
        extension[x].status \in {"APPROVED", "REJECTED"} =>
            extension'[x] = extension[x]]_vars

\* While requests are handled one at a time, neither the end of a stay nor the
\* decision on an extension is ever taken back, though restarts, cleaning and rooms
\* taken out of order come between a handler's statements.
EndsAreFinal == EndedStaysEnded /\ ExtensionDecidedOnce

-------------------------------------------------------------------------------
(* Claims of the documentation that the code does not keep                 *)

\* No two stays have the same room for the same night.
NoRoomShared ==
    \A r, s \in Reservations : r # s => ~Share(r, s)

\* An extension never makes a stay shorter.
ExtensionNeverShortens ==
    [][\A r \in Reservations :
        reservation'[r].checkOut >= reservation[r].checkOut]_vars

\* A reservation has at most one undecided extension.
OneUndecidedExtension ==
    \A x, y \in Extensions :
        /\ x # y
        /\ extension[x].status = "UNDECIDED"
        /\ extension[y].status = "UNDECIDED"
        => extension[x].reservation # extension[y].reservation

\* Housekeeping declares a room READY that it cleaned, not one with a guest in it.
ReadyOnlyWithoutGuest ==
    [][\A p \in Requests :
        request[p].at = "roomReady" /\ RoomReady(p) =>
            room[request[p].room] # "OCCUPIED"]_vars

\* A guest who is checked in lives in a room that is OCCUPIED.
GuestRoomOccupied ==
    \A r \in Reservations :
        reservation[r].status = "CHECKED_IN" =>
            \E rm \in Rooms : Holds(r, rm) /\ room[rm] = "OCCUPIED"
================================================================================
