----------------------------- MODULE Stay_proofs ------------------------------
(***************************************************************************)
(* Theorems about Stay.tla for any number of reservations, rooms, rows and *)
(* requests, and any calendar.                                             *)
(***************************************************************************)
EXTENDS Stay, TLAPS

USE RoomsAssumption, DaysAssumption, StaffAssumption
    DEF RoomsAssumption, DaysAssumption, StaffAssumption

\* What an in-flight request carries is decided by its program point.
LEMMA RequestShape ==
    ASSUME NEW q \in RequestState
    PROVE  /\ q.at \in {"assignCheck", "assign"} =>
                q.reservation \in Reservations /\ q.room \in Rooms /\ q.until \in Days
           /\ q.at \in {"moveCheck", "move"} =>
                q.from \in Assignments /\ q.room \in Rooms /\ q.until \in Days
           /\ q.at \in {"checkInFind", "checkOutFind", "cancel"} =>
                q.reservation \in Reservations
           /\ q.at = "checkIn" => q.reservation \in Reservations /\ q.room \in Rooms
           /\ q.at = "checkOut" =>
                q.reservation \in Reservations /\ q.room \in Rooms \cup {NoRoom}
           /\ q.at = "extendOffer" =>
                q.reservation \in Reservations /\ q.until \in Days /\ q.checkOut \in Days
           /\ q.at = "extend" =>
                q.reservation \in Reservations /\ q.checkOut \in Days
           /\ q.at \in {"approve", "reject"} => q.extension \in Extensions
           /\ q.at = "roomReady" => q.room \in Rooms
<1>1. CASE q = Idle
  BY <1>1 DEF Idle
<1>2. CASE q \in [at: {"assignCheck", "assign"}, reservation: Reservations,
                  room: Rooms, until: Days]
  BY <1>2
<1>3. CASE q \in [at: {"moveCheck", "move"}, from: Assignments, room: Rooms, until: Days]
  BY <1>3
<1>4. CASE q \in [at: {"checkInFind", "checkOutFind", "cancel"}, reservation: Reservations]
  BY <1>4
<1>5. CASE q \in [at: {"checkIn"}, reservation: Reservations, room: Rooms]
  BY <1>5
<1>6. CASE q \in [at: {"checkOut"}, reservation: Reservations, room: Rooms \cup {NoRoom}]
  BY <1>6
<1>7. CASE q \in [at: {"extendOffer"}, reservation: Reservations, until: Days, checkOut: Days]
  BY <1>7
<1>8. CASE q \in [at: {"extend"}, reservation: Reservations, checkOut: Days, outcome: Outcomes]
  BY <1>8
<1>9. CASE q \in [at: {"approve", "reject"}, extension: Extensions]
  BY <1>9
<1>10. CASE q \in [at: {"roomReady"}, room: Rooms]
  BY <1>10
<1>11. QED
  BY <1>1, <1>2, <1>3, <1>4, <1>5, <1>6, <1>7, <1>8, <1>9, <1>10 DEF RequestState

-------------------------------------------------------------------------------
(* Type correctness                                                        *)

\* A row that a request will update exists, and still does when it is updated:
\* no table ever loses a row.
RowsExist ==
    \A p \in Requests :
        /\ request[p].at \in {"moveCheck", "move"} => assignment[request[p].from] # NoRow
        /\ request[p].at \in {"approve", "reject"} =>
                extension[request[p].extension] # NoRow

TypeInv == TypeOK /\ RowsExist

\* Handlers that read, or only change their own state.
LEMMA ReadStep ==
    ASSUME TypeInv, NEW p \in Requests, UNCHANGED tables,
           NEW q \in RequestState, Goto(p, q),
           q.at \in {"moveCheck", "move"} => assignment[q.from] # NoRow,
           q.at \in {"approve", "reject"} => extension[q.extension] # NoRow
    PROVE  TypeInv'
  BY DEF TypeInv, TypeOK, RowsExist, tables, Goto

\* A request that is over is a request's state.
LEMMA IdleState == Idle \in RequestState
  BY DEF RequestState

\* The steps that touch no table.
Reads(p) ==
    \/ AssignRead(p) \/ AssignCheck(p) \/ MoveRead(p) \/ MoveCheck(p)
    \/ CheckInRead(p) \/ CheckInFind(p) \/ CheckOutRead(p) \/ CheckOutFind(p)
    \/ CancelRead(p) \/ ExtendRead(p) \/ ExtendOffer(p) \/ DecideRead(p)

\* A statement that only reads keeps the types.
LEMMA ReadsTyped ==
    ASSUME TypeInv, NEW p \in Requests, Reads(p) PROVE TypeInv'
<1> USE DEF TypeInv, TypeOK
<1>a. request[p] \in RequestState
  OBVIOUS
<1>b. \A r \in Reservations :
        reservation[r].checkIn \in Days /\ reservation[r].checkOut \in Days
  BY DEF ReservationRow
<1>1. CASE AssignRead(p)
  <2>1. PICK r \in Reservations, rm \in Rooms :
            Goto(p, [at |-> "assignCheck", reservation |-> r, room |-> rm,
                     until |-> reservation[r].checkOut])
    BY <1>1 DEF AssignRead
  <2>2. [at |-> "assignCheck", reservation |-> r, room |-> rm,
         until |-> reservation[r].checkOut] \in RequestState
    BY <1>b DEF RequestState
  <2>3. QED
    BY <1>1, <2>1, <2>2, ReadStep DEF AssignRead
<1>2. CASE AssignCheck(p)
  <2>1. request[p] \in [at: {"assignCheck", "assign"}, reservation: Reservations,
                        room: Rooms, until: Days]
    BY <1>2, <1>a DEF AssignCheck, RequestState, Idle
  <2>2. [request[p] EXCEPT !.at = "assign"] \in RequestState
    BY <2>1 DEF RequestState
  <2>3. \/ Goto(p, Idle)
        \/ Goto(p, [request[p] EXCEPT !.at = "assign"])
    BY <1>2 DEF AssignCheck, Goto
  <2>4. [request[p] EXCEPT !.at = "assign"].at = "assign"
    BY <2>1
  <2>5. UNCHANGED tables
    BY <1>2 DEF AssignCheck
  <2>6. QED
    BY <2>2, <2>3, <2>4, <2>5, ReadStep, IdleState DEF Idle
<1>3. CASE MoveRead(p)
  <2>1. PICK a \in Assignments, rm \in Rooms :
            /\ Active(a)
            /\ Goto(p, [at |-> "moveCheck", from |-> a, room |-> rm,
                        until |-> reservation[assignment[a].reservation].checkOut])
    BY <1>3 DEF MoveRead
  <2>2. assignment[a] # NoRow /\ assignment[a].reservation \in Reservations
    BY <2>1 DEF Active, NoRow, AssignmentRow
  <2>3. [at |-> "moveCheck", from |-> a, room |-> rm,
         until |-> reservation[assignment[a].reservation].checkOut] \in RequestState
    BY <2>2, <1>b DEF RequestState
  <2>4. QED
    BY <1>3, <2>1, <2>2, <2>3, ReadStep DEF MoveRead
<1>4. CASE MoveCheck(p)
  <2>1. request[p] \in [at: {"moveCheck", "move"}, from: Assignments, room: Rooms,
                        until: Days]
    BY <1>4, <1>a DEF MoveCheck, RequestState, Idle
  <2>2. [request[p] EXCEPT !.at = "move"] \in RequestState
    BY <2>1 DEF RequestState
  <2>3. \/ Goto(p, Idle)
        \/ Goto(p, [request[p] EXCEPT !.at = "move"])
    BY <1>4 DEF MoveCheck, Goto
  <2>4. /\ [request[p] EXCEPT !.at = "move"].at = "move"
        /\ [request[p] EXCEPT !.at = "move"].from = request[p].from
    BY <2>1
  <2>5. assignment[request[p].from] # NoRow
    BY <1>4 DEF MoveCheck, RowsExist
  <2>6. UNCHANGED tables
    BY <1>4 DEF MoveCheck
  <2>7. QED
    BY <2>2, <2>3, <2>4, <2>5, <2>6, ReadStep, IdleState DEF Idle
<1>5. CASE CheckInRead(p) \/ CheckOutRead(p) \/ CancelRead(p)
  <2>1. PICK r \in Reservations, at \in {"checkInFind", "checkOutFind", "cancel"} :
            Goto(p, [at |-> at, reservation |-> r])
    BY <1>5 DEF CheckInRead, CheckOutRead, CancelRead
  <2>2. [at |-> at, reservation |-> r] \in RequestState
    BY DEF RequestState
  <2>3. UNCHANGED tables
    BY <1>5 DEF CheckInRead, CheckOutRead, CancelRead
  <2>4. QED
    BY <2>1, <2>2, <2>3, ReadStep
<1>6. CASE CheckInFind(p)
  <2>1. request[p].reservation \in Reservations
    BY <1>6, <1>a, RequestShape DEF CheckInFind
  <2>2. \A rm \in Rooms :
            [at |-> "checkIn", reservation |-> request[p].reservation, room |-> rm]
                \in RequestState
    BY <2>1 DEF RequestState
  <2>3. UNCHANGED tables
    BY <1>6 DEF CheckInFind
  <2>4. CASE Goto(p, Idle)
    BY <2>3, <2>4, ReadStep, IdleState DEF Idle
  <2>5. CASE \E rm \in Rooms :
                Goto(p, [at |-> "checkIn", reservation |-> request[p].reservation,
                         room |-> rm])
    <3>1. PICK rm \in Rooms :
                Goto(p, [at |-> "checkIn", reservation |-> request[p].reservation,
                         room |-> rm])
      BY <2>5
    <3>2. QED
      BY <2>2, <2>3, <3>1, ReadStep
  <2>6. QED
    BY <1>6, <2>4, <2>5 DEF CheckInFind
<1>7. CASE CheckOutFind(p)
  <2>1. request[p].reservation \in Reservations
    BY <1>7, <1>a, RequestShape DEF CheckOutFind
  <2>2. PICK rm \in Rooms \cup {NoRoom} :
            Goto(p, [at |-> "checkOut", reservation |-> request[p].reservation,
                     room |-> rm])
    BY <1>7 DEF CheckOutFind
  <2>3. [at |-> "checkOut", reservation |-> request[p].reservation, room |-> rm]
            \in RequestState
    BY <2>1 DEF RequestState
  <2>4. QED
    BY <1>7, <2>2, <2>3, ReadStep DEF CheckOutFind
<1>8. CASE ExtendRead(p)
  <2>1. PICK r \in Reservations, newCheckOut \in Days :
            Goto(p, [at |-> "extendOffer", reservation |-> r,
                     until |-> reservation[r].checkOut, checkOut |-> newCheckOut])
    BY <1>8 DEF ExtendRead
  <2>2. [at |-> "extendOffer", reservation |-> r, until |-> reservation[r].checkOut,
         checkOut |-> newCheckOut] \in RequestState
    BY <1>b DEF RequestState
  <2>3. QED
    BY <1>8, <2>1, <2>2, ReadStep DEF ExtendRead
<1>9. CASE ExtendOffer(p)
  <2>1. request[p].reservation \in Reservations /\ request[p].checkOut \in Days
    BY <1>9, <1>a, RequestShape DEF ExtendOffer
  <2>2. PICK o \in ExtensionOutcomes(request[p].reservation, request[p].until,
                                     request[p].checkOut) :
            Goto(p, [at |-> "extend", reservation |-> request[p].reservation,
                     checkOut |-> request[p].checkOut, outcome |-> o])
    BY <1>9 DEF ExtendOffer
  <2>3. o \in Outcomes
    BY <2>2 DEF ExtensionOutcomes, Outcomes
  <2>4. [at |-> "extend", reservation |-> request[p].reservation,
         checkOut |-> request[p].checkOut, outcome |-> o] \in RequestState
    BY <2>1, <2>3 DEF RequestState
  <2>5. QED
    BY <1>9, <2>2, <2>4, ReadStep DEF ExtendOffer
<1>10. CASE DecideRead(p)
  <2>1. PICK x \in Extensions, decision \in {"approve", "reject"} :
            /\ extension[x].status = "UNDECIDED"
            /\ Goto(p, [at |-> decision, extension |-> x])
    BY <1>10 DEF DecideRead
  <2>2. extension[x] # NoRow
    BY <2>1 DEF NoRow
  <2>3. [at |-> decision, extension |-> x] \in RequestState
    BY DEF RequestState
  <2>4. QED
    BY <1>10, <2>1, <2>2, <2>3, ReadStep DEF DecideRead
<1>11. QED
  BY <1>1, <1>2, <1>3, <1>4, <1>5, <1>6, <1>7, <1>8, <1>9, <1>10 DEF Reads

\* Every step keeps the types, and the rows a handler has found exist.
LEMMA TypeStep == TypeInv /\ [Next]_vars => TypeInv'
<1> SUFFICES ASSUME TypeInv, [Next]_vars PROVE TypeInv'
  OBVIOUS
<1> USE DEF TypeInv, TypeOK
<1>a. \A p \in Requests : request[p] \in RequestState
  OBVIOUS
<1>1. ASSUME NEW p \in Requests, Reads(p) PROVE TypeInv'
  BY <1>1, ReadsTyped
<1>2. ASSUME NEW p \in Requests, Goto(p, Idle), assignment' \in [Assignments -> AssignmentRow],
             \A a \in Assignments : assignment[a] # NoRow => assignment'[a] # NoRow,
             UNCHANGED <<reservation, room, task, extension>>
      PROVE  TypeInv'
  BY <1>2, <1>a, RequestShape, IdleState DEF RowsExist, Goto, Idle
<1>3. ASSUME NEW p \in Requests, AssignRoom(p) PROVE TypeInv'
  <2>1. PICK a \in Assignments :
            /\ assignment[a] = NoRow
            /\ assignment' = [assignment EXCEPT ![a] =
                    [status |-> "ACTIVE", reservation |-> request[p].reservation,
                     room |-> request[p].room]]
    BY <1>3 DEF AssignRoom
  <2>2. [status |-> "ACTIVE", reservation |-> request[p].reservation,
         room |-> request[p].room] \in AssignmentRow
    BY <1>3, <1>a, RequestShape DEF AssignRoom, AssignmentRow
  <2>3. assignment' \in [Assignments -> AssignmentRow]
    BY <2>1, <2>2
  <2>4. \A x \in Assignments : assignment[x] # NoRow => assignment'[x] # NoRow
    BY <2>1
  <2>5. QED
    BY <1>2, <1>3, <2>3, <2>4 DEF AssignRoom
<1>4. ASSUME NEW p \in Requests, MoveRoom(p) PROVE TypeInv'
  <2> DEFINE from == request[p].from
             released == [assignment[from] EXCEPT !.status = "RELEASED"]
             moved == [status |-> "ACTIVE", reservation |-> assignment[from].reservation,
                       room |-> request[p].room]
  <2>1. /\ from \in Assignments
        /\ request[p].room \in Rooms
        /\ assignment[from] # NoRow
    BY <1>4, <1>a, RequestShape DEF MoveRoom, RowsExist
  <2>2. assignment[from] \in [status: {"ACTIVE", "RELEASED"},
                              reservation: Reservations, room: Rooms]
    BY <2>1 DEF AssignmentRow
  <2>3. released \in AssignmentRow /\ moved \in AssignmentRow
    BY <2>1, <2>2 DEF AssignmentRow
  <2>4. released # NoRow /\ moved # NoRow
    BY <2>2 DEF NoRow
  <2>5. PICK a \in Assignments :
            /\ assignment[a] = NoRow
            /\ assignment' = [assignment EXCEPT ![from].status = "RELEASED",
                                                ![a] = moved]
    BY <1>4 DEF MoveRoom
  <2>6. assignment' = [[assignment EXCEPT ![from] = released] EXCEPT ![a] = moved]
    BY <2>1, <2>5
  <2> HIDE DEF released, moved
  <2>7. assignment' \in [Assignments -> AssignmentRow]
    BY <2>1, <2>3, <2>6
  <2>8. \A x \in Assignments : assignment[x] # NoRow => assignment'[x] # NoRow
    BY <2>1, <2>4, <2>6
  <2>9. QED
    BY <1>2, <1>4, <2>7, <2>8 DEF MoveRoom
<1>5. ASSUME NEW p \in Requests, CheckIn(p) PROVE TypeInv'
  <2>1. request[p].reservation \in Reservations /\ request[p].room \in Rooms
    BY <1>5, <1>a, RequestShape DEF CheckIn
  <2>2. reservation' \in [Reservations -> ReservationRow]
    BY <1>5, <2>1, SMTT(30) DEF CheckIn, ReservationRow
  <2>3. room' \in [Rooms -> RoomStatus]
    BY <1>5, <2>1 DEF CheckIn, RoomStatus
  <2>4. QED
    BY <1>5, <2>2, <2>3, IdleState DEF CheckIn, Goto, RowsExist, Idle
<1>6. ASSUME NEW p \in Requests, CheckOut(p) PROVE TypeInv'
  <2> DEFINE r == request[p].reservation
             rm == request[p].room
  <2>1. r \in Reservations /\ rm \in Rooms \cup {NoRoom}
    BY <1>6, <1>a, RequestShape DEF CheckOut
  <2>2. reservation' \in [Reservations -> ReservationRow]
    BY <1>6, <2>1 DEF CheckOut, ReservationRow
  <2>3. room' \in [Rooms -> RoomStatus]
    BY <1>6, <2>1 DEF CheckOut, RoomStatus
  <2>4. task' \in [Tasks -> TaskRow]
    <3>1. CASE rm = NoRoom
      BY <1>6, <3>1 DEF CheckOut
    <3>2. CASE rm # NoRoom
      <4>1. PICK t \in Tasks :
                task' = [task EXCEPT ![t] =
                            [status |-> "PENDING", reservation |-> r, room |-> rm]]
        BY <1>6, <3>2 DEF CheckOut
      <4>2. [status |-> "PENDING", reservation |-> r, room |-> rm] \in TaskRow
        BY <2>1, <3>2 DEF TaskRow
      <4>3. QED
        BY <4>1, <4>2
    <3>3. QED
      BY <3>1, <3>2
  <2>5. QED
    BY <1>6, <2>2, <2>3, <2>4, IdleState DEF CheckOut, Goto, RowsExist, Idle
<1>7. ASSUME NEW p \in Requests, Cancel(p) PROVE TypeInv'
  <2>1. request[p].reservation \in Reservations
    BY <1>7, <1>a, RequestShape DEF Cancel
  <2>2. reservation' \in [Reservations -> ReservationRow]
    BY <1>7, <2>1 DEF Cancel, ReservationRow
  <2>3. QED
    BY <1>7, <2>2, IdleState DEF Cancel, Goto, RowsExist, Idle
<1>8. ASSUME NEW p \in Requests, Goto(p, Idle),
             extension' \in [Extensions -> ExtensionRow],
             \A x \in Extensions : extension[x] # NoRow => extension'[x] # NoRow,
             reservation' \in [Reservations -> ReservationRow],
             UNCHANGED <<assignment, room, task>>
      PROVE  TypeInv'
  BY <1>8, <1>a, RequestShape, IdleState DEF RowsExist, Goto, Idle
<1>9. ASSUME NEW p \in Requests, Extend(p) PROVE TypeInv'
  <2> DEFINE row == [status |-> "UNDECIDED", reservation |-> request[p].reservation,
                     checkOut |-> request[p].checkOut]
  <2>1. row \in ExtensionRow
    BY <1>9, <1>a, RequestShape DEF Extend, ExtensionRow
  <2>2. PICK x \in Extensions :
            extension[x] = NoRow /\ extension' = [extension EXCEPT ![x] = row]
    BY <1>9 DEF Extend
  <2>3. extension' \in [Extensions -> ExtensionRow]
    BY <2>1, <2>2
  <2>4. \A y \in Extensions : extension[y] # NoRow => extension'[y] # NoRow
    BY <2>2
  <2>5. QED
    BY <1>8, <1>9, <2>3, <2>4 DEF Extend
<1>10. ASSUME NEW p \in Requests, NEW status \in {"APPROVED", "REJECTED"},
              request[p].at \in {"approve", "reject"},
              extension' = [extension EXCEPT ![request[p].extension].status = status]
       PROVE  /\ extension' \in [Extensions -> ExtensionRow]
              /\ \A x \in Extensions : extension[x] # NoRow => extension'[x] # NoRow
  <2> DEFINE x == request[p].extension
             decided == [extension[x] EXCEPT !.status = status]
  <2>1. x \in Extensions /\ extension[x] # NoRow
    BY <1>10, <1>a, RequestShape DEF RowsExist
  <2>2. extension[x] \in [status: {"UNDECIDED", "APPROVED", "REJECTED"},
                          reservation: Reservations, checkOut: Days]
    BY <2>1 DEF ExtensionRow
  <2>3. decided \in ExtensionRow /\ decided # NoRow
    BY <2>2 DEF ExtensionRow, NoRow
  <2>4. extension' = [extension EXCEPT ![x] = decided]
    BY <1>10
  <2> HIDE DEF decided
  <2>5. QED
    BY <2>1, <2>3, <2>4
<1>11. ASSUME NEW p \in Requests, Reject(p) PROVE TypeInv'
  BY <1>8, <1>10, <1>11 DEF Reject
<1>12. ASSUME NEW p \in Requests, Approve(p) PROVE TypeInv'
  <2> DEFINE x == request[p].extension
  <2>1. x \in Extensions /\ extension[x] # NoRow
    BY <1>12, <1>a, RequestShape DEF Approve, RowsExist
  <2>2. extension[x].checkOut \in Days /\ extension[x].reservation \in Reservations
    BY <2>1 DEF ExtensionRow
  <2>3. reservation' = [reservation EXCEPT ![extension[x].reservation].checkOut =
                                                extension[x].checkOut]
    BY <1>12 DEF Approve
  <2>4. reservation' \in [Reservations -> ReservationRow]
    BY <2>2, <2>3 DEF ReservationRow
  <2>5. QED
    BY <1>8, <1>10, <1>12, <2>4 DEF Approve
<1>13. ASSUME NEW p \in Requests, UpdateTask(p) PROVE TypeInv'
  <2>1. PICK t \in Tasks,
             status \in {"PENDING", "IN_PROGRESS", "COMPLETED", "BLOCKED", "SKIPPED"} :
            /\ task[t] # NoRow
            /\ task' = [task EXCEPT ![t].status = status]
            /\ \/ Goto(p, [at |-> "roomReady", room |-> task[t].room])
               \/ UNCHANGED request
    BY <1>13 DEF UpdateTask
  <2>2. task[t] \in [status: {"PENDING", "IN_PROGRESS", "COMPLETED", "BLOCKED", "SKIPPED"},
                     reservation: Reservations, room: Rooms]
    BY <2>1 DEF TaskRow
  <2>3. [task[t] EXCEPT !.status = status] \in TaskRow
    BY <2>2 DEF TaskRow
  <2>4. task' \in [Tasks -> TaskRow]
    BY <2>1, <2>3
  <2>5. [at |-> "roomReady", room |-> task[t].room] \in RequestState
    BY <2>2 DEF RequestState
  <2>6. QED
    BY <1>13, <2>1, <2>4, <2>5 DEF UpdateTask, Goto, RowsExist
<1>14. ASSUME NEW p \in Requests, RoomReady(p) PROVE TypeInv'
  <2>1. request[p].room \in Rooms
    BY <1>14, <1>a, RequestShape DEF RoomReady
  <2>2. room' \in [Rooms -> RoomStatus]
    BY <1>14, <2>1 DEF RoomReady, RoomStatus
  <2>3. QED
    BY <1>14, <2>2, IdleState DEF RoomReady, Goto, RowsExist, Idle
<1>15. CASE UpdateRoomStatus
  <2>1. PICK rm \in Rooms, status \in StaffSets : room' = [room EXCEPT ![rm] = status]
    BY <1>15 DEF UpdateRoomStatus
  <2>2. room' \in [Rooms -> RoomStatus]
    BY <2>1
  <2>3. QED
    BY <1>15, <2>2 DEF UpdateRoomStatus, RowsExist
<1>16. CASE Restart
  BY <1>16, IdleState DEF Restart, tables, RowsExist, Idle
<1>17. CASE UNCHANGED vars
  BY <1>17 DEF vars, RowsExist
<1>18. QED
  BY <1>1, <1>3, <1>4, <1>5, <1>6, <1>7, <1>9, <1>11, <1>12, <1>13, <1>14, <1>15,
     <1>16, <1>17 DEF Next, Handler, Reads

\* The initial state has its types.
LEMMA TypeInit == Init => TypeInv
  BY IdleState DEF Init, TypeInv, TypeOK, RowsExist, AssignmentRow, TaskRow,
                   ExtensionRow, RoomStatus, Idle

\* Every reachable state is well formed: no handler updates a row that is not
\* there, and every date stays in the calendar.
THEOREM TypeCorrect == Spec => []TypeOK
<1>1. TypeInv => TypeOK
  BY DEF TypeInv
<1>2. QED
  BY <1>1, TypeInit, TypeStep, PTL DEF Spec

-------------------------------------------------------------------------------
(* Guests have rooms, and departures are cleaned up after                  *)

HasRoom(r) == \E rm \in Rooms : Holds(r, rm)

\* A room once assigned is exchanged, never taken away.  A request that is about
\* to check in or out has found one, and neither the check-in nor the departure
\* of the other request can undo that: without this part the two properties are
\* not inductive.
RoomsFound ==
    \A p \in Requests :
        /\ request[p].at \in {"checkIn", "checkOutFind"} => HasRoom(request[p].reservation)
        /\ request[p].at = "checkOut" => request[p].room # NoRoom

GuestInv == CheckedInHasRoom /\ DepartureLeavesTask /\ RoomsFound

\* No step takes the room away from a stay that has one.
LEMMA RoomsKept ==
    ASSUME TypeInv, [Next]_vars, NEW r \in Reservations, HasRoom(r)
    PROVE  HasRoom(r)'
<1> USE DEF TypeInv, TypeOK, HasRoom, Holds, Active
<1>a. \A p \in Requests : request[p] \in RequestState
  OBVIOUS
<1>1. PICK a \in Assignments :
            /\ assignment[a].status = "ACTIVE"
            /\ assignment[a].reservation = r
            /\ assignment[a].room \in Rooms
  OBVIOUS
<1>2. CASE assignment'[a] = assignment[a]
  BY <1>1, <1>2
<1>3. CASE \E p \in Requests : AssignRoom(p)
  <2>1. PICK b \in Assignments, p \in Requests :
            /\ assignment[b] = NoRow
            /\ assignment' = [assignment EXCEPT ![b] =
                    [status |-> "ACTIVE", reservation |-> request[p].reservation,
                     room |-> request[p].room]]
    BY <1>3 DEF AssignRoom
  <2>2. a # b
    BY <1>1, <2>1 DEF NoRow
  <2>3. QED
    BY <1>2, <2>1, <2>2
<1>4. CASE \E p \in Requests : MoveRoom(p)
  <2>1. PICK p \in Requests : MoveRoom(p)
    BY <1>4
  <2>2. /\ request[p].from \in Assignments
        /\ request[p].room \in Rooms
        /\ assignment[request[p].from] # NoRow
    BY <2>1, <1>a, RequestShape DEF MoveRoom, RowsExist
  <2>3. PICK b \in Assignments :
            /\ assignment[b] = NoRow
            /\ assignment' = [assignment EXCEPT
                    ![request[p].from].status = "RELEASED",
                    ![b] = [status |-> "ACTIVE",
                            reservation |-> assignment[request[p].from].reservation,
                            room |-> request[p].room]]
    BY <2>1 DEF MoveRoom
  <2>4. a # b
    BY <1>1, <2>3 DEF NoRow
  <2>5. CASE request[p].from # a
    BY <1>2, <2>2, <2>3, <2>4, <2>5
  <2>6. CASE request[p].from = a
    <3>1. assignment'[b] = [status |-> "ACTIVE", reservation |-> r,
                            room |-> request[p].room]
      BY <1>1, <2>2, <2>3, <2>4, <2>6
    <3>2. QED
      BY <2>2, <3>1
  <2>7. QED
    BY <2>5, <2>6
<1>5. CASE UNCHANGED assignment
  BY <1>2, <1>5
<1>6. QED
  BY <1>3, <1>4, <1>5
     DEF Next, Handler, vars, tables, AssignRead, AssignCheck, MoveRead, MoveCheck,
         CheckInRead, CheckInFind, CheckIn, CheckOutRead, CheckOutFind, CheckOut,
         CancelRead, Cancel, ExtendRead, ExtendOffer, Extend, DecideRead, Reject,
         Approve, UpdateTask, RoomReady, UpdateRoomStatus, Restart

HasTask(r) == \E t \in Tasks : task[t] # NoRow /\ task[t].reservation = r

\* No step takes the task away from a stay that has one.
LEMMA TasksKept ==
    ASSUME TypeInv, [Next]_vars, NEW r \in Reservations, HasTask(r)
    PROVE  HasTask(r)'
<1> USE DEF TypeInv, TypeOK, HasTask
<1>1. PICK t \in Tasks : task[t] # NoRow /\ task[t].reservation = r
  OBVIOUS
<1>2. CASE task'[t] = task[t]
  BY <1>1, <1>2
<1>3. CASE \E p \in Requests : CheckOut(p)
  <2>1. \/ task' = task
        \/ \E u \in Tasks, row \in {[status |-> "PENDING",
                                     reservation |-> request[p].reservation,
                                     room |-> request[p].room] : p \in Requests} :
                task[u] = NoRow /\ task' = [task EXCEPT ![u] = row]
    BY <1>3 DEF CheckOut
  <2>2. task'[t] = task[t]
    BY <1>1, <2>1
  <2>3. QED
    BY <1>2, <2>2
<1>4. CASE \E p \in Requests : UpdateTask(p)
  <2>1. PICK u \in Tasks, status \in {"PENDING", "IN_PROGRESS", "COMPLETED", "BLOCKED",
                                      "SKIPPED"} :
            task' = [task EXCEPT ![u].status = status]
    BY <1>4 DEF UpdateTask
  <2>2. task[t] \in [status: {"PENDING", "IN_PROGRESS", "COMPLETED", "BLOCKED", "SKIPPED"},
                     reservation: Reservations, room: Rooms]
    BY <1>1 DEF TaskRow
  <2>3. [task[t] EXCEPT !.status = status] # NoRow
    BY <2>2 DEF NoRow
  <2>4. [task[t] EXCEPT !.status = status].reservation = r
    BY <1>1, <2>2
  <2>5. task'[t] = task[t] \/ task'[t] = [task[t] EXCEPT !.status = status]
    BY <2>1
  <2>6. QED
    BY <1>2, <2>3, <2>4, <2>5
<1>5. CASE UNCHANGED task
  BY <1>2, <1>5
<1>6. QED
  BY <1>3, <1>4, <1>5
     DEF Next, Handler, vars, tables, AssignRead, AssignCheck, AssignRoom, MoveRead,
         MoveCheck, MoveRoom, CheckInRead, CheckInFind, CheckIn, CheckOutRead,
         CheckOutFind, CancelRead, Cancel, ExtendRead, ExtendOffer, Extend, DecideRead,
         Reject, Approve, RoomReady, UpdateRoomStatus, Restart

\* Only three steps change a reservation's status.
LEMMA StatusChange ==
    ASSUME TypeInv, [Next]_vars, NEW r \in Reservations
    PROVE  \/ reservation'[r].status = reservation[r].status
           \/ \E p \in Requests :
                /\ request[p].reservation = r
                /\ \/ CheckIn(p) /\ reservation'[r].status = "CHECKED_IN"
                   \/ CheckOut(p) /\ reservation'[r].status = "CHECKED_OUT"
                   \/ Cancel(p) /\ reservation'[r].status = "CANCELLED"
<1> USE DEF TypeInv, TypeOK
<1>a. /\ reservation[r] \in ReservationRow
      /\ \A p \in Requests : request[p] \in RequestState
  OBVIOUS
<1>1. CASE UNCHANGED reservation
  BY <1>1
<1>2. ASSUME NEW p \in Requests, CheckIn(p) \/ CheckOut(p) \/ Cancel(p)
      PROVE  \/ reservation'[r].status = reservation[r].status
             \/ /\ request[p].reservation = r
                /\ \/ CheckIn(p) /\ reservation'[r].status = "CHECKED_IN"
                   \/ CheckOut(p) /\ reservation'[r].status = "CHECKED_OUT"
                   \/ Cancel(p) /\ reservation'[r].status = "CANCELLED"
  <2>1. PICK status \in {"CHECKED_IN", "CHECKED_OUT", "CANCELLED"} :
            /\ reservation' = [reservation EXCEPT ![request[p].reservation].status = status]
            /\ \/ CheckIn(p) /\ status = "CHECKED_IN"
               \/ CheckOut(p) /\ status = "CHECKED_OUT"
               \/ Cancel(p) /\ status = "CANCELLED"
    BY <1>2 DEF CheckIn, CheckOut, Cancel
  <2>2. CASE request[p].reservation = r
    <3>1. reservation'[r].status = status
      BY <1>a, <2>1, <2>2 DEF ReservationRow
    <3>2. QED
      BY <2>1, <2>2, <3>1
  <2>3. CASE request[p].reservation # r
    BY <2>1, <2>3
  <2>4. QED
    BY <2>2, <2>3
<1>3. ASSUME NEW p \in Requests, Approve(p)
      PROVE  reservation'[r].status = reservation[r].status
  BY <1>3, <1>a DEF Approve, ReservationRow
<1>4. QED
  BY <1>1, <1>2, <1>3
     DEF Next, Handler, vars, tables, AssignRead, AssignCheck, AssignRoom, MoveRead,
         MoveCheck, MoveRoom, CheckInRead, CheckInFind, CheckOutRead, CheckOutFind,
         CancelRead, ExtendRead, ExtendOffer, Extend, DecideRead, Reject, UpdateTask,
         RoomReady, UpdateRoomStatus, Restart

\* A request arrives at one of these points in one way only.
LEMMA Arrivals ==
    ASSUME TypeInv, [Next]_vars, NEW p \in Requests,
           request'[p].at \in {"checkIn", "checkOutFind", "checkOut"},
           request'[p] # request[p]
    PROVE  \/ CheckInFind(p) /\ request'[p].at = "checkIn"
           \/ CheckOutRead(p) /\ request'[p].at = "checkOutFind"
           \/ CheckOutFind(p) /\ request'[p].at = "checkOut"
<1> USE DEF TypeInv, TypeOK, Goto, Idle
<1>a. request[p] \in RequestState /\ request \in [Requests -> RequestState]
  OBVIOUS
<1>1. PICK q \in Requests : Handler(q)
  BY DEF Next, vars, UpdateRoomStatus, Restart
<1>2. CASE q # p
  BY <1>1, <1>2, <1>a
     DEF Handler, tables, AssignRead, AssignCheck, AssignRoom, MoveRead, MoveCheck,
         MoveRoom, CheckInRead, CheckInFind, CheckIn, CheckOutRead, CheckOutFind,
         CheckOut, CancelRead, Cancel, ExtendRead, ExtendOffer, Extend, DecideRead,
         Reject, Approve, UpdateTask, RoomReady
<1>3. CASE q = p
  <2>1. CASE AssignCheck(p)
    <3>1. request[p] \in [at: {"assignCheck", "assign"}, reservation: Reservations,
                          room: Rooms, until: Days]
      BY <2>1, <1>a DEF AssignCheck, RequestState
    <3>2. QED
      BY <2>1, <1>a, <3>1 DEF AssignCheck
  <2>2. CASE MoveCheck(p)
    <3>1. request[p] \in [at: {"moveCheck", "move"}, from: Assignments, room: Rooms,
                          until: Days]
      BY <2>2, <1>a DEF MoveCheck, RequestState
    <3>2. QED
      BY <2>2, <1>a, <3>1 DEF MoveCheck
  <2>3. CASE DecideRead(p)
    <3>1. PICK x \in Extensions, decision \in {"approve", "reject"} :
                request' = [request EXCEPT ![p] = [at |-> decision, extension |-> x]]
      BY <2>3 DEF DecideRead
    <3>2. QED
      BY <1>a, <3>1
  <2>4. CASE UpdateTask(p)
    <3>1. \/ request' = request
          \/ request'[p].at = "roomReady"
      BY <2>4, <1>a DEF UpdateTask
    <3>2. QED
      BY <3>1
  <2>5. CASE CheckInFind(p)
    <3>1. request'[p].at \in {"idle", "checkIn"}
      BY <2>5, <1>a DEF CheckInFind
    <3>2. QED
      BY <2>5, <3>1
  <2>6. CASE CheckOutFind(p)
    <3>1. request'[p].at = "checkOut"
      BY <2>6, <1>a DEF CheckOutFind
    <3>2. QED
      BY <2>6, <3>1
  <2>7. CASE CheckOutRead(p)
    <3>1. request'[p].at = "checkOutFind"
      BY <2>7, <1>a DEF CheckOutRead
    <3>2. QED
      BY <2>7, <3>1
  <2>8. CASE AssignRead(p) \/ MoveRead(p) \/ CheckInRead(p) \/ CancelRead(p)
                \/ ExtendRead(p) \/ ExtendOffer(p)
    BY <2>8, <1>a DEF AssignRead, MoveRead, CheckInRead, CancelRead, ExtendRead, ExtendOffer
  <2>9. CASE AssignRoom(p) \/ MoveRoom(p) \/ CheckIn(p) \/ CheckOut(p) \/ Cancel(p)
                \/ Extend(p) \/ Reject(p) \/ Approve(p) \/ RoomReady(p)
    BY <2>9, <1>a, SMTT(30)
       DEF AssignRoom, MoveRoom, CheckIn, CheckOut, Cancel, Extend, Reject, Approve,
           RoomReady
  <2>10. QED
    BY <1>1, <1>3, <2>1, <2>2, <2>3, <2>4, <2>5, <2>6, <2>7, <2>8, <2>9 DEF Handler
<1>4. QED
  BY <1>2, <1>3

\* Every step leaves guests with rooms, departures with tasks, and handlers in flight
\* with the room they found.
LEMMA GuestStep == TypeInv /\ GuestInv /\ [Next]_vars => GuestInv'
<1> SUFFICES ASSUME TypeInv, GuestInv, [Next]_vars PROVE GuestInv'
  OBVIOUS
<1>a. \A r \in Reservations : HasRoom(r) => HasRoom(r)'
  BY RoomsKept
<1>b. /\ reservation \in [Reservations -> ReservationRow]
      /\ request \in [Requests -> RequestState]
      /\ task \in [Tasks -> TaskRow]
      /\ \A p \in Requests : request[p] \in RequestState
  BY DEF TypeInv, TypeOK
<1>c. \A r \in Reservations : reservation[r].status = "CHECKED_IN" => HasRoom(r)
  BY DEF GuestInv, CheckedInHasRoom, HasRoom
<1>1. ASSUME NEW r \in Reservations, reservation'[r].status = "CHECKED_IN"
      PROVE  HasRoom(r)'
  <2>1. CASE reservation[r].status = "CHECKED_IN"
    BY <1>a, <1>c, <2>1
  <2>2. ASSUME NEW p \in Requests, CheckIn(p), request[p].reservation = r
        PROVE  HasRoom(r)'
    BY <1>a, <2>2 DEF CheckIn, GuestInv, RoomsFound
  <2>3. QED
    BY <1>1, <2>1, <2>2, StatusChange
<1>2. ASSUME NEW r \in Reservations, reservation'[r].status = "CHECKED_OUT"
      PROVE  HasTask(r)'
  <2>1. CASE reservation[r].status = "CHECKED_OUT"
    <3>1. HasTask(r)
      BY <2>1 DEF GuestInv, DepartureLeavesTask, HasTask
    <3>2. QED
      BY <3>1, TasksKept
  <2>2. ASSUME NEW p \in Requests, CheckOut(p), request[p].reservation = r
        PROVE  HasTask(r)'
    <3>1. request[p].room # NoRoom
      BY <2>2 DEF CheckOut, GuestInv, RoomsFound
    <3>2. PICK t \in Tasks :
                task' = [task EXCEPT ![t] = [status |-> "PENDING", reservation |-> r,
                                             room |-> request[p].room]]
      BY <2>2, <3>1 DEF CheckOut
    <3>3. task'[t] # NoRow /\ task'[t].reservation = r
      BY <1>b, <3>2 DEF NoRow
    <3>4. QED
      BY <3>3 DEF HasTask
  <2>3. QED
    BY <1>2, <2>1, <2>2, StatusChange
<1>3. ASSUME NEW p \in Requests, request'[p].at \in {"checkIn", "checkOutFind"}
      PROVE  HasRoom(request[p].reservation)'
  <2>1. CASE request'[p] = request[p]
    BY <1>3, <1>a, <1>b, <2>1, RequestShape DEF GuestInv, RoomsFound
  <2>2. CASE CheckInFind(p) /\ request'[p].at = "checkIn"
    <3>1. PICK rm \in Rooms :
                /\ Holds(request[p].reservation, rm)
                /\ Goto(p, [at |-> "checkIn", reservation |-> request[p].reservation,
                            room |-> rm])
      BY <2>2, <1>b DEF CheckInFind, Goto, Idle
    <3>2. request[p].reservation \in Reservations
      BY <2>2, <1>b, RequestShape DEF CheckInFind
    <3>3. HasRoom(request[p].reservation)
      BY <3>1 DEF HasRoom
    <3>4. request'[p].reservation = request[p].reservation
      BY <3>1, <1>b DEF Goto
    <3>5. QED
      BY <1>a, <3>2, <3>3, <3>4
  <2>3. CASE CheckOutRead(p)
    <3>1. PICK r \in Reservations :
                /\ reservation[r].status = "CHECKED_IN"
                /\ Goto(p, [at |-> "checkOutFind", reservation |-> r])
      BY <2>3 DEF CheckOutRead
    <3>2. request'[p].reservation = r
      BY <3>1, <1>b DEF Goto
    <3>3. QED
      BY <1>a, <1>c, <3>1, <3>2
  <2>4. QED
    BY <1>3, <2>1, <2>2, <2>3, Arrivals
<1>4. ASSUME NEW p \in Requests, request'[p].at = "checkOut"
      PROVE  request'[p].room # NoRoom
  <2>1. CASE request'[p] = request[p]
    BY <1>4, <2>1 DEF GuestInv, RoomsFound
  <2>2. CASE CheckOutFind(p)
    <3>1. HasRoom(request[p].reservation)
      BY <2>2 DEF CheckOutFind, GuestInv, RoomsFound
    <3>2. PICK rm \in Rooms :
                Goto(p, [at |-> "checkOut", reservation |-> request[p].reservation,
                         room |-> rm])
      BY <2>2, <3>1 DEF CheckOutFind, HasRoom
    <3>3. QED
      BY <3>2, <1>b DEF Goto
  <2>3. QED
    BY <1>4, <2>1, <2>2, Arrivals
<1>5. QED
  BY <1>1, <1>2, <1>3, <1>4
     DEF GuestInv, CheckedInHasRoom, DepartureLeavesTask, RoomsFound, HasRoom, HasTask

\* Nobody has arrived or left initially.
LEMMA GuestInit == Init => GuestInv
  BY DEF Init, GuestInv, CheckedInHasRoom, DepartureLeavesTask, RoomsFound,
         ReservationRow, Idle

\* Whatever is moved, cancelled, decided or forgotten at the same time, a guest
\* who is checked in has a room.
THEOREM GuestsHaveRooms == Spec => []CheckedInHasRoom
<1>1. GuestInv => CheckedInHasRoom
  BY DEF GuestInv
<1>2. QED
  BY <1>1, TypeInit, TypeStep, GuestInit, GuestStep, PTL DEF Spec

\* Every departure leaves a housekeeping task behind.
THEOREM DeparturesAreCleaned == Spec => []DepartureLeavesTask
<1>1. GuestInv => DepartureLeavesTask
  BY DEF GuestInv
<1>2. QED
  BY <1>1, TypeInit, TypeStep, GuestInit, GuestStep, PTL DEF Spec

-------------------------------------------------------------------------------
(* One handler at a time                                                   *)

\* No other stay that holds rm has a night in from..until-1.
Apart(r, rm, from, until) ==
    \A s \in Reservations \ {r} :
        Holds(s, rm) /\ reservation[s].status \in InHouse => ~Overlap(s, from, until)

\* What a handler read or found still stands.  Only staff who set a room's status,
\* and restarts, come between the statements of the only handler.
Stands(q) ==
    /\ q.at \in {"checkInFind", "checkIn"} =>
            reservation[q.reservation].status = "CONFIRMED"
    /\ q.at \in {"checkOutFind", "checkOut"} =>
            reservation[q.reservation].status = "CHECKED_IN"
    /\ q.at = "cancel" => reservation[q.reservation].status \in InHouse
    /\ q.at \in {"approve", "reject"} => extension[q.extension].status = "UNDECIDED"
    /\ q.at \in {"assignCheck", "assign"} => q.until = reservation[q.reservation].checkOut
    /\ q.at = "assign" =>
            Apart(q.reservation, q.room, reservation[q.reservation].checkIn, q.until)
    /\ q.at \in {"moveCheck", "move"} =>
            q.until = reservation[assignment[q.from].reservation].checkOut
    /\ q.at = "move" =>
            Apart(assignment[q.from].reservation, q.room,
                  reservation[assignment[q.from].reservation].checkIn, q.until)
    /\ q.at = "extendOffer" => q.until = reservation[q.reservation].checkOut
    /\ q.at = "extend" /\ q.outcome = "EXTENDED_SAME_ROOM" =>
            \E rm \in Rooms :
                /\ Holds(q.reservation, rm)
                /\ Apart(q.reservation, rm, reservation[q.reservation].checkOut, q.checkOut)

ReadsStand == \A p \in Requests : Stands(request[p])

\* A room found free is one that no other stay has for those nights.
LEMMA FreeIsApart ==
    ASSUME NEW r, NEW rm, NEW from, NEW until, Free(rm, from, until, r)
    PROVE  Apart(r, rm, from, until)
  BY DEF Free, Apart

\* A step that writes none of the tables that were read.
LEMMA StandsKept ==
    ASSUME UNCHANGED <<reservation, assignment, extension>>, NEW q, Stands(q)
    PROVE  Stands(q)'
  BY DEF Stands, Apart, Holds, Active, Overlap

\* A request that is over has read nothing that could be outdated.
LEMMA IdleStands == Stands(Idle)
  BY DEF Stands, Idle

\* Nor has the only request once it is over.
LEMMA IdleStandsAfter ==
    ASSUME NEW p, Requests = {p}, request' = [request EXCEPT ![p] = Idle],
           request \in [Requests -> RequestState]
    PROVE  ReadsStand'
  BY DEF ReadsStand, Stands, Idle

\* A handler that only reads, and read what is there.
LEMMA ReadStands ==
    ASSUME NEW p, Requests = {p}, request \in [Requests -> RequestState],
           UNCHANGED tables, NEW q, Goto(p, q), Stands(q)
    PROVE  ReadsStand'
<1>1. request'[p] = q
  BY DEF Goto
<1>2. Stands(q)'
  BY StandsKept DEF tables
<1>3. Stands(request[p])'
  BY <1>1, <1>2 DEF Stands
<1>4. QED
  BY <1>3 DEF ReadsStand

\* What the only request reads stands when it has read it.
LEMMA ReadsReadStands ==
    ASSUME TypeInv, ReadsStand, NEW p, Requests = {p}, Reads(p)
    PROVE  ReadsStand'
<1> USE DEF TypeInv, TypeOK
<1>a. request[p] \in RequestState /\ Stands(request[p]) /\ request \in [Requests -> RequestState]
  BY DEF ReadsStand
<1>1. CASE AssignRead(p)
  <2>1. PICK r \in Reservations, rm \in Rooms :
            Goto(p, [at |-> "assignCheck", reservation |-> r, room |-> rm,
                     until |-> reservation[r].checkOut])
    BY <1>1 DEF AssignRead
  <2>2. Stands([at |-> "assignCheck", reservation |-> r, room |-> rm,
                until |-> reservation[r].checkOut])
    BY DEF Stands
  <2>3. QED
    BY <1>1, <1>a, <2>1, <2>2, ReadStands DEF AssignRead
<1>2. CASE AssignCheck(p)
  <2> DEFINE q == request[p]
             next == [q EXCEPT !.at = "assign"]
  <2>1. q \in [at: {"assignCheck", "assign"}, reservation: Reservations,
               room: Rooms, until: Days]
    BY <1>2, <1>a DEF AssignCheck, RequestState, Idle
  <2>2. q.at = "assignCheck" /\ UNCHANGED tables
    BY <1>2 DEF AssignCheck
  <2>3. CASE Goto(p, Idle)
    BY <1>a, <2>3, IdleStandsAfter DEF Goto
  <2>4. CASE /\ Free(q.room, reservation[q.reservation].checkIn, q.until, q.reservation)
             /\ Goto(p, next)
    <3>1. /\ next.at = "assign"
          /\ next.reservation = q.reservation
          /\ next.room = q.room
          /\ next.until = q.until
      BY <2>1
    <3>2. Apart(q.reservation, q.room, reservation[q.reservation].checkIn, q.until)
      BY <2>4, FreeIsApart
    <3>3. q.until = reservation[q.reservation].checkOut
      BY <1>a, <2>2 DEF Stands
    <3> HIDE DEF next
    <3>4. Stands(next)
      BY <3>1, <3>2, <3>3 DEF Stands
    <3>5. QED
      BY <1>a, <2>2, <2>4, <3>4, ReadStands
  <2>5. QED
    BY <1>2, <2>3, <2>4 DEF AssignCheck, Goto
<1>3. CASE MoveRead(p)
  <2>1. PICK a \in Assignments, rm \in Rooms :
            Goto(p, [at |-> "moveCheck", from |-> a, room |-> rm,
                     until |-> reservation[assignment[a].reservation].checkOut])
    BY <1>3 DEF MoveRead
  <2>2. Stands([at |-> "moveCheck", from |-> a, room |-> rm,
                until |-> reservation[assignment[a].reservation].checkOut])
    BY DEF Stands
  <2>3. QED
    BY <1>3, <1>a, <2>1, <2>2, ReadStands DEF MoveRead
<1>4. CASE MoveCheck(p)
  <2> DEFINE q == request[p]
             r == assignment[q.from].reservation
             next == [q EXCEPT !.at = "move"]
  <2>1. q \in [at: {"moveCheck", "move"}, from: Assignments, room: Rooms, until: Days]
    BY <1>4, <1>a DEF MoveCheck, RequestState, Idle
  <2>2. q.at = "moveCheck" /\ UNCHANGED tables
    BY <1>4 DEF MoveCheck
  <2>3. CASE Goto(p, Idle)
    BY <1>a, <2>3, IdleStandsAfter DEF Goto
  <2>4. CASE Free(q.room, reservation[r].checkIn, q.until, r) /\ Goto(p, next)
    <3>1. /\ next.at = "move"
          /\ next.from = q.from
          /\ next.room = q.room
          /\ next.until = q.until
      BY <2>1
    <3>2. Apart(r, q.room, reservation[r].checkIn, q.until)
      BY <2>4, FreeIsApart
    <3>3. q.until = reservation[r].checkOut
      BY <1>a, <2>2 DEF Stands
    <3> HIDE DEF next
    <3>4. Stands(next)
      BY <3>1, <3>2, <3>3 DEF Stands
    <3>5. QED
      BY <1>a, <2>2, <2>4, <3>4, ReadStands
  <2>5. QED
    BY <1>4, <2>3, <2>4 DEF MoveCheck, Goto
<1>5. CASE CheckInRead(p) \/ CheckOutRead(p) \/ CancelRead(p)
  <2>1. PICK r \in Reservations, at \in {"checkInFind", "checkOutFind", "cancel"} :
            /\ Goto(p, [at |-> at, reservation |-> r])
            /\ at = "checkInFind" => reservation[r].status = "CONFIRMED"
            /\ at = "checkOutFind" => reservation[r].status = "CHECKED_IN"
            /\ at = "cancel" => reservation[r].status \in InHouse
    BY <1>5 DEF CheckInRead, CheckOutRead, CancelRead
  <2>2. Stands([at |-> at, reservation |-> r])
    BY <2>1 DEF Stands
  <2>3. UNCHANGED tables
    BY <1>5 DEF CheckInRead, CheckOutRead, CancelRead
  <2>4. QED
    BY <1>a, <2>1, <2>2, <2>3, ReadStands
<1>6. CASE CheckInFind(p)
  <2>1. UNCHANGED tables /\ reservation[request[p].reservation].status = "CONFIRMED"
    BY <1>6, <1>a DEF CheckInFind, Stands
  <2>2. \A rm \in Rooms :
            Stands([at |-> "checkIn", reservation |-> request[p].reservation, room |-> rm])
    BY <2>1 DEF Stands
  <2>3. CASE Goto(p, Idle)
    BY <1>a, <2>3, IdleStandsAfter DEF Goto
  <2>4. ASSUME NEW rm \in Rooms,
               Goto(p, [at |-> "checkIn", reservation |-> request[p].reservation,
                        room |-> rm])
        PROVE  ReadsStand'
    BY <1>a, <2>1, <2>2, <2>4, ReadStands
  <2>5. QED
    BY <1>6, <2>3, <2>4 DEF CheckInFind
<1>7. CASE CheckOutFind(p)
  <2>1. UNCHANGED tables /\ reservation[request[p].reservation].status = "CHECKED_IN"
    BY <1>7, <1>a DEF CheckOutFind, Stands
  <2>2. PICK rm \in Rooms \cup {NoRoom} :
            Goto(p, [at |-> "checkOut", reservation |-> request[p].reservation,
                     room |-> rm])
    BY <1>7 DEF CheckOutFind
  <2>3. Stands([at |-> "checkOut", reservation |-> request[p].reservation, room |-> rm])
    BY <2>1 DEF Stands
  <2>4. QED
    BY <1>a, <2>1, <2>2, <2>3, ReadStands
<1>8. CASE ExtendRead(p)
  <2>1. PICK r \in Reservations, newCheckOut \in Days :
            Goto(p, [at |-> "extendOffer", reservation |-> r,
                     until |-> reservation[r].checkOut, checkOut |-> newCheckOut])
    BY <1>8 DEF ExtendRead
  <2>2. Stands([at |-> "extendOffer", reservation |-> r,
                until |-> reservation[r].checkOut, checkOut |-> newCheckOut])
    BY DEF Stands
  <2>3. QED
    BY <1>8, <1>a, <2>1, <2>2, ReadStands DEF ExtendRead
<1>9. CASE ExtendOffer(p)
  <2> DEFINE r == request[p].reservation
             until == request[p].until
             checkOut == request[p].checkOut
  <2>1. UNCHANGED tables /\ until = reservation[r].checkOut
    BY <1>9, <1>a DEF ExtendOffer, Stands
  <2>2. PICK o \in ExtensionOutcomes(r, until, checkOut) :
            Goto(p, [at |-> "extend", reservation |-> r, checkOut |-> checkOut,
                     outcome |-> o])
    BY <1>9 DEF ExtendOffer
  <2>3. o = "EXTENDED_SAME_ROOM" =>
            \E rm \in Rooms : Holds(r, rm) /\ Free(rm, until, checkOut, r)
    BY <2>2 DEF ExtensionOutcomes
  <2>4. o = "EXTENDED_SAME_ROOM" =>
            \E rm \in Rooms : Holds(r, rm) /\ Apart(r, rm, reservation[r].checkOut, checkOut)
    BY <2>1, <2>3, FreeIsApart
  <2>5. Stands([at |-> "extend", reservation |-> r, checkOut |-> checkOut, outcome |-> o])
    BY <2>4 DEF Stands
  <2>6. QED
    BY <1>a, <2>1, <2>2, <2>5, ReadStands
<1>10. CASE DecideRead(p)
  <2>1. PICK x \in Extensions, decision \in {"approve", "reject"} :
            /\ extension[x].status = "UNDECIDED"
            /\ Goto(p, [at |-> decision, extension |-> x])
    BY <1>10 DEF DecideRead
  <2>2. Stands([at |-> decision, extension |-> x])
    BY <2>1 DEF Stands
  <2>3. QED
    BY <1>10, <1>a, <2>1, <2>2, ReadStands DEF DecideRead
<1>11. QED
  BY <1>1, <1>2, <1>3, <1>4, <1>5, <1>6, <1>7, <1>8, <1>9, <1>10 DEF Reads

\* What the only request has read still stands after every step.
LEMMA ReadsStandStep ==
    ASSUME TypeInv, ReadsStand, NEW p, Requests = {p}, [Next]_vars
    PROVE  ReadsStand'
<1>a. request \in [Requests -> RequestState] /\ Stands(request[p])
  BY DEF ReadsStand, TypeInv, TypeOK
<1>1. CASE Reads(p)
  BY <1>1, ReadsReadStands
<1>2. CASE Goto(p, Idle)
  BY <1>a, <1>2, IdleStandsAfter DEF Goto
<1>3. CASE UNCHANGED <<reservation, assignment, extension, request>>
  <2>1. Stands(request[p])'
    BY <1>a, <1>3 DEF Stands, Apart, Holds, Active, Overlap
  <2>2. QED
    BY <2>1 DEF ReadsStand
<1>4. CASE UpdateTask(p)
  <2>1. CASE UNCHANGED request
    BY <1>3, <1>4, <2>1 DEF UpdateTask
  <2>2. CASE ~UNCHANGED request
    <3>1. request'[p].at = "roomReady"
      BY <1>a, <1>4, <2>2 DEF UpdateTask, Goto
    <3>2. Stands(request[p])'
      BY <3>1 DEF Stands
    <3>3. QED
      BY <3>2 DEF ReadsStand
  <2>3. QED
    BY <2>1, <2>2
<1>5. CASE Restart
  BY <1>a, <1>5 DEF Restart, ReadsStand, Stands, Idle
<1>6. QED
  BY <1>1, <1>2, <1>3, <1>4, <1>5
     DEF Next, Handler, Reads, vars, AssignRoom, MoveRoom, CheckIn, CheckOut, Cancel,
         Extend, Reject, Approve, RoomReady, UpdateRoomStatus

\* Nothing has been read initially.
LEMMA ReadsStandInit == Init => ReadsStand
  BY IdleStands DEF Init, ReadsStand

\* While one handler runs at a time, what it has read stands in every reachable state.
LEMMA OneHandlerInv ==
    ASSUME NEW p, Requests = {p} PROVE Spec => [](TypeInv /\ ReadsStand)
<1>1. TypeInv /\ ReadsStand /\ [Next]_vars => ReadsStand'
  BY ReadsStandStep
<1>2. QED
  BY <1>1, TypeInit, TypeStep, ReadsStandInit, PTL DEF Spec

\* As long as one handler runs at a time, a stay that has ended does not start
\* again, for any number of reservations and rooms.
THEOREM EndedStayStaysEnded ==
    ASSUME NEW p, Requests = {p} PROVE Spec => EndedStaysEnded
<1>1. ASSUME TypeInv, ReadsStand, [Next]_vars, NEW r \in Reservations,
             reservation[r].status \in {"CHECKED_OUT", "CANCELLED"}
      PROVE  reservation'[r].status = reservation[r].status
  <2>1. Stands(request[p])
    BY <1>1 DEF ReadsStand
  <2>2. ~(request[p].reservation = r /\ (CheckIn(p) \/ CheckOut(p) \/ Cancel(p)))
    BY <1>1, <2>1 DEF Stands, CheckIn, CheckOut, Cancel, InHouse
  <2>3. QED
    BY <1>1, <2>2, StatusChange
<1>2. TypeInv /\ ReadsStand /\ [Next]_vars =>
        [\A r \in Reservations :
            reservation[r].status \in {"CHECKED_OUT", "CANCELLED"} =>
                reservation'[r].status = reservation[r].status]_vars
  BY <1>1
<1>3. QED
  BY <1>2, OneHandlerInv, PTL DEF Spec, EndedStaysEnded

\* One handler at a time decides an undecided extension only.
LEMMA DecidedStays ==
    ASSUME TypeInv, ReadsStand, NEW p, Requests = {p}, [Next]_vars,
           NEW x \in Extensions, extension[x].status \in {"APPROVED", "REJECTED"}
    PROVE  extension'[x] = extension[x]
<1>1. Stands(request[p]) /\ extension \in [Extensions -> ExtensionRow]
  BY DEF ReadsStand, TypeInv, TypeOK
<1>2. CASE Approve(p) \/ Reject(p)
  <2>1. request[p].extension # x
    BY <1>1, <1>2 DEF Stands, Approve, Reject
  <2>2. QED
    BY <1>1, <1>2, <2>1 DEF Approve, Reject
<1>3. CASE Extend(p)
  BY <1>1, <1>3 DEF Extend, NoRow
<1>4. CASE UNCHANGED extension
  BY <1>4
<1>5. QED
  BY <1>2, <1>3, <1>4
     DEF Next, Handler, vars, tables, AssignRead, AssignCheck, AssignRoom, MoveRead,
         MoveCheck, MoveRoom, CheckInRead, CheckInFind, CheckIn, CheckOutRead,
         CheckOutFind, CheckOut, CancelRead, Cancel, ExtendRead, ExtendOffer,
         DecideRead, UpdateTask, RoomReady, UpdateRoomStatus, Restart

\* As long as one handler runs at a time, a decided extension is final.
THEOREM DecisionsAreFinal ==
    ASSUME NEW p, Requests = {p} PROVE Spec => ExtensionDecidedOnce
<1>1. TypeInv /\ ReadsStand /\ [Next]_vars =>
        [\A x \in Extensions :
            extension[x].status \in {"APPROVED", "REJECTED"} =>
                extension'[x] = extension[x]]_vars
  BY DecidedStays
<1>2. QED
  BY <1>1, OneHandlerInv, PTL DEF Spec, ExtensionDecidedOnce

\* As long as one handler runs at a time, neither the end of a stay nor the decision
\* on an extension is ever taken back.
THEOREM EndsAlwaysFinal ==
    ASSUME NEW p, Requests = {p} PROVE Spec => EndsAreFinal
  BY EndedStayStaysEnded, DecisionsAreFinal DEF EndsAreFinal

\* As long as one handler runs at a time, an extension in the same room is offered
\* only for nights on which that room is free of other stays.
THEOREM OffersFit ==
    ASSUME NEW h, Requests = {h} PROVE Spec => OfferedExtensionFits
<1>1. ASSUME TypeInv, ReadsStand, NEW p \in Requests, request[p].at = "extend",
             request[p].outcome = "EXTENDED_SAME_ROOM"
      PROVE  AddedNightsFree(request[p].reservation, request[p].checkOut)
  <2> DEFINE q == request[p]
  <2>1. q.reservation \in Reservations /\ q.checkOut \in Days
    BY <1>1, RequestShape DEF TypeInv, TypeOK
  <2>2. \A s \in Reservations : reservation[s].checkIn \in Nat /\ reservation[s].checkOut \in Nat
    BY <1>1 DEF TypeInv, TypeOK, ReservationRow, Days
  <2>3. PICK rm \in Rooms :
            /\ Holds(q.reservation, rm)
            /\ Apart(q.reservation, rm, reservation[q.reservation].checkOut, q.checkOut)
    BY <1>1 DEF ReadsStand, Stands
  <2>4. ASSUME NEW s \in Reservations \ {q.reservation}, Holds(s, rm),
               reservation[s].status \in InHouse,
               NEW day \in reservation[q.reservation].checkOut .. q.checkOut - 1
        PROVE  day \notin reservation[s].checkIn .. reservation[s].checkOut - 1
    <3>1. ~Overlap(s, reservation[q.reservation].checkOut, q.checkOut)
      BY <2>3, <2>4 DEF Apart
    <3>2. QED
      BY <2>1, <2>2, <2>4, <3>1 DEF Overlap, Days
  <2>5. QED
    BY <2>3, <2>4 DEF AddedNightsFree
<1>2. TypeInv /\ ReadsStand /\ [Next]_vars =>
        [\A p \in Requests :
            /\ request[p].at = "extend"
            /\ request[p].outcome = "EXTENDED_SAME_ROOM"
            /\ Extend(p)
            => AddedNightsFree(request[p].reservation, request[p].checkOut)]_vars
  BY <1>1
<1>3. Spec => [](TypeInv /\ ReadsStand)
  BY OneHandlerInv
<1>4. QED
  BY <1>2, <1>3, PTL DEF Spec, OfferedExtensionFits

-------------------------------------------------------------------------------
(* Rooms are shared only by extension                                      *)

Extended(r) ==
    \E x \in Extensions :
        extension[x].status = "APPROVED" /\ extension[x].reservation = r

\* Holds and dates of stays that are not extended.  A stay whose check-out moved is
\* Extended, and stays so.
LEMMA ExtendedStays ==
    ASSUME TypeInv, ReadsStand, NEW p, Requests = {p}, [Next]_vars,
           NEW r \in Reservations, Extended(r)
    PROVE  Extended(r)'
  BY DecidedStays DEF Extended

\* A step leaves the dates of a stay, or its extension is approved.
LEMMA DatesKept ==
    ASSUME TypeInv, ReadsStand, NEW p, Requests = {p}, [Next]_vars,
           NEW r \in Reservations
    PROVE  \/ /\ reservation'[r].checkIn = reservation[r].checkIn
              /\ reservation'[r].checkOut = reservation[r].checkOut
           \/ Extended(r)'
<1>1. /\ reservation \in [Reservations -> ReservationRow]
      /\ extension \in [Extensions -> ExtensionRow]
      /\ request[p] \in RequestState
  BY DEF TypeInv, TypeOK
<1>2. CASE Approve(p)
  <2> DEFINE x == request[p].extension
  <2>1. x \in Extensions /\ extension[x] # NoRow
    BY <1>1, <1>2, RequestShape DEF Approve, TypeInv, RowsExist
  <2>2. extension[x] \in [status: {"UNDECIDED", "APPROVED", "REJECTED"},
                          reservation: Reservations, checkOut: Days]
    BY <1>1, <2>1 DEF ExtensionRow
  <2>3. CASE extension[x].reservation = r
    <3>1. extension'[x].status = "APPROVED" /\ extension'[x].reservation = r
      BY <1>1, <1>2, <2>1, <2>2, <2>3 DEF Approve
    <3>2. QED
      BY <2>1, <3>1 DEF Extended
  <2>4. CASE extension[x].reservation # r
    BY <1>1, <1>2, <2>2, <2>4 DEF Approve
  <2>5. QED
    BY <2>3, <2>4
<1>3. CASE CheckIn(p) \/ CheckOut(p) \/ Cancel(p)
  BY <1>1, <1>3 DEF CheckIn, CheckOut, Cancel, ReservationRow
<1>4. CASE UNCHANGED reservation
  BY <1>4
<1>5. QED
  BY <1>2, <1>3, <1>4
     DEF Next, Handler, vars, tables, AssignRead, AssignCheck, AssignRoom, MoveRead,
         MoveCheck, MoveRoom, CheckInRead, CheckInFind, CheckOutRead, CheckOutFind,
         CancelRead, ExtendRead, ExtendOffer, Extend, DecideRead, Reject, UpdateTask,
         RoomReady, UpdateRoomStatus, Restart

\* No step makes a stay that is not in house one that is.
LEMMA InHouseWas ==
    ASSUME TypeInv, ReadsStand, NEW p, Requests = {p}, [Next]_vars,
           NEW r \in Reservations, reservation'[r].status \in InHouse
    PROVE  reservation[r].status \in InHouse
<1>1. Stands(request[p])
  BY DEF ReadsStand
<1>2. CASE CheckIn(p) /\ request[p].reservation = r
  BY <1>1, <1>2 DEF CheckIn, Stands, InHouse
<1>3. QED
  BY <1>2, StatusChange DEF InHouse

\* A room comes to a stay by an assignment or a move, and is then free of other
\* stays on its nights.
LEMMA NewRoomIsApart ==
    ASSUME TypeInv, ReadsStand, NEW p, Requests = {p}, [Next]_vars,
           NEW r \in Reservations, NEW rm \in Rooms, Holds(r, rm)', ~Holds(r, rm)
    PROVE  /\ Apart(r, rm, reservation[r].checkIn, reservation[r].checkOut)
           /\ UNCHANGED reservation
           /\ \A s \in Reservations \ {r} : Holds(s, rm)' => Holds(s, rm)
<1> USE DEF Holds, Active
<1>1. /\ assignment \in [Assignments -> AssignmentRow]
      /\ request[p] \in RequestState
      /\ Stands(request[p])
  BY DEF TypeInv, TypeOK, ReadsStand
<1>2. CASE AssignRoom(p)
  <2>1. PICK a \in Assignments :
            /\ assignment[a] = NoRow
            /\ assignment' = [assignment EXCEPT ![a] =
                    [status |-> "ACTIVE", reservation |-> request[p].reservation,
                     room |-> request[p].room]]
    BY <1>2 DEF AssignRoom
  <2>2. request[p].reservation = r /\ request[p].room = rm
    BY <1>1, <2>1
  <2>3. Apart(r, rm, reservation[r].checkIn, reservation[r].checkOut)
    BY <1>1, <1>2, <2>2 DEF AssignRoom, Stands
  <2>4. \A s \in Reservations \ {r} : Holds(s, rm)' => Holds(s, rm)
    BY <1>1, <2>1, <2>2
  <2>5. QED
    BY <1>2, <2>3, <2>4 DEF AssignRoom
<1>3. CASE MoveRoom(p)
  <2> DEFINE from == request[p].from
             released == [assignment[from] EXCEPT !.status = "RELEASED"]
             moved == [status |-> "ACTIVE", reservation |-> assignment[from].reservation,
                       room |-> request[p].room]
  <2>1. from \in Assignments /\ assignment[from] # NoRow
    BY <1>1, <1>3, RequestShape DEF MoveRoom, TypeInv, RowsExist
  <2>2. released.status = "RELEASED"
    BY <1>1, <2>1 DEF AssignmentRow
  <2>3. PICK a \in Assignments :
            assignment' = [assignment EXCEPT ![from].status = "RELEASED", ![a] = moved]
    BY <1>3 DEF MoveRoom
  <2>4. assignment' = [[assignment EXCEPT ![from] = released] EXCEPT ![a] = moved]
    BY <1>1, <2>1, <2>3
  <2> HIDE DEF released
  <2>5. assignment[from].reservation = r /\ request[p].room = rm
    BY <1>1, <2>1, <2>2, <2>4
  <2>6. Apart(r, rm, reservation[r].checkIn, reservation[r].checkOut)
    BY <1>1, <1>3, <2>5 DEF MoveRoom, Stands
  <2>7. \A s \in Reservations \ {r} : Holds(s, rm)' => Holds(s, rm)
    BY <1>1, <2>1, <2>2, <2>4, <2>5
  <2>8. QED
    BY <1>3, <2>6, <2>7 DEF MoveRoom
<1>4. CASE UNCHANGED assignment
  BY <1>4
<1>5. QED
  BY <1>2, <1>3, <1>4
     DEF Next, Handler, vars, tables, AssignRead, AssignCheck, MoveRead, MoveCheck,
         CheckInRead, CheckInFind, CheckIn, CheckOutRead, CheckOutFind, CheckOut,
         CancelRead, Cancel, ExtendRead, ExtendOffer, Extend, DecideRead, Reject,
         Approve, UpdateTask, RoomReady, UpdateRoomStatus, Restart

\* A step brings two stays to share a room only by an approved extension.
LEMMA ShareStep ==
    ASSUME TypeInv, ReadsStand, SharedOnlyByExtension, NEW p, Requests = {p}, [Next]_vars
    PROVE  SharedOnlyByExtension'
<1> SUFFICES ASSUME NEW r \in Reservations, NEW s \in Reservations, r # s, Share(r, s)',
                    ~Extended(r)', ~Extended(s)'
             PROVE  FALSE
  BY DEF SharedOnlyByExtension, Extended
<1>1. /\ reservation'[r].checkIn = reservation[r].checkIn
      /\ reservation'[r].checkOut = reservation[r].checkOut
      /\ reservation'[s].checkIn = reservation[s].checkIn
      /\ reservation'[s].checkOut = reservation[s].checkOut
  BY DatesKept
<1>2. reservation[r].status \in InHouse /\ reservation[s].status \in InHouse
  BY InHouseWas DEF Share
<1>3. /\ Overlap(r, reservation[s].checkIn, reservation[s].checkOut)
      /\ Overlap(s, reservation[r].checkIn, reservation[r].checkOut)
  <2>1. \A t \in Reservations : reservation[t].checkIn \in Nat /\ reservation[t].checkOut \in Nat
    BY DEF TypeInv, TypeOK, ReservationRow, Days
  <2>2. QED
    BY <1>1, <2>1 DEF Share, Overlap
<1>4. PICK rm \in Rooms : Holds(r, rm)' /\ Holds(s, rm)'
  BY DEF Share
<1>5. CASE Holds(r, rm) /\ Holds(s, rm)
  <2>1. Extended(r) \/ Extended(s)
    BY <1>2, <1>3, <1>5 DEF SharedOnlyByExtension, Share, Extended
  <2>2. QED
    BY <2>1, ExtendedStays
<1>6. CASE ~Holds(r, rm)
  <2>1. /\ Apart(r, rm, reservation[r].checkIn, reservation[r].checkOut)
        /\ Holds(s, rm)
    BY <1>4, <1>6, NewRoomIsApart
  <2>2. QED
    BY <1>2, <1>3, <2>1 DEF Apart
<1>7. CASE ~Holds(s, rm)
  <2>1. /\ Apart(s, rm, reservation[s].checkIn, reservation[s].checkOut)
        /\ Holds(r, rm)
    BY <1>4, <1>7, NewRoomIsApart
  <2>2. QED
    BY <1>2, <1>3, <2>1 DEF Apart
<1>8. QED
  BY <1>5, <1>6, <1>7

\* As long as one handler runs at a time, two stays get the same room for the same
\* night only through an extension that staff approved.
THEOREM OnlyExtensionsShare ==
    ASSUME NEW p, Requests = {p} PROVE Spec => []SharedOnlyByExtension
<1>1. Init => SharedOnlyByExtension
  BY DEF Init, SharedOnlyByExtension, Share, Holds, Active, NoRow
<1>2. TypeInv /\ ReadsStand /\ SharedOnlyByExtension /\ [Next]_vars
        => SharedOnlyByExtension'
  BY ShareStep
<1>3. QED
  BY <1>1, <1>2, OneHandlerInv, PTL DEF Spec
================================================================================
