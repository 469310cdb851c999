---------------------------- MODULE Booking_proofs ----------------------------
(***************************************************************************)
(* Theorems about Booking.tla, and about what a search offers              *)
(* (Availability.tla), for every number of rows, requests, sweeps, nights  *)
(* and units.                                                              *)
(***************************************************************************)
EXTENDS Availability, FiniteSetTheorems, TLAPS

-------------------------------------------------------------------------------
(* Type correctness                                                        *)

USE ConstantsAssumption DEF ConstantsAssumption, Holds, Reservations

\* What an in-flight request carries is decided by its program point.
LEMMA RequestShape ==
    ASSUME NEW q \in RequestState
    PROVE  /\ q.at = "createHold" => q.search \in Search
           /\ q.at \in {"refreshHold", "extendHold"} => q.hold \in Holds
           /\ q.at = "createFromHold" => q.hold \in Holds /\ q.expiresAt \in Nat
           /\ q.at \in {"cancel", "capture", "checkIn", "checkOut"} =>
                    q.reservation \in Reservations
           /\ q.at = "extend" => q.reservation \in Reservations /\ q.to \in Nat
<1>1. CASE q = Idle
  BY <1>1 DEF Idle
<1>2. CASE q \in [at: {"createHold"}, search: Search]
  BY <1>2
<1>3. CASE q \in [at: {"refreshHold", "extendHold"}, hold: Holds]
  BY <1>3
<1>4. CASE q \in [at: {"createFromHold"}, hold: Holds, expiresAt: Nat]
  BY <1>4
<1>5. CASE q \in [at: {"cancel", "capture", "checkIn", "checkOut"},
                   reservation: Reservations]
  BY <1>5
<1>6. CASE q \in [at: {"extend"}, reservation: Reservations, to: Nat]
  BY <1>6
<1>7. QED
  BY <1>1, <1>2, <1>3, <1>4, <1>5, <1>6 DEF RequestState

\* A change of status leaves a row a row.
LEMMA ReservationUpdates ==
    ASSUME NEW row \in ReservationRow, NEW st \in ReservationStatus
    PROVE  [row EXCEPT !.status = st] \in ReservationRow
  BY DEF ReservationRow

\* Every step keeps the rows, requests and batches well formed.
LEMMA TypeStep == TypeOK /\ [Next]_vars => TypeOK'
<1> SUFFICES ASSUME TypeOK, [Next]_vars PROVE TypeOK'
  OBVIOUS
<1> USE DEF TypeOK, tables, sweeps, backed
<1>1. ASSUME NEW p \in Requests, CreateHoldFindsExisting(p) PROVE TypeOK'
  BY <1>1 DEF CreateHoldFindsExisting, ReusableHolds, RequestState
<1>2. ASSUME NEW p \in Requests, CreateHoldFindsNone(p) PROVE TypeOK'
  BY <1>2 DEF CreateHoldFindsNone, RequestState
<1>3. ASSUME NEW p \in Requests, CreateHold(p) PROVE TypeOK'
  <2> DEFINE s == request[p].search
  <2>1. s \in Search
    BY <1>3, RequestShape DEF CreateHold
  <2>2. PICK h \in Holds :
          /\ hold' = [hold EXCEPT ![h] =
                    [status |-> "ACTIVE", session |-> s.session,
                     quantity |-> s.quantity, from |-> s.from, to |-> s.to,
                     expiresAt |-> now + HoldDuration, reservation |-> 0]]
          /\ backedHolds' = backedHolds \cup {h}
    BY <1>3 DEF CreateHold
  <2>3. /\ s.session \in Sessions
        /\ s.quantity \in 0..MaxQuantity
        /\ s.from \in Nat
        /\ s.to \in Nat
    BY <2>1 DEF Search, Nights
  <2>4. [status |-> "ACTIVE", session |-> s.session,
         quantity |-> s.quantity, from |-> s.from, to |-> s.to,
         expiresAt |-> now + HoldDuration, reservation |-> 0] \in HoldRow
    BY <2>3 DEF HoldRow, HoldStatus
  <2>5. hold' \in [Holds -> HoldRow]
    BY <2>2, <2>4
  <2>6. backedHolds' \subseteq Holds
    BY <2>2
  <2>7. request' \in [Requests -> RequestState]
    BY <1>3 DEF CreateHold, RequestState
  <2>8. QED
    BY <1>3, <2>5, <2>6, <2>7 DEF CreateHold
<1>4. ASSUME NEW p \in Requests, CreateHoldRefused(p) PROVE TypeOK'
  BY <1>4 DEF CreateHoldRefused, RequestState
<1>5. ASSUME NEW p \in Requests, RefreshHold(p) PROVE TypeOK'
  <2>1. request[p].hold \in Holds
    BY <1>5, RequestShape DEF RefreshHold
  <2>2. [at |-> "extendHold", hold |-> request[p].hold] \in RequestState
    BY <2>1 DEF RequestState
  <2>3. Idle \in RequestState
    BY DEF RequestState
  <2>4. request' \in [Requests -> RequestState]
    BY <1>5, <2>2, <2>3 DEF RefreshHold
  <2>5. QED
    BY <1>5, <2>4 DEF RefreshHold
<1>6. ASSUME NEW p \in Requests, ExtendHold(p) PROVE TypeOK'
  <2>1. request[p].hold \in Holds
    BY <1>6, RequestShape DEF ExtendHold
  <2>2. [hold[request[p].hold] EXCEPT !.expiresAt = now + HoldDuration] \in HoldRow
    <3>1. hold[request[p].hold] \in HoldRow /\ now + HoldDuration \in Nat
      BY <2>1
    <3>2. QED
      BY <3>1 DEF HoldRow
  <2>3. QED
    BY <1>6, <2>1, <2>2 DEF ExtendHold, RequestState
<1>7. ASSUME NEW h \in Holds, ReleaseHold(h) PROVE TypeOK'
  BY <1>7, ZenonT(40) DEF ReleaseHold, HoldRow, HoldStatus
<1>8. ASSUME NEW p \in Requests, CreateFromHoldRead(p) PROVE TypeOK'
  <2>1. PICK h \in Holds :
            request' = [request EXCEPT ![p] =
                [at |-> "createFromHold", hold |-> h,
                 expiresAt |-> hold[h].expiresAt]]
    BY <1>8 DEF CreateFromHoldRead, LiveHolds
  <2>2. hold[h].expiresAt \in Nat
    BY DEF HoldRow
  <2>3. request' \in [Requests -> RequestState]
    BY <2>1, <2>2 DEF RequestState
  <2>4. QED
    BY <1>8, <2>3 DEF CreateFromHoldRead
<1>9. ASSUME NEW p \in Requests, CreateFromHold(p) PROVE TypeOK'
  <2> DEFINE h == request[p].hold
  <2>1. h \in Holds /\ request[p].expiresAt \in Nat
    BY <1>9, RequestShape DEF CreateFromHold
  <2>2. PICK r \in Reservations :
        /\ reservation' = [reservation EXCEPT ![r] =
                [status |-> "PENDING_PAYMENT", roomCount |-> hold[h].quantity,
                 from |-> hold[h].from, to |-> hold[h].to,
                 holdExpiresAt |-> request[p].expiresAt]]
        /\ hold' = [hold EXCEPT ![h].status = "CONVERTED",
                                ![h].reservation = r]
        /\ backedHolds' = backedHolds \ {h}
        /\ grantedTo' = [grantedTo EXCEPT ![r] =
                            IF h \in backedHolds THEN hold[h].to ELSE 0]
    BY <1>9 DEF CreateFromHold
  <2>3. hold[h] \in HoldRow
    BY <2>1
  <2> HIDE DEF h
  <2>4. reservation' \in [Reservations -> ReservationRow]
    <3>1. [status |-> "PENDING_PAYMENT", roomCount |-> hold[h].quantity,
           from |-> hold[h].from, to |-> hold[h].to,
           holdExpiresAt |-> request[p].expiresAt] \in ReservationRow
      BY <2>1, <2>3 DEF HoldRow, ReservationRow, ReservationStatus
    <3>2. reservation' = [reservation EXCEPT ![r] =
              [status |-> "PENDING_PAYMENT", roomCount |-> hold[h].quantity,
               from |-> hold[h].from, to |-> hold[h].to,
               holdExpiresAt |-> request[p].expiresAt]]
      BY <2>2
    <3>3. QED
      BY <3>1, <3>2
  <2>5. hold' \in [Holds -> HoldRow]
    BY <2>1, <2>2, <2>3 DEF HoldRow, HoldStatus
  <2>6. grantedTo' \in [Reservations -> Nat]
    <3>1. (IF h \in backedHolds THEN hold[h].to ELSE 0) \in Nat
      BY <2>3 DEF HoldRow
    <3>2. QED
      BY <2>2, <3>1
  <2>7. QED
    BY <1>9, <2>2, <2>4, <2>5, <2>6 DEF CreateFromHold, RequestState
<1>10. ASSUME NEW p \in Requests, CancelRead(p) PROVE TypeOK'
  BY <1>10 DEF CancelRead, RequestState
<1>11. ASSUME NEW p \in Requests, Cancel(p) PROVE TypeOK'
  <2>1. request[p].reservation \in Reservations
    BY <1>11, RequestShape DEF Cancel
  <2>2. [reservation[request[p].reservation] EXCEPT !.status = "CANCELLED"]
            \in ReservationRow
    BY <2>1, ReservationUpdates DEF ReservationStatus
  <2>3. reservation' \in [Reservations -> ReservationRow]
    BY <1>11, <2>1, <2>2 DEF Cancel
  <2>4. request' \in [Requests -> RequestState]
    BY <1>11 DEF Cancel, RequestState
  <2>5. QED
    BY <1>11, <2>3, <2>4 DEF Cancel
<1>12. ASSUME NEW p \in Requests, CaptureRead(p) PROVE TypeOK'
  BY <1>12 DEF CaptureRead, RequestState
<1>13. ASSUME NEW p \in Requests, Capture(p) PROVE TypeOK'
  <2>1. request[p].reservation \in Reservations
    BY <1>13, RequestShape DEF Capture
  <2>2. [reservation[request[p].reservation] EXCEPT !.status = "CONFIRMED"]
            \in ReservationRow
    BY <2>1, ReservationUpdates DEF ReservationStatus
  <2>3. reservation' \in [Reservations -> ReservationRow]
    BY <1>13, <2>1, <2>2 DEF Capture
  <2>4. request' \in [Requests -> RequestState]
    BY <1>13 DEF Capture, RequestState
  <2>5. QED
    BY <1>13, <2>3, <2>4 DEF Capture
<1>14. ASSUME NEW w \in Sweepers, FindDueHolds(w) PROVE TypeOK'
  BY <1>14 DEF FindDueHolds, Batches, DueHolds
<1>15. ASSUME NEW w \in Sweepers, ExpireDueHolds(w) PROVE TypeOK'
  BY <1>15, ZenonT(40) DEF ExpireDueHolds, HoldRow, HoldStatus
<1>16. ASSUME NEW w \in Sweepers, FindDueReservations(w) PROVE TypeOK'
  BY <1>16 DEF FindDueReservations, Batches, DueReservations
<1>17. ASSUME NEW w \in Sweepers, ExpireDueReservations(w) PROVE TypeOK'
  BY <1>17 DEF ExpireDueReservations, Lapsed, ReservationRow, ReservationStatus
<1>18. ASSUME NEW p \in Requests, ExtensionRequested(p) PROVE TypeOK'
  BY <1>18 DEF ExtensionRequested, RequestState
<1>19. ASSUME NEW p \in Requests, Extend(p) PROVE TypeOK'
  <2> DEFINE r == request[p].reservation
             to == request[p].to
  <2>1. r \in Reservations /\ to \in Nat
    BY <1>19, RequestShape DEF Extend
  <2>2. /\ reservation' = [reservation EXCEPT ![r].to = to]
        /\ grantedTo' = [grantedTo EXCEPT ![r] = IF to < @ THEN to ELSE @]
        /\ request' = [request EXCEPT ![p] = Idle]
    BY <1>19 DEF Extend
  <2> HIDE DEF r, to
  <2>3. [reservation[r] EXCEPT !.to = to] \in ReservationRow
    BY <2>1 DEF ReservationRow
  <2>4. reservation' \in [Reservations -> ReservationRow]
    BY <2>2, <2>3
  <2>5. grantedTo' \in [Reservations -> Nat]
    BY <2>1, <2>2
  <2>6. request' \in [Requests -> RequestState]
    BY <2>2 DEF RequestState
  <2>7. QED
    BY <1>19, <2>4, <2>5, <2>6 DEF Extend
<1>20. ASSUME NEW p \in Requests, ExtensionRejected(p) PROVE TypeOK'
  BY <1>20 DEF ExtensionRejected, RequestState
<1>21. ASSUME NEW p \in Requests, CheckInRead(p) PROVE TypeOK'
  BY <1>21 DEF CheckInRead, RequestState
<1>22. ASSUME NEW p \in Requests, CheckIn(p) PROVE TypeOK'
  <2>1. request[p].reservation \in Reservations
    BY <1>22, RequestShape DEF CheckIn
  <2>2. [reservation[request[p].reservation] EXCEPT !.status = "CHECKED_IN"]
            \in ReservationRow
    BY <2>1, ReservationUpdates DEF ReservationStatus
  <2>3. reservation' \in [Reservations -> ReservationRow]
    BY <1>22, <2>1, <2>2 DEF CheckIn
  <2>4. request' \in [Requests -> RequestState]
    BY <1>22 DEF CheckIn, RequestState
  <2>5. QED
    BY <1>22, <2>3, <2>4 DEF CheckIn
<1>23. ASSUME NEW p \in Requests, CheckOutRead(p) PROVE TypeOK'
  BY <1>23 DEF CheckOutRead, RequestState
<1>24. ASSUME NEW p \in Requests, CheckOut(p) PROVE TypeOK'
  <2>1. request[p].reservation \in Reservations
    BY <1>24, RequestShape DEF CheckOut
  <2>2. [reservation[request[p].reservation] EXCEPT !.status = "CHECKED_OUT"]
            \in ReservationRow
    BY <2>1, ReservationUpdates DEF ReservationStatus
  <2>3. reservation' \in [Reservations -> ReservationRow]
    BY <1>24, <2>1, <2>2 DEF CheckOut
  <2>4. request' \in [Requests -> RequestState]
    BY <1>24 DEF CheckOut, RequestState
  <2>5. QED
    BY <1>24, <2>3, <2>4 DEF CheckOut
<1>25. CASE Tick
  <2>1. now' \in 0..MaxTime
    BY <1>25 DEF Tick
  <2>2. backedHolds' \subseteq Holds
    BY <1>25 DEF Tick
  <2>3. QED
    BY <1>25, <2>1, <2>2 DEF Tick
<1>26. CASE UNCHANGED vars
  BY <1>26 DEF vars
<1>27. QED
  BY <1>1, <1>2, <1>3, <1>4, <1>5, <1>6, <1>7, <1>8, <1>9, <1>10, <1>11, <1>12,
     <1>13, <1>14, <1>15, <1>16, <1>17, <1>18, <1>19, <1>20, <1>21, <1>22,
     <1>23, <1>24, <1>25, <1>26
     DEF Next, Handler, Sweep

\* The type invariant holds of every reachable state.
THEOREM TypeCorrect == Spec => []TypeOK
<1>1. Init => TypeOK
  BY DEF Init, TypeOK, NoHold, NoReservation, HoldRow, HoldStatus,
         ReservationRow, ReservationStatus, RequestState
<1>2. QED
  BY <1>1, TypeStep, PTL DEF Spec
-------------------------------------------------------------------------------
(* Counting claimed rooms                                                  *)

\* The rooms of any set of claims are finitely many, so that they can be counted.
LEMMA ClaimsFinite ==
    ASSUME NEW S, \/ S \subseteq Holds \X (1..MaxQuantity)
                  \/ S \subseteq Reservations \X (1..MaxQuantity)
    PROVE  IsFiniteSet(S) /\ Cardinality(S) \in Nat
<1>1. IsFiniteSet(Holds) /\ IsFiniteSet(Reservations) /\ IsFiniteSet(1..MaxQuantity)
  BY FS_Interval
<1>2. /\ IsFiniteSet(Holds \X (1..MaxQuantity))
      /\ IsFiniteSet(Reservations \X (1..MaxQuantity))
  BY <1>1, FS_Product
<1>3. IsFiniteSet(S)
  BY <1>2, FS_Subset
<1>4. QED
  BY <1>3, FS_CardinalityType

\* So are those of the holds and of the reservations.
LEMMA RoomsFinite ==
    ASSUME NEW H, NEW R
    PROVE  /\ IsFiniteSet(RoomsOfHolds(H))
           /\ IsFiniteSet(RoomsOfReservations(R))
<1>1. /\ RoomsOfHolds(H) \subseteq Holds \X (1..MaxQuantity)
      /\ RoomsOfReservations(R) \subseteq Reservations \X (1..MaxQuantity)
  BY DEF RoomsOfHolds, RoomsOfReservations
<1>2. QED
  BY <1>1, ClaimsFinite

\* A count of claimed rooms is a natural number.
LEMMA UnitsNat ==
    ASSUME NEW H, NEW R, NEW a, NEW b
    PROVE  Units(H, R, a, b) \in Nat
<1>1. /\ Cardinality(RoomsOfHolds(HoldsOver(H, a, b))) \in Nat
      /\ Cardinality(RoomsOfReservations(ReservationsOver(R, a, b))) \in Nat
  BY RoomsFinite, FS_CardinalityType
<1>2. QED
  BY <1>1 DEF Units

\* What overlaps one night of a stay overlaps the stay.
LEMMA UnitsMonotone ==
    ASSUME TypeOK, NEW H \in SUBSET Holds, NEW G \in SUBSET Holds, H \subseteq G,
           NEW R \in SUBSET Reservations, NEW Q \in SUBSET Reservations,
           R \subseteq Q,
           NEW a \in Nat, NEW b \in Nat, NEW n \in Nat, a <= n, n < b
    PROVE  Units(H, R, n, n + 1) <= Units(G, Q, a, b)
<1> DEFINE A == RoomsOfHolds(HoldsOver(H, n, n + 1))
           B == RoomsOfHolds(HoldsOver(G, a, b))
           C == RoomsOfReservations(ReservationsOver(R, n, n + 1))
           D == RoomsOfReservations(ReservationsOver(Q, a, b))
<1>1. \A h \in Holds : hold[h].from \in Nat /\ hold[h].to \in Nat
  BY DEF TypeOK, HoldRow
<1>2. \A r \in Reservations : reservation[r].from \in Nat /\ reservation[r].to \in Nat
  BY DEF TypeOK, ReservationRow
<1>3. HoldsOver(H, n, n + 1) \subseteq HoldsOver(G, a, b)
  <2> SUFFICES ASSUME NEW h \in HoldsOver(H, n, n + 1)
               PROVE  h \in HoldsOver(G, a, b)
    OBVIOUS
  <2>1. h \in H /\ hold[h].from < n + 1 /\ hold[h].to > n
    BY DEF HoldsOver, Overlaps
  <2>2. hold[h].from < b /\ hold[h].to > a
    BY <2>1, <1>1
  <2>3. QED
    BY <2>1, <2>2 DEF HoldsOver, Overlaps
<1>4. ReservationsOver(R, n, n + 1) \subseteq ReservationsOver(Q, a, b)
  <2> SUFFICES ASSUME NEW r \in ReservationsOver(R, n, n + 1)
               PROVE  r \in ReservationsOver(Q, a, b)
    OBVIOUS
  <2>1. r \in R /\ reservation[r].from < n + 1 /\ reservation[r].to > n
    BY DEF ReservationsOver, Overlaps
  <2>2. reservation[r].from < b /\ reservation[r].to > a
    BY <2>1, <1>2
  <2>3. QED
    BY <2>1, <2>2 DEF ReservationsOver, Overlaps
<1>5. A \in SUBSET B /\ C \in SUBSET D
  BY <1>3, <1>4 DEF RoomsOfHolds, RoomsOfReservations
<1>6. IsFiniteSet(B) /\ IsFiniteSet(D)
  BY RoomsFinite
<1>7. Cardinality(A) <= Cardinality(B) /\ Cardinality(C) <= Cardinality(D)
  BY <1>5, <1>6, FS_Subset
<1>8. /\ Cardinality(A) \in Nat
      /\ Cardinality(B) \in Nat
      /\ Cardinality(C) \in Nat
      /\ Cardinality(D) \in Nat
  BY RoomsFinite, FS_CardinalityType
<1>9. QED
  BY <1>7, <1>8 DEF Units

\* Nights that are given up, by claims that keep their rooms and dates otherwise,
\* never add load.
LEMMA LoadShrinks ==
    ASSUME TypeOK,
           backedHolds' \subseteq backedHolds,
           \A h \in backedHolds' : /\ hold'[h].quantity = hold[h].quantity
                                   /\ hold'[h].from = hold[h].from
                                   /\ hold'[h].to = hold[h].to,
           \A r \in Reservations :
                /\ grantedTo'[r] \in Nat
                /\ grantedTo'[r] <= grantedTo[r]
                /\ grantedTo'[r] > 0 =>
                        /\ reservation'[r].roomCount = reservation[r].roomCount
                        /\ reservation'[r].from = reservation[r].from,
           NEW n \in Nights
    PROVE  BackedLoad(n)' <= BackedLoad(n)
<1> DEFINE A == RoomsOfHolds(HoldsOver(backedHolds, n, n + 1))
           B == RoomsOfReservations(BackedOn(n))
<1>1. A' \in SUBSET A
  BY DEF RoomsOfHolds, HoldsOver, Overlaps
<1>2. B' \in SUBSET B
  <2>1. ASSUME NEW r \in BackedOn(n)'
        PROVE  r \in BackedOn(n) /\ reservation'[r].roomCount = reservation[r].roomCount
    <3>1. n \in Nat
      BY DEF Nights
    <3>2. r \in Reservations /\ reservation'[r].from <= n /\ n < grantedTo'[r]
      BY <2>1 DEF BackedOn
    <3>3. grantedTo'[r] \in Nat /\ grantedTo[r] \in Nat
      BY <3>2 DEF TypeOK
    <3>4. grantedTo'[r] > 0 /\ n < grantedTo[r]
      BY <3>1, <3>2, <3>3
    <3>5. QED
      BY <3>2, <3>4 DEF BackedOn
  <2>2. QED
    BY <2>1 DEF RoomsOfReservations
<1>3. IsFiniteSet(A) /\ IsFiniteSet(B)
  BY RoomsFinite
<1>4. /\ Cardinality(A') \in Nat
      /\ Cardinality(B') \in Nat
      /\ Cardinality(A) \in Nat
      /\ Cardinality(B) \in Nat
  BY <1>1, <1>2, <1>3, FS_Subset, FS_CardinalityType
<1>5. Cardinality(A') <= Cardinality(A) /\ Cardinality(B') <= Cardinality(B)
  BY <1>1, <1>2, <1>3, FS_Subset
<1>6. QED
  BY <1>4, <1>5 DEF BackedLoad

\* The load of the grants is a natural number, before a step and after it.
LEMMA LoadNat ==
    ASSUME NEW n \in Nights
    PROVE  BackedLoad(n) \in Nat /\ BackedLoad(n)' \in Nat
<1> DEFINE A == RoomsOfHolds(HoldsOver(backedHolds, n, n + 1))
           B == RoomsOfReservations(BackedOn(n))
<1>1. /\ A \subseteq Holds \X (1..MaxQuantity)
      /\ B \subseteq Reservations \X (1..MaxQuantity)
      /\ A' \subseteq Holds \X (1..MaxQuantity)
      /\ B' \subseteq Reservations \X (1..MaxQuantity)
  BY DEF RoomsOfHolds, RoomsOfReservations
<1>2. /\ Cardinality(A) \in Nat /\ Cardinality(B) \in Nat
      /\ Cardinality(A') \in Nat /\ Cardinality(B') \in Nat
  BY <1>1, ClaimsFinite
<1>3. QED
  BY <1>2 DEF BackedLoad

\* A row claims as many rooms as its quantity says.
LEMMA RoomsOfOneRow ==
    ASSUME NEW x, NEW q \in Nat
    PROVE  /\ IsFiniteSet({x} \X (1..q))
           /\ Cardinality({x} \X (1..q)) = q
<1>1. IsFiniteSet({x}) /\ Cardinality({x}) = 1
  BY FS_Singleton
<1>2. IsFiniteSet(1..q) /\ Cardinality(1..q) = q
  BY FS_Interval
<1>3. /\ IsFiniteSet({x} \X (1..q))
      /\ Cardinality({x} \X (1..q)) = Cardinality({x}) * Cardinality(1..q)
  BY <1>1, <1>2, FS_Product
<1>4. QED
  BY <1>1, <1>2, <1>3

-------------------------------------------------------------------------------
(* Granted claims stay in force                                            *)

BackedInForce ==
    /\ backedHolds \subseteq LiveHolds
    /\ \A r \in Reservations :
        grantedTo[r] > 0 => Blocking(r) /\ grantedTo[r] <= reservation[r].to

\* Every step that ends a claim takes it out of the backed ones.
LEMMA InForceStep == TypeOK /\ BackedInForce /\ [Next]_vars => BackedInForce'
<1> SUFFICES ASSUME TypeOK, BackedInForce, [Next]_vars PROVE BackedInForce'
  OBVIOUS
<1> USE DEF BackedInForce, LiveHolds, LiveHold, BlockingReservations, Blocking,
            tables, sweeps, backed
<1>1. ASSUME NEW p \in Requests, CreateHoldFindsExisting(p) PROVE BackedInForce'
  BY <1>1 DEF CreateHoldFindsExisting
<1>2. ASSUME NEW p \in Requests, CreateHoldFindsNone(p) PROVE BackedInForce'
  BY <1>2 DEF CreateHoldFindsNone
<1>3. ASSUME NEW p \in Requests, CreateHold(p) PROVE BackedInForce'
  <2>1. now \in Nat /\ hold \in [Holds -> HoldRow] /\ now' = now
    BY <1>3 DEF CreateHold, TypeOK
  <2>2. PICK h \in Holds, s \in {request[p].search} :
          /\ hold' = [hold EXCEPT ![h] =
                    [status |-> "ACTIVE", session |-> s.session,
                     quantity |-> s.quantity, from |-> s.from, to |-> s.to,
                     expiresAt |-> now + HoldDuration, reservation |-> 0]]
          /\ backedHolds' = backedHolds \cup {h}
    BY <1>3 DEF CreateHold
  <2>3. hold'[h].status = "ACTIVE" /\ hold'[h].expiresAt > now
    BY <2>1, <2>2
  <2>4. \A g \in Holds : g # h => hold'[g] = hold[g]
    BY <2>1, <2>2
  <2>5. backedHolds' \subseteq LiveHolds'
    BY <2>1, <2>2, <2>3, <2>4
  <2>6. QED
    BY <1>3, <2>5 DEF CreateHold
<1>4. ASSUME NEW p \in Requests, CreateHoldRefused(p) PROVE BackedInForce'
  BY <1>4 DEF CreateHoldRefused
<1>5. ASSUME NEW p \in Requests, RefreshHold(p) PROVE BackedInForce'
  BY <1>5 DEF RefreshHold
<1>6. ASSUME NEW p \in Requests, ExtendHold(p) PROVE BackedInForce'
  <2>1. now \in Nat /\ hold \in [Holds -> HoldRow] /\ now' = now
    BY <1>6 DEF ExtendHold, TypeOK
  <2>2. hold' = [hold EXCEPT ![request[p].hold].expiresAt = now + HoldDuration]
    BY <1>6 DEF ExtendHold
  <2>3. \A h \in Holds : /\ hold'[h].status = hold[h].status
                         /\ \/ hold'[h].expiresAt = hold[h].expiresAt
                            \/ hold'[h].expiresAt = now + HoldDuration
    BY <2>1, <2>2 DEF HoldRow
  <2>4. \A h \in LiveHolds : h \in LiveHolds'
    BY <2>1, <2>3
  <2>5. QED
    BY <1>6, <2>4 DEF ExtendHold
<1>7. ASSUME NEW h \in Holds, ReleaseHold(h) PROVE BackedInForce'
  BY <1>7 DEF ReleaseHold, TypeOK
<1>8. ASSUME NEW p \in Requests, CreateFromHoldRead(p) PROVE BackedInForce'
  BY <1>8 DEF CreateFromHoldRead
<1>9. ASSUME NEW p \in Requests, CreateFromHold(p) PROVE BackedInForce'
  <2> DEFINE h == request[p].hold
  <2>1. PICK r \in Reservations :
        /\ reservation' = [reservation EXCEPT ![r] =
                [status |-> "PENDING_PAYMENT", roomCount |-> hold[h].quantity,
                 from |-> hold[h].from, to |-> hold[h].to,
                 holdExpiresAt |-> request[p].expiresAt]]
        /\ hold' = [hold EXCEPT ![h].status = "CONVERTED",
                                ![h].reservation = r]
        /\ backedHolds' = backedHolds \ {h}
        /\ grantedTo' = [grantedTo EXCEPT ![r] =
                            IF h \in backedHolds THEN hold[h].to ELSE 0]
    BY <1>9 DEF CreateFromHold
  <2>2. backedHolds' \subseteq LiveHolds'
    BY <1>9, <2>1 DEF CreateFromHold, TypeOK
  <2>3. \A q \in Reservations : q # r => reservation'[q] = reservation[q]
    BY <2>1 DEF TypeOK
  <2>4. reservation'[r].status = "PENDING_PAYMENT"
    BY <2>1 DEF TypeOK
  <2>5. ASSUME NEW q \in Reservations, grantedTo'[q] > 0
        PROVE  Blocking(q)' /\ grantedTo'[q] <= reservation'[q].to
    <3>1. CASE q = r
      <4>1. h \in Holds
        BY <1>9, RequestShape DEF CreateFromHold, TypeOK
      <4>2. hold[h].to \in Nat /\ h \in backedHolds /\ grantedTo'[r] = hold[h].to
        BY <2>1, <2>5, <3>1, <4>1 DEF TypeOK, HoldRow
      <4>3. reservation'[r].to = hold[h].to
        BY <2>1 DEF TypeOK
      <4>4. QED
        BY <2>4, <3>1, <4>2, <4>3 DEF BlockingStatuses
    <3>2. CASE q # r
      BY <2>1, <2>3, <2>5, <3>2 DEF TypeOK
    <3>3. QED
      BY <3>1, <3>2
  <2>6. QED
    BY <2>2, <2>5
<1>10. ASSUME NEW p \in Requests, CancelRead(p) PROVE BackedInForce'
  BY <1>10 DEF CancelRead
<1>11. ASSUME NEW p \in Requests, Cancel(p) PROVE BackedInForce'
  <2> DEFINE r == request[p].reservation
  <2>1. /\ reservation' = [reservation EXCEPT ![r].status = "CANCELLED"]
        /\ grantedTo' = [grantedTo EXCEPT ![r] = 0]
    BY <1>11 DEF Cancel
  <2>2. \A q \in Reservations : q # r => /\ reservation'[q] = reservation[q]
                                         /\ grantedTo'[q] = grantedTo[q]
    BY <2>1 DEF TypeOK
  <2>3. r \in Reservations => ~(grantedTo'[r] > 0)
    BY <2>1 DEF TypeOK
  <2>4. QED
    BY <1>11, <2>2, <2>3 DEF Cancel
<1>12. ASSUME NEW p \in Requests, CaptureRead(p) PROVE BackedInForce'
  BY <1>12 DEF CaptureRead
<1>13. ASSUME NEW p \in Requests, Capture(p) PROVE BackedInForce'
  <2>1. \A r \in Reservations :
            /\ reservation'[r].status \in {reservation[r].status, "CONFIRMED"}
            /\ reservation'[r].to = reservation[r].to
    <3>1. CASE UNCHANGED reservation
      BY <3>1
    <3>2. CASE reservation' = [reservation EXCEPT
                                  ![request[p].reservation].status = "CONFIRMED"]
      BY <3>2 DEF TypeOK, ReservationRow
    <3>3. QED
      BY <1>13, <3>1, <3>2 DEF Capture
  <2>2. "CONFIRMED" \in BlockingStatuses
    BY DEF BlockingStatuses
  <2>3. QED
    BY <1>13, <2>1, <2>2 DEF Capture
<1>14. ASSUME NEW w \in Sweepers, FindDueHolds(w) PROVE BackedInForce'
  BY <1>14 DEF FindDueHolds
<1>15. ASSUME NEW w \in Sweepers, ExpireDueHolds(w) PROVE BackedInForce'
  BY <1>15 DEF ExpireDueHolds
<1>16. ASSUME NEW w \in Sweepers, FindDueReservations(w) PROVE BackedInForce'
  BY <1>16 DEF FindDueReservations
<1>17. ASSUME NEW w \in Sweepers, ExpireDueReservations(w) PROVE BackedInForce'
  <2>1. ASSUME NEW r \in Reservations, grantedTo'[r] > 0
        PROVE  grantedTo'[r] = grantedTo[r] /\ reservation'[r] = reservation[r]
    BY <1>17, <2>1 DEF ExpireDueReservations
  <2>2. QED
    BY <1>17, <2>1 DEF ExpireDueReservations
<1>18. ASSUME NEW p \in Requests, ExtensionRequested(p) PROVE BackedInForce'
  BY <1>18 DEF ExtensionRequested
<1>19. ASSUME NEW p \in Requests, Extend(p) PROVE BackedInForce'
  <2> DEFINE r == request[p].reservation
             to == request[p].to
  <2>1. r \in Reservations /\ to \in Nat
    BY <1>19, RequestShape DEF Extend, TypeOK
  <2>2. /\ reservation' = [reservation EXCEPT ![r].to = to]
        /\ grantedTo' = [grantedTo EXCEPT ![r] = IF to < @ THEN to ELSE @]
    BY <1>19 DEF Extend
  <2> HIDE DEF r, to
  <2>3. \A q \in Reservations : q # r => /\ reservation'[q] = reservation[q]
                                         /\ grantedTo'[q] = grantedTo[q]
    BY <2>2 DEF TypeOK
  <2>4. /\ reservation'[r].status = reservation[r].status
        /\ reservation'[r].to = to
    BY <2>1, <2>2 DEF TypeOK, ReservationRow
  <2>5. grantedTo[r] \in Nat /\ grantedTo'[r] <= to /\ grantedTo'[r] <= grantedTo[r]
    BY <2>1, <2>2 DEF TypeOK
  <2>6. grantedTo'[r] > 0 => grantedTo[r] > 0
    BY <2>1, <2>2, <2>5 DEF TypeOK
  <2>7. QED
    BY <1>19, <2>3, <2>4, <2>5, <2>6 DEF Extend
<1>20. ASSUME NEW p \in Requests, ExtensionRejected(p) PROVE BackedInForce'
  BY <1>20 DEF ExtensionRejected
<1>21. ASSUME NEW p \in Requests, CheckInRead(p) PROVE BackedInForce'
  BY <1>21 DEF CheckInRead
<1>22. ASSUME NEW p \in Requests, CheckIn(p) PROVE BackedInForce'
  <2>1. \A r \in Reservations :
            /\ reservation'[r].status \in {reservation[r].status, "CHECKED_IN"}
            /\ reservation'[r].to = reservation[r].to
    BY <1>22 DEF CheckIn, TypeOK, ReservationRow
  <2>2. "CHECKED_IN" \in BlockingStatuses
    BY DEF BlockingStatuses
  <2>3. QED
    BY <1>22, <2>1, <2>2 DEF CheckIn
<1>23. ASSUME NEW p \in Requests, CheckOutRead(p) PROVE BackedInForce'
  BY <1>23 DEF CheckOutRead
<1>24. ASSUME NEW p \in Requests, CheckOut(p) PROVE BackedInForce'
  <2> DEFINE r == request[p].reservation
  <2>1. /\ reservation' = [reservation EXCEPT ![r].status = "CHECKED_OUT"]
        /\ grantedTo' = [grantedTo EXCEPT ![r] = 0]
    BY <1>24 DEF CheckOut
  <2>2. \A q \in Reservations : q # r => /\ reservation'[q] = reservation[q]
                                         /\ grantedTo'[q] = grantedTo[q]
    BY <2>1 DEF TypeOK
  <2>3. r \in Reservations => ~(grantedTo'[r] > 0)
    BY <2>1 DEF TypeOK
  <2>4. QED
    BY <1>24, <2>2, <2>3 DEF CheckOut
<1>25. CASE Tick
  BY <1>25 DEF Tick
<1>26. CASE UNCHANGED vars
  BY <1>26 DEF vars
<1>27. QED
  BY <1>1, <1>2, <1>3, <1>4, <1>5, <1>6, <1>7, <1>8, <1>9, <1>10, <1>11, <1>12,
     <1>13, <1>14, <1>15, <1>16, <1>17, <1>18, <1>19, <1>20, <1>21, <1>22,
     <1>23, <1>24, <1>25, <1>26
     DEF Next, Handler, Sweep

-------------------------------------------------------------------------------
(* Only createHold's transaction adds to the granted load                  *)

\* What is granted stays within what was granted, with the same rooms and dates.
KeepsGrants ==
    /\ backedHolds' \subseteq backedHolds
    /\ \A h \in backedHolds' : /\ hold'[h].quantity = hold[h].quantity
                               /\ hold'[h].from = hold[h].from
                               /\ hold'[h].to = hold[h].to
    /\ \A r \in Reservations :
            /\ grantedTo'[r] \in Nat
            /\ grantedTo'[r] <= grantedTo[r]
            /\ grantedTo'[r] > 0 =>
                    /\ reservation'[r].roomCount = reservation[r].roomCount
                    /\ reservation'[r].from = reservation[r].from

\* Only the two transactions that claim rooms grant anything; every other step leaves
\* the grants as they are or gives some up.
LEMMA QuietSteps ==
    ASSUME TypeOK, [Next]_vars
    PROVE  \/ \E p \in Requests : CreateHold(p)
           \/ \E p \in Requests : CreateFromHold(p)
           \/ KeepsGrants
<1> USE DEF KeepsGrants, TypeOK, tables, sweeps, backed
<1>1. ASSUME NEW p \in Requests, Handler(p), ~CreateHold(p), ~CreateFromHold(p)
      PROVE  KeepsGrants
  <2>1. CASE CreateHoldFindsExisting(p)
    BY <2>1 DEF CreateHoldFindsExisting
  <2>2. CASE CreateHoldFindsNone(p)
    BY <2>2 DEF CreateHoldFindsNone
  <2>3. CASE CreateHoldRefused(p)
    BY <2>3 DEF CreateHoldRefused
  <2>4. CASE RefreshHold(p)
    BY <2>4 DEF RefreshHold
  <2>5. CASE ExtendHold(p)
    BY <2>5 DEF ExtendHold, HoldRow
  <2>6. CASE CreateFromHoldRead(p)
    BY <2>6 DEF CreateFromHoldRead
  <2>7. CASE CancelRead(p)
    BY <2>7 DEF CancelRead
  <2>8. CASE Cancel(p)
    BY <2>8 DEF Cancel, ReservationRow
  <2>9. CASE CaptureRead(p)
    BY <2>9 DEF CaptureRead
  <2>10. CASE Capture(p)
    <3>1. \A r \in Reservations :
            /\ reservation'[r].roomCount = reservation[r].roomCount
            /\ reservation'[r].from = reservation[r].from
            /\ reservation'[r].to = reservation[r].to
      <4>1. CASE UNCHANGED reservation
        BY <4>1
      <4>2. CASE reservation' = [reservation EXCEPT
                                    ![request[p].reservation].status = "CONFIRMED"]
        BY <4>2 DEF ReservationRow
      <4>3. QED
        BY <2>10, <4>1, <4>2 DEF Capture
    <3>2. QED
      BY <2>10, <3>1 DEF Capture
  <2>11. CASE ExtensionRequested(p)
    BY <2>11 DEF ExtensionRequested
  <2>12. CASE Extend(p)
    <3> DEFINE r == request[p].reservation
               to == request[p].to
    <3>1. r \in Reservations /\ to \in Nat
      BY <2>12, RequestShape DEF Extend
    <3>2. /\ reservation' = [reservation EXCEPT ![r].to = to]
          /\ grantedTo' = [grantedTo EXCEPT ![r] = IF to < @ THEN to ELSE @]
      BY <2>12 DEF Extend
    <3> HIDE DEF r, to
    <3>3. \A q \in Reservations :
            /\ reservation'[q].roomCount = reservation[q].roomCount
            /\ reservation'[q].from = reservation[q].from
      BY <3>1, <3>2 DEF ReservationRow
    <3>4. \A q \in Reservations : grantedTo'[q] \in Nat /\ grantedTo'[q] <= grantedTo[q]
      BY <3>1, <3>2
    <3>5. QED
      BY <2>12, <3>3, <3>4 DEF Extend
  <2>13. CASE ExtensionRejected(p)
    BY <2>13 DEF ExtensionRejected
  <2>14. CASE CheckInRead(p)
    BY <2>14 DEF CheckInRead
  <2>15. CASE CheckIn(p)
    BY <2>15 DEF CheckIn, ReservationRow
  <2>16. CASE CheckOutRead(p)
    BY <2>16 DEF CheckOutRead
  <2>17. CASE CheckOut(p)
    BY <2>17 DEF CheckOut, ReservationRow
  <2>18. QED
    BY <1>1, <2>1, <2>2, <2>3, <2>4, <2>5, <2>6, <2>7, <2>8, <2>9, <2>10,
       <2>11, <2>12, <2>13, <2>14, <2>15, <2>16, <2>17 DEF Handler
<1>2. ASSUME NEW h \in Holds, ReleaseHold(h) PROVE KeepsGrants
  BY <1>2 DEF ReleaseHold, HoldRow
<1>3. ASSUME NEW w \in Sweepers, FindDueHolds(w) PROVE KeepsGrants
  BY <1>3 DEF FindDueHolds
<1>4. ASSUME NEW w \in Sweepers, ExpireDueHolds(w) PROVE KeepsGrants
  BY <1>4 DEF ExpireDueHolds, HoldRow
<1>5. ASSUME NEW w \in Sweepers, FindDueReservations(w) PROVE KeepsGrants
  BY <1>5 DEF FindDueReservations
<1>6. ASSUME NEW w \in Sweepers, ExpireDueReservations(w) PROVE KeepsGrants
  BY <1>6 DEF ExpireDueReservations, ReservationRow
<1>7. CASE Tick
  BY <1>7 DEF Tick
<1>8. CASE UNCHANGED vars
  BY <1>8 DEF vars
<1>9. QED
  BY <1>1, <1>2, <1>3, <1>4, <1>5, <1>6, <1>7, <1>8 DEF Next, Sweep

\* A conversion hands the rooms of a granted hold over to the reservation.
LEMMA ConversionShrinks ==
    ASSUME TypeOK, BackedInForce, NEW p \in Requests, CreateFromHold(p),
           NEW n \in Nights
    PROVE  BackedLoad(n)' <= BackedLoad(n)
<1> DEFINE h == request[p].hold
           q == hold[h].quantity
           A == RoomsOfHolds(HoldsOver(backedHolds, n, n + 1))
           B == RoomsOfReservations(BackedOn(n))
<1>1. h \in Holds
  BY RequestShape DEF CreateFromHold, TypeOK
<1>2. PICK r \in Reservations :
        /\ IsNextReservation(r)
        /\ reservation' = [reservation EXCEPT ![r] =
                [status |-> "PENDING_PAYMENT", roomCount |-> hold[h].quantity,
                 from |-> hold[h].from, to |-> hold[h].to,
                 holdExpiresAt |-> request[p].expiresAt]]
        /\ hold' = [hold EXCEPT ![h].status = "CONVERTED",
                                ![h].reservation = r]
        /\ backedHolds' = backedHolds \ {h}
        /\ grantedTo' = [grantedTo EXCEPT ![r] =
                            IF h \in backedHolds THEN hold[h].to ELSE 0]
  BY DEF CreateFromHold
<1>3. ~(grantedTo[r] > 0)
  BY <1>2 DEF IsNextReservation, BackedInForce, Blocking, BlockingStatuses
<1>4. /\ \A g \in Holds : /\ hold'[g].quantity = hold[g].quantity
                          /\ hold'[g].from = hold[g].from
                          /\ hold'[g].to = hold[g].to
      /\ \A s \in Reservations : s # r => reservation'[s] = reservation[s]
      /\ reservation'[r].roomCount = q
      /\ reservation'[r].from = hold[h].from
      /\ \A s \in Reservations : s # r => grantedTo'[s] = grantedTo[s]
      /\ grantedTo'[r] = IF h \in backedHolds THEN hold[h].to ELSE 0
  <2>1. ASSUME NEW g \in Holds
        PROVE  /\ hold'[g].quantity = hold[g].quantity
               /\ hold'[g].from = hold[g].from
               /\ hold'[g].to = hold[g].to
    <3>1. hold[g] \in HoldRow
      BY DEF TypeOK
    <3>2. CASE g = h
      <4>1. hold'[h] = [hold[h] EXCEPT !.status = "CONVERTED", !.reservation = r]
        BY <1>1, <1>2 DEF TypeOK
      <4>2. QED
        BY <3>1, <3>2, <4>1 DEF HoldRow
    <3>3. CASE g # h
      BY <1>2, <3>3 DEF TypeOK
    <3>4. QED
      BY <3>2, <3>3
  <2>2. /\ \A s \in Reservations : s # r => reservation'[s] = reservation[s]
        /\ reservation'[r].roomCount = q
        /\ reservation'[r].from = hold[h].from
    BY <1>2 DEF TypeOK
  <2>3. /\ \A s \in Reservations : s # r => grantedTo'[s] = grantedTo[s]
        /\ grantedTo'[r] = IF h \in backedHolds THEN hold[h].to ELSE 0
    BY <1>2 DEF TypeOK
  <2>4. QED
    BY <2>1, <2>2, <2>3
<1>5. q \in 0..MaxQuantity /\ q \in Nat
  BY <1>1 DEF TypeOK, HoldRow
<1>6. IsFiniteSet(A) /\ IsFiniteSet(B)
  BY RoomsFinite
<1>7. A' \subseteq A
  BY <1>2, <1>4 DEF RoomsOfHolds, HoldsOver, Overlaps
<1>8. /\ backedHolds \subseteq Holds
      /\ \A s \in Reservations : grantedTo[s] \in Nat
      /\ n \in Nat
      /\ hold[h].from \in Nat /\ hold[h].to \in Nat
  <2>1. n \in Nat
    BY ConstantsAssumption DEF Nights
  <2>2. hold[h] \in HoldRow /\ backedHolds \subseteq Holds
    BY <1>1 DEF TypeOK
  <2>3. QED
    BY <2>1, <2>2 DEF TypeOK, HoldRow
<1>9. CASE h \in backedHolds /\ Overlaps(hold[h], n, n + 1)
  <2> DEFINE P == {h} \X (1..q)
             R == {r} \X (1..q)
  <2>1. A' \cap P = {} /\ A' \cup P = A
    <3>1. HoldsOver(backedHolds, n, n + 1)' = HoldsOver(backedHolds, n, n + 1) \ {h}
      BY <1>2, <1>4, <1>8 DEF HoldsOver, Overlaps
    <3>2. A' = {c \in A : c[1] # h}
      BY <1>4, <3>1 DEF RoomsOfHolds
    <3>3. h \in HoldsOver(backedHolds, n, n + 1)
      BY <1>9 DEF HoldsOver
    <3>4. P = {c \in A : c[1] = h}
      <4>1. ASSUME NEW c \in P PROVE c \in A /\ c[1] = h
        BY <1>1, <1>5, <3>3 DEF RoomsOfHolds
      <4>2. ASSUME NEW c \in A, c[1] = h PROVE c \in P
        BY <1>5, <4>2 DEF RoomsOfHolds
      <4>3. QED
        BY <4>1, <4>2
    <3>5. QED
      BY <3>2, <3>4
  <2>2. B' \subseteq B \cup R
    <3>1. BackedOn(n)' \subseteq BackedOn(n) \cup {r}
      BY <1>4 DEF BackedOn
    <3>2. SUFFICES ASSUME NEW c \in B' PROVE c \in B \cup R
      OBVIOUS
    <3>3. /\ c \in Reservations \X (1..MaxQuantity)
          /\ c[1] \in BackedOn(n) \cup {r}
          /\ c[2] <= reservation'[c[1]].roomCount
      BY <3>1, <3>2 DEF RoomsOfReservations
    <3>4. CASE c[1] = r
      BY <1>4, <1>5, <3>3, <3>4
    <3>5. CASE c[1] # r
      BY <1>4, <3>3, <3>5 DEF RoomsOfReservations
    <3>6. QED
      BY <3>4, <3>5
  <2>3. IsFiniteSet(A') /\ Cardinality(A') \in Nat /\ Cardinality(B) \in Nat
    BY <1>6, <1>7, FS_Subset, FS_CardinalityType
  <2>4. IsFiniteSet(P) /\ Cardinality(P) = q /\ IsFiniteSet(R) /\ Cardinality(R) = q
    BY <1>5, RoomsOfOneRow
  <2>5. Cardinality(A) = Cardinality(A') + q
    <3>1. Cardinality(A' \cup P)
              = Cardinality(A') + Cardinality(P) - Cardinality(A' \cap P)
      BY <2>3, <2>4, FS_Union
    <3>2. Cardinality(A' \cap P) = 0
      BY <2>1, FS_EmptySet
    <3>3. Cardinality(A' \cup P) = Cardinality(A)
      BY <2>1
    <3>4. QED
      BY <1>5, <2>3, <2>4, <3>1, <3>2, <3>3
  <2>6. Cardinality(B') \in Nat /\ Cardinality(B') <= Cardinality(B) + q
    <3> HIDE DEF B, R
    <3>1. /\ IsFiniteSet(B \cup R)
          /\ Cardinality(B \cup R)
              = Cardinality(B) + Cardinality(R) - Cardinality(B \cap R)
      BY <1>6, <2>4, FS_Union
    <3>2. Cardinality(B \cap R) \in Nat
      <4>1. B \cap R \in SUBSET B
        OBVIOUS
      <4>2. QED
        BY <1>6, <4>1, FS_Subset, FS_CardinalityType
    <3>3. IsFiniteSet(B') /\ Cardinality(B') <= Cardinality(B \cup R)
      BY <2>2, <3>1, FS_Subset
    <3>4. Cardinality(B') \in Nat
      BY <3>3, FS_CardinalityType
    <3>5. QED
      BY <1>5, <2>3, <2>4, <3>1, <3>2, <3>3, <3>4
  <2>7. QED
    BY <1>5, <2>3, <2>5, <2>6 DEF BackedLoad
<1>10. CASE ~(h \in backedHolds /\ Overlaps(hold[h], n, n + 1))
  <2>1. B' \subseteq B
    <3>1. r \notin BackedOn(n)'
      BY <1>4, <1>8, <1>10 DEF BackedOn, Overlaps
    <3>2. BackedOn(n)' \subseteq BackedOn(n) \ {r}
      BY <1>3, <1>4, <1>8, <3>1 DEF BackedOn
    <3>3. QED
      BY <1>4, <3>2 DEF RoomsOfReservations, BackedOn
  <2>2. /\ Cardinality(A') <= Cardinality(A)
        /\ Cardinality(B') <= Cardinality(B)
        /\ IsFiniteSet(A')
        /\ IsFiniteSet(B')
    BY <1>6, <1>7, <2>1, FS_Subset
  <2>3. /\ Cardinality(A) \in Nat
        /\ Cardinality(B) \in Nat
        /\ Cardinality(A') \in Nat
        /\ Cardinality(B') \in Nat
    BY <1>6, <2>2, FS_CardinalityType
  <2>4. QED
    BY <2>2, <2>3 DEF BackedLoad
<1>11. QED
  BY <1>9, <1>10

\* A night that is backed is claimed.
LEMMA BackedIsClaimed ==
    ASSUME TypeOK, BackedInForce, NEW n \in Nights
    PROVE  BackedLoad(n) <= Claimed(n, n + 1)
<1> DEFINE A == RoomsOfHolds(HoldsOver(backedHolds, n, n + 1))
           B == RoomsOfReservations(BackedOn(n))
           C == RoomsOfHolds(HoldsOver(LiveHolds, n, n + 1))
           D == RoomsOfReservations(ReservationsOver(BlockingReservations, n, n + 1))
<1>1. BackedOn(n) \subseteq ReservationsOver(BlockingReservations, n, n + 1)
  <2> SUFFICES ASSUME NEW r \in BackedOn(n)
               PROVE  r \in ReservationsOver(BlockingReservations, n, n + 1)
    OBVIOUS
  <2>1. r \in Reservations /\ reservation[r].from <= n /\ n < grantedTo[r]
    BY DEF BackedOn
  <2>2. /\ n \in Nat /\ grantedTo[r] \in Nat
        /\ reservation[r].from \in Nat /\ reservation[r].to \in Nat
    <3>1. n \in Nat
      BY ConstantsAssumption DEF Nights
    <3>2. reservation[r] \in ReservationRow
      BY <2>1 DEF TypeOK
    <3>3. QED
      BY <2>1, <3>1, <3>2 DEF TypeOK, ReservationRow
  <2>3. Blocking(r) /\ grantedTo[r] <= reservation[r].to
    BY <2>1, <2>2 DEF BackedInForce
  <2>4. QED
    BY <2>1, <2>2, <2>3 DEF ReservationsOver, BlockingReservations, Overlaps
<1>2. A \in SUBSET C
  BY DEF BackedInForce, RoomsOfHolds, HoldsOver
<1>3. B \in SUBSET D
  BY <1>1 DEF RoomsOfReservations
<1>4. IsFiniteSet(C) /\ IsFiniteSet(D)
  BY RoomsFinite
<1>5. Cardinality(A) <= Cardinality(C) /\ Cardinality(B) <= Cardinality(D)
  BY <1>2, <1>3, <1>4, FS_Subset
<1>6. /\ Cardinality(A) \in Nat
      /\ Cardinality(B) \in Nat
      /\ Cardinality(C) \in Nat
      /\ Cardinality(D) \in Nat
  BY RoomsFinite, FS_CardinalityType
<1>7. QED
  BY <1>5, <1>6 DEF BackedLoad, Claimed, Units

\* What the transaction of createHold grants fits on every night of the stay.
LEMMA HoldGrantFits ==
    ASSUME TypeOK, BackedInForce, NEW p \in Requests, CreateHold(p)
    PROVE  \E stay \in SUBSET Nights, quantity \in 1..TotalUnits :
              /\ \A n \in stay : BackedLoad(n) + quantity <= TotalUnits
              /\ \A n \in Nights :
                    BackedLoad(n)' = IF n \in stay THEN BackedLoad(n) + quantity
                                                   ELSE BackedLoad(n)
<1> DEFINE s == request[p].search
           q == s.quantity
           stay == s.from .. (s.to - 1)
<1>1. s \in Search
  BY RequestShape DEF CreateHold, TypeOK
<1>2. /\ s.from \in 0..LastNight
      /\ s.to \in 1..(LastNight + 1)
      /\ q \in 1..MaxQuantity
      /\ s.from < s.to
  BY <1>1 DEF Search, Nights
<1>3. Available(s.from, s.to) >= q
  BY DEF CreateHold
<1>4. PICK h \in Holds :
        /\ IsNextHold(h)
        /\ hold' = [hold EXCEPT ![h] =
                    [status |-> "ACTIVE", session |-> s.session,
                     quantity |-> s.quantity, from |-> s.from, to |-> s.to,
                     expiresAt |-> now + HoldDuration, reservation |-> 0]]
        /\ backedHolds' = backedHolds \cup {h}
  BY DEF CreateHold
<1>5. h \notin backedHolds
  BY <1>4 DEF IsNextHold, BackedInForce, LiveHolds, LiveHold
<1>6. /\ \A g \in Holds : g # h => hold'[g] = hold[g]
      /\ hold'[h].quantity = q
      /\ hold'[h].from = s.from
      /\ hold'[h].to = s.to
  BY <1>4 DEF TypeOK
<1>7. /\ reservation' = reservation
      /\ grantedTo' = grantedTo
      /\ backedHolds \subseteq Holds
  BY DEF CreateHold, TypeOK
<1> HIDE DEF s
<1>8. Claimed(s.from, s.to) + q <= TotalUnits /\ q \in 1..TotalUnits
  <2>1. Claimed(s.from, s.to) \in Nat
    BY UnitsNat DEF Claimed
  <2>2. QED
    BY <1>2, <1>3, <2>1 DEF Available
<1>9. stay \in SUBSET Nights
  BY <1>2 DEF Nights
<1>10. ASSUME NEW n \in stay PROVE BackedLoad(n) + q <= TotalUnits
  <2>1. /\ n \in Nat
        /\ s.from \in Nat
        /\ s.to \in Nat
        /\ s.from <= n
        /\ n < s.to
    BY <1>2, <1>10
  <2>2. BackedLoad(n) <= Claimed(n, n + 1)
    BY <1>9, <1>10, BackedIsClaimed
  <2>3. Units(LiveHolds, BlockingReservations, n, n + 1)
            <= Units(LiveHolds, BlockingReservations, s.from, s.to)
    <3>1. /\ LiveHolds \in SUBSET Holds
          /\ BlockingReservations \in SUBSET Reservations
      BY DEF LiveHolds, BlockingReservations
    <3>2. QED
      BY <2>1, <3>1, UnitsMonotone
  <2>4. Claimed(n, n + 1) <= Claimed(s.from, s.to)
    BY <2>3 DEF Claimed
  <2>5. /\ BackedLoad(n) \in Nat
        /\ Claimed(n, n + 1) \in Nat /\ Claimed(s.from, s.to) \in Nat
    BY <1>9, <1>10, LoadNat, UnitsNat DEF Claimed
  <2>6. QED
    BY <1>8, <2>2, <2>4, <2>5
<1>11. ASSUME NEW n \in Nights
       PROVE  BackedLoad(n)' = IF n \in stay THEN BackedLoad(n) + q
                                             ELSE BackedLoad(n)
  <2> DEFINE O == HoldsOver(backedHolds, n, n + 1)
             A == RoomsOfHolds(O)
             B == RoomsOfReservations(BackedOn(n))
             P == {h} \X (1..q)
  <2>1. n \in Nat /\ (n \in stay <=> Overlaps(hold'[h], n, n + 1))
    BY <1>2, <1>6 DEF Nights, Overlaps
  <2>2. O' = IF n \in stay THEN O \cup {h} ELSE O
    <3>1. O' = {g \in backedHolds \cup {h} : Overlaps(hold'[g], n, n + 1)}
      BY <1>4 DEF HoldsOver, Overlaps
    <3>2. O = {g \in backedHolds : Overlaps(hold'[g], n, n + 1)}
      BY <1>5, <1>6, <1>7 DEF HoldsOver
    <3>3. QED
      BY <2>1, <3>1, <3>2
  <2>3. h \notin O
    BY <1>5 DEF HoldsOver
  <2>4. B' = B
    BY <1>7 DEF RoomsOfReservations, BackedOn
  <2>5. A' = IF n \in stay THEN A \cup P ELSE A
    <3>1. A' = {c \in Holds \X (1..MaxQuantity) :
                    c[1] \in O' /\ c[2] <= hold'[c[1]].quantity}
      BY DEF RoomsOfHolds
    <3>2. A = {c \in Holds \X (1..MaxQuantity) :
                    c[1] \in O /\ c[2] <= hold'[c[1]].quantity}
      BY <1>6, <2>3 DEF RoomsOfHolds
    <3>3. P = {c \in Holds \X (1..MaxQuantity) :
                    c[1] = h /\ c[2] <= hold'[c[1]].quantity}
      BY <1>2, <1>6
    <3>4. QED
      BY <2>2, <3>1, <3>2, <3>3, ZenonT(40)
  <2>6. A \cap P = {}
    BY <2>3 DEF RoomsOfHolds
  <2>7. /\ IsFiniteSet(A)
        /\ Cardinality(A) \in Nat
        /\ Cardinality(B) \in Nat
    BY RoomsFinite, FS_CardinalityType
  <2>8. IsFiniteSet(P) /\ Cardinality(P) = q
    <3>1. q \in Nat
      BY <1>2
    <3>2. QED
      BY <3>1, RoomsOfOneRow
  <2>9. Cardinality(A \cup P) = Cardinality(A) + q
    <3>1. Cardinality(A \cup P)
              = Cardinality(A) + Cardinality(P) - Cardinality(A \cap P)
      BY <2>7, <2>8, FS_Union
    <3>2. Cardinality(A \cap P) = 0
      BY <2>6, FS_EmptySet
    <3>3. QED
      BY <1>2, <2>7, <2>8, <3>1, <3>2
  <2>10. BackedLoad(n) = Cardinality(B) + Cardinality(A)
    BY DEF BackedLoad
  <2>11. BackedLoad(n)' = Cardinality(B) + Cardinality(A')
    BY <2>4 DEF BackedLoad
  <2>12. QED
    BY <1>2, <2>5, <2>7, <2>9, <2>10, <2>11
<1>12. QED
  BY <1>8, <1>9, <1>10, <1>11

\* Every step of the system is a step of the ledger on the granted load.
LEMMA LedgerStep ==
    ASSUME TypeOK, BackedInForce, [Next]_vars
    PROVE  \/ \E stay \in SUBSET Nights, quantity \in 1..TotalUnits :
                /\ \A n \in stay : BackedLoad(n) + quantity <= TotalUnits
                /\ \A n \in Nights :
                      BackedLoad(n)' = IF n \in stay THEN BackedLoad(n) + quantity
                                                     ELSE BackedLoad(n)
           \/ \A n \in Nights : BackedLoad(n)' <= BackedLoad(n)
<1>1. ASSUME NEW p \in Requests, CreateFromHold(p), NEW n \in Nights
      PROVE  BackedLoad(n)' <= BackedLoad(n)
  BY <1>1, ConversionShrinks
<1>2. ASSUME KeepsGrants, NEW n \in Nights PROVE BackedLoad(n)' <= BackedLoad(n)
  BY <1>2, LoadShrinks DEF KeepsGrants
<1>3. QED
  BY <1>1, <1>2, HoldGrantFits, QuietSteps

\* The granted claims are in force and fit, in every reachable state.
THEOREM GrantsAlwaysFit == Spec => []GrantsFit
<1> DEFINE Inv == TypeOK /\ GrantsFit
<1>1. Init => Inv
  <2> SUFFICES ASSUME Init PROVE Inv
    OBVIOUS
  <2>1. TypeOK
    BY DEF Init, TypeOK, NoHold, NoReservation, HoldRow, HoldStatus,
           ReservationRow, ReservationStatus, RequestState
  <2>2. \A n \in Nights : BackedLoad(n) = 0
    <3>1. ASSUME NEW n \in Nights PROVE BackedLoad(n) = 0
      <4>1. /\ RoomsOfHolds(HoldsOver(backedHolds, n, n + 1)) = {}
            /\ RoomsOfReservations(BackedOn(n)) = {}
        BY DEF Init, RoomsOfHolds, HoldsOver, RoomsOfReservations, BackedOn, Nights
      <4>2. QED
        BY <4>1, FS_EmptySet DEF BackedLoad
    <3>2. QED
      BY <3>1
  <2>3. QED
    BY <2>1, <2>2 DEF GrantsFit, Init
<1>2. Inv /\ [Next]_vars => Inv'
  <2> SUFFICES ASSUME Inv, [Next]_vars PROVE Inv'
    OBVIOUS
  <2>1. BackedInForce
    BY DEF GrantsFit, BackedInForce
  <2>2. TypeOK' /\ BackedInForce'
    BY <2>1, TypeStep, InForceStep
  <2>3. \A n \in Nights : BackedLoad(n) \in Nat /\ BackedLoad(n)' \in Nat
    BY LoadNat
  <2>4. \A n \in Nights : BackedLoad(n)' <= TotalUnits
    BY <2>1, <2>3, LedgerStep DEF GrantsFit
  <2>5. QED
    BY <2>2, <2>4 DEF GrantsFit, BackedInForce
<1>3. QED
  BY <1>1, <1>2, PTL DEF Spec

\* Booking implements the inventory promise: every step grants a stay that fits
\* on each of its nights, or lets claims lapse, or leaves the load alone.
THEOREM BookingImplementsLedger == Spec => ImplementsLedger
<1> DEFINE load == [n \in Nights |-> BackedLoad(n)]
<1>1. Init => Promise!Init
  <2> SUFFICES ASSUME Init PROVE Promise!Init
    OBVIOUS
  <2>1. ASSUME NEW n \in Nights PROVE BackedLoad(n) = 0
    <3>1. /\ RoomsOfHolds(HoldsOver(backedHolds, n, n + 1)) = {}
          /\ RoomsOfReservations(BackedOn(n)) = {}
      BY DEF Init, RoomsOfHolds, HoldsOver, RoomsOfReservations, BackedOn, Nights
    <3>2. QED
      BY <3>1, FS_EmptySet DEF BackedLoad
  <2>2. QED
    BY <2>1 DEF Promise!Init
<1>2. ASSUME TypeOK, GrantsFit, [Next]_vars PROVE Promise!Next
  <2>1. BackedInForce
    BY <1>2 DEF GrantsFit, BackedInForce
  <2>2. \A n \in Nights : BackedLoad(n)' \in Nat
    BY LoadNat
  <2>3. ASSUME NEW stay \in SUBSET Nights, NEW quantity \in 1..TotalUnits,
               \A n \in stay : BackedLoad(n) + quantity <= TotalUnits,
               \A n \in Nights :
                  BackedLoad(n)' = IF n \in stay THEN BackedLoad(n) + quantity
                                                 ELSE BackedLoad(n)
        PROVE  Promise!Grant(stay, quantity)
    BY <2>3 DEF Promise!Grant
  <2>4. ASSUME \A n \in Nights : BackedLoad(n)' <= BackedLoad(n)
        PROVE  Promise!Lapse
    BY <2>2, <2>4 DEF Promise!Lapse
  <2>5. QED
    BY <1>2, <2>1, <2>3, <2>4, LedgerStep DEF Promise!Next
<1>3. QED
  BY <1>1, <1>2, TypeCorrect, GrantsAlwaysFit, PTL
     DEF Spec, ImplementsLedger, Promise!Spec

-------------------------------------------------------------------------------
(* Consequences                                                            *)

\* A night is oversold only if some claim on it is in force without a grant.
THEOREM OnlyUnbackedOversell == Spec => []OversoldOnlyByUnbacked
<1>1. GrantsFit => OversoldOnlyByUnbacked
  <2> SUFFICES ASSUME GrantsFit, NEW n \in Nights,
                      \A h \in LiveHolds \ backedHolds : ~Overlaps(hold[h], n, n + 1),
                      \A r \in BlockingReservations \ BackedOn(n) :
                            ~Overlaps(reservation[r], n, n + 1)
               PROVE  ~(Claimed(n, n + 1) > TotalUnits)
    BY DEF OversoldOnlyByUnbacked
  <2>1. /\ HoldsOver(LiveHolds, n, n + 1) = HoldsOver(backedHolds, n, n + 1)
        /\ ReservationsOver(BlockingReservations, n, n + 1) \in SUBSET BackedOn(n)
    BY DEF GrantsFit, HoldsOver, ReservationsOver
  <2>2. Claimed(n, n + 1) <= BackedLoad(n)
    <3> DEFINE B == RoomsOfReservations(BackedOn(n))
               D == RoomsOfReservations(ReservationsOver(BlockingReservations, n, n + 1))
               A == RoomsOfHolds(HoldsOver(backedHolds, n, n + 1))
    <3>1. D \in SUBSET B
      BY <2>1 DEF RoomsOfReservations
    <3>2. /\ IsFiniteSet(B)
          /\ Cardinality(A) \in Nat
          /\ Cardinality(B) \in Nat
          /\ Cardinality(D) \in Nat
      BY RoomsFinite, FS_CardinalityType
    <3>3. Cardinality(D) <= Cardinality(B)
      BY <3>1, <3>2, FS_Subset
    <3>4. Claimed(n, n + 1) = Cardinality(D) + Cardinality(A)
      BY <2>1 DEF Claimed, Units
    <3>5. BackedLoad(n) = Cardinality(B) + Cardinality(A)
      BY DEF BackedLoad
    <3>6. QED
      BY <3>2, <3>3, <3>4, <3>5
  <2>3. /\ BackedLoad(n) \in Nat /\ BackedLoad(n) <= TotalUnits
        /\ Claimed(n, n + 1) \in Nat
    BY LoadNat, UnitsNat DEF GrantsFit, Claimed
  <2>4. QED
    BY <2>2, <2>3
<1>2. QED
  BY <1>1, GrantsAlwaysFit, PTL

\* A hold that became a reservation is never ACTIVE again.
THEOREM ConvertedHoldNotCounted == Spec => []NoDoubleCount
<1>1. Init => NoDoubleCount
  BY DEF Init, NoDoubleCount, NoHold
<1>2. TypeOK /\ NoDoubleCount /\ [Next]_vars => NoDoubleCount'
  <2> SUFFICES ASSUME TypeOK, NoDoubleCount, [Next]_vars PROVE NoDoubleCount'
    OBVIOUS
  <2> USE DEF NoDoubleCount, TypeOK, tables
  <2>1. CASE UNCHANGED hold
    BY <2>1
  <2>2. ASSUME NEW p \in Requests, CreateHold(p) PROVE NoDoubleCount'
    BY <2>2 DEF CreateHold
  <2>3. ASSUME NEW p \in Requests, ExtendHold(p) PROVE NoDoubleCount'
    BY <2>3 DEF ExtendHold, HoldRow
  <2>4. ASSUME NEW h \in Holds, ReleaseHold(h) PROVE NoDoubleCount'
    BY <2>4 DEF ReleaseHold
  <2>5. ASSUME NEW p \in Requests, CreateFromHold(p) PROVE NoDoubleCount'
    <3>1. PICK r \in Reservations :
            hold' = [hold EXCEPT ![request[p].hold].status = "CONVERTED",
                                 ![request[p].hold].reservation = r]
      BY <2>5 DEF CreateFromHold
    <3>2. QED
      BY <3>1
  <2>6. ASSUME NEW w \in Sweepers, ExpireDueHolds(w) PROVE NoDoubleCount'
    BY <2>6 DEF ExpireDueHolds
  <2>7. QED
    BY <2>1, <2>2, <2>3, <2>4, <2>5, <2>6
       DEF Next, Handler, Sweep, vars, CreateHoldFindsExisting,
           CreateHoldFindsNone, CreateHoldRefused, RefreshHold,
           CreateFromHoldRead, CancelRead, Cancel, CaptureRead, Capture,
           CheckInRead, CheckIn, CheckOutRead, CheckOut,
           ExtensionRequested, Extend, ExtensionRejected,
           FindDueHolds, FindDueReservations, ExpireDueReservations, Tick
<1>3. QED
  BY <1>1, <1>2, TypeCorrect, PTL DEF Spec

\* The statuses of a booking that is paid for, and those it can be given then.
Paid == {"CONFIRMED", "CHECKED_IN"}
PaidOrEnded == {"CONFIRMED", "CHECKED_IN", "CHECKED_OUT", "CANCELLED"}

\* A confirmed booking stays so until it is cancelled or checked out.
THEOREM PaidBookingsKept == Spec => PaidBookingKept
<1>1. ASSUME TypeOK, [Next]_vars, NEW r \in Reservations,
             reservation[r].status \in Paid
      PROVE  reservation'[r].status \in PaidOrEnded
  <2> USE DEF TypeOK, tables, Paid, PaidOrEnded
  <2>1. CASE UNCHANGED reservation
    BY <1>1, <2>1
  <2>2. ASSUME NEW p \in Requests, CreateFromHold(p)
        PROVE  reservation'[r].status \in PaidOrEnded
    <3>1. PICK q \in Reservations :
            /\ IsNextReservation(q)
            /\ reservation' = [reservation EXCEPT ![q] =
                  [status |-> "PENDING_PAYMENT",
                   roomCount |-> hold[request[p].hold].quantity,
                   from |-> hold[request[p].hold].from,
                   to |-> hold[request[p].hold].to,
                   holdExpiresAt |-> request[p].expiresAt]]
      BY <2>2 DEF CreateFromHold
    <3>2. q # r
      BY <1>1, <3>1 DEF IsNextReservation
    <3>3. QED
      BY <1>1, <3>1, <3>2
  <2>3. ASSUME NEW p \in Requests, Cancel(p)
        PROVE  reservation'[r].status \in PaidOrEnded
    BY <1>1, <2>3 DEF Cancel, ReservationRow
  <2>4. ASSUME NEW p \in Requests, Capture(p)
        PROVE  reservation'[r].status \in PaidOrEnded
    <3>1. CASE UNCHANGED reservation
      BY <1>1, <3>1
    <3>2. CASE reservation' = [reservation EXCEPT
                                  ![request[p].reservation].status = "CONFIRMED"]
      BY <1>1, <3>2 DEF ReservationRow
    <3>3. QED
      BY <2>4, <3>1, <3>2 DEF Capture
  <2>5. ASSUME NEW w \in Sweepers, ExpireDueReservations(w)
        PROVE  reservation'[r].status \in PaidOrEnded
    BY <1>1, <2>5 DEF ExpireDueReservations, Lapsed
  <2>6. ASSUME NEW p \in Requests, Extend(p)
        PROVE  reservation'[r].status \in PaidOrEnded
    BY <1>1, <2>6 DEF Extend, ReservationRow
  <2>7. ASSUME NEW p \in Requests, CheckIn(p)
        PROVE  reservation'[r].status \in PaidOrEnded
    BY <1>1, <2>7 DEF CheckIn, ReservationRow
  <2>8. ASSUME NEW p \in Requests, CheckOut(p)
        PROVE  reservation'[r].status \in PaidOrEnded
    BY <1>1, <2>8 DEF CheckOut, ReservationRow
  <2>9. QED
    BY <1>1, <2>1, <2>2, <2>3, <2>4, <2>5, <2>6, <2>7, <2>8
       DEF Next, Handler, Sweep, vars, CreateHoldFindsExisting,
           CreateHoldFindsNone, CreateHold, CreateHoldRefused, RefreshHold,
           ExtendHold, ReleaseHold, CreateFromHoldRead, CancelRead, CaptureRead,
           CheckInRead, CheckOutRead, ExtensionRequested, ExtensionRejected,
           FindDueHolds, ExpireDueHolds, FindDueReservations, Tick
<1>2. TypeOK /\ [Next]_vars =>
        [\A r \in Reservations :
            reservation[r].status \in Paid =>
                reservation'[r].status \in PaidOrEnded]_vars
  BY <1>1
<1>3. QED
  BY <1>2, TypeCorrect, PTL DEF Spec, PaidBookingKept, Paid, PaidOrEnded

-------------------------------------------------------------------------------
(* NewHoldFitsEveryNight                                                   *)

\* With a claim of q rooms more, a night of the stay is claimed by no more than
\* the range was before it: createHold counts everything that overlaps the range.
LEMMA NewHoldFits ==
    ASSUME TypeOK, NEW p \in Requests, CreateHold(p),
           NEW h \in Holds, hold[h].status = "NONE", hold'[h].status = "ACTIVE",
           NEW n \in hold'[h].from .. (hold'[h].to - 1)
    PROVE  Claimed(n, n + 1)' <= TotalUnits
<1> DEFINE s == request[p].search
           q == s.quantity
           O == HoldsOver(LiveHolds, n, n + 1)
           A == RoomsOfHolds(O)
           B == RoomsOfReservations(ReservationsOver(BlockingReservations, n, n + 1))
           P == {h} \X (1..q)
<1>1. s \in Search
  BY RequestShape DEF CreateHold, TypeOK
<1>2. /\ s.from \in 0..LastNight
      /\ s.to \in 1..(LastNight + 1)
      /\ q \in 1..MaxQuantity
      /\ s.from < s.to
  BY <1>1 DEF Search, Nights
<1>3. PICK g \in Holds :
        hold' = [hold EXCEPT ![g] =
                    [status |-> "ACTIVE", session |-> s.session,
                     quantity |-> s.quantity, from |-> s.from, to |-> s.to,
                     expiresAt |-> now + HoldDuration, reservation |-> 0]]
  BY DEF CreateHold
<1>4. /\ g = h
      /\ \A x \in Holds : x # h => hold'[x] = hold[x]
      /\ hold'[h].quantity = q
      /\ hold'[h].from = s.from
      /\ hold'[h].to = s.to
  BY <1>3 DEF TypeOK
<1>5. now' = now /\ reservation' = reservation
  BY DEF CreateHold
<1>6. Available(s.from, s.to) >= q
  BY DEF CreateHold
<1>7. h \notin LiveHolds
  BY DEF LiveHolds, LiveHold
<1> HIDE DEF s
<1>8. n \in Nat /\ s.from \in Nat /\ s.to \in Nat /\ s.from <= n /\ n < s.to /\ q \in Nat
  BY <1>2, <1>4
<1>9. Claimed(n, n + 1) + q <= TotalUnits
  <2>1. /\ LiveHolds \in SUBSET Holds
        /\ BlockingReservations \in SUBSET Reservations
    BY DEF LiveHolds, BlockingReservations
  <2>2. Units(LiveHolds, BlockingReservations, n, n + 1)
            <= Units(LiveHolds, BlockingReservations, s.from, s.to)
    BY <1>8, <2>1, UnitsMonotone
  <2>3. Claimed(n, n + 1) \in Nat /\ Claimed(s.from, s.to) \in Nat
    BY UnitsNat DEF Claimed
  <2>4. Claimed(s.from, s.to) + q <= TotalUnits
    BY <1>2, <1>6, <2>3 DEF Available
  <2>5. QED
    BY <1>8, <2>2, <2>3, <2>4 DEF Claimed
<1>10. A' \subseteq A \cup P
  <2>1. LiveHolds' \subseteq LiveHolds \cup {h}
    BY <1>4, <1>5 DEF LiveHolds, LiveHold
  <2>2. O' \subseteq O \cup {h}
    BY <1>4, <2>1 DEF HoldsOver, Overlaps, LiveHolds
  <2>3. A' = {c \in Holds \X (1..MaxQuantity) :
                  c[1] \in O' /\ c[2] <= hold'[c[1]].quantity}
    BY DEF RoomsOfHolds
  <2>4. ASSUME NEW c \in A' PROVE c \in A \cup P
    <3>1. CASE c[1] = h
      BY <1>4, <1>8, <2>3, <3>1
    <3>2. CASE c[1] # h
      BY <1>4, <2>2, <2>3, <3>2 DEF RoomsOfHolds
    <3>3. QED
      BY <3>1, <3>2
  <2>5. QED
    BY <2>4
<1>11. B' = B
  BY <1>5 DEF RoomsOfReservations, ReservationsOver, BlockingReservations, Blocking,
              Overlaps
<1>12. /\ IsFiniteSet(A) /\ IsFiniteSet(P) /\ Cardinality(P) = q
       /\ Cardinality(A) \in Nat /\ Cardinality(B) \in Nat
  BY <1>8, RoomsFinite, RoomsOfOneRow, FS_CardinalityType
<1>13. Cardinality(A') <= Cardinality(A) + q
  <2>1. /\ IsFiniteSet(A \cup P) /\ Cardinality(A \cup P) \in Nat
        /\ Cardinality(A \cap P) \in Nat
    BY <1>12, FS_Union, FS_Intersection, FS_CardinalityType
  <2>2. Cardinality(A \cup P)
            = Cardinality(A) + Cardinality(P) - Cardinality(A \cap P)
    BY <1>12, FS_Union
  <2>3. Cardinality(A') \in Nat /\ Cardinality(A') <= Cardinality(A \cup P)
    BY <1>10, <2>1, FS_Subset, FS_CardinalityType
  <2>4. QED
    BY <1>8, <1>12, <2>1, <2>2, <2>3
<1>14. Cardinality(A') \in Nat
  BY <1>10, <1>12, FS_Union, FS_Subset, FS_CardinalityType
<1>15. Claimed(n, n + 1) = Cardinality(B) + Cardinality(A)
  BY DEF Claimed, Units
<1>16. Claimed(n, n + 1)' = Cardinality(B) + Cardinality(A')
  BY <1>11 DEF Claimed, Units
<1>17. QED
  BY <1>8, <1>9, <1>12, <1>13, <1>14, <1>15, <1>16

\* Whatever races have put on the other nights, createHold adds rooms only where
\* they are free on every night of the stay.
THEOREM NewHoldsFit == Spec => NewHoldFitsEveryNight
<1>1. ASSUME TypeOK, [Next]_vars, NEW h \in Holds,
             hold[h].status = "NONE", hold'[h].status = "ACTIVE"
      PROVE  \E p \in Requests : CreateHold(p)
  <2> USE DEF TypeOK, tables
  <2>1. ~UNCHANGED hold
    BY <1>1
  <2>2. ASSUME NEW p \in Requests, ExtendHold(p) PROVE FALSE
    BY <1>1, <2>2 DEF ExtendHold, HoldRow
  <2>3. ASSUME NEW g \in Holds, ReleaseHold(g) PROVE FALSE
    BY <1>1, <2>3 DEF ReleaseHold
  <2>4. ASSUME NEW p \in Requests, CreateFromHold(p) PROVE FALSE
    <3>1. PICK r \in Reservations :
            hold' = [hold EXCEPT ![request[p].hold].status = "CONVERTED",
                                 ![request[p].hold].reservation = r]
      BY <2>4 DEF CreateFromHold
    <3>2. QED
      BY <1>1, <3>1
  <2>5. ASSUME NEW w \in Sweepers, ExpireDueHolds(w) PROVE FALSE
    BY <1>1, <2>5 DEF ExpireDueHolds
  <2>6. QED
    BY <1>1, <2>1, <2>2, <2>3, <2>4, <2>5
       DEF Next, Handler, Sweep, vars, CreateHoldFindsExisting,
           CreateHoldFindsNone, CreateHoldRefused, RefreshHold,
           CreateFromHoldRead, CancelRead, Cancel, CaptureRead, Capture,
           CheckInRead, CheckIn, CheckOutRead, CheckOut,
           ExtensionRequested, Extend, ExtensionRejected,
           FindDueHolds, FindDueReservations, ExpireDueReservations, Tick
<1>2. TypeOK /\ [Next]_vars =>
        [\A h \in Holds :
            hold[h].status = "NONE" /\ hold'[h].status = "ACTIVE" =>
                \A n \in hold'[h].from .. (hold'[h].to - 1) :
                    Claimed(n, n + 1)' <= TotalUnits]_vars
  <2> SUFFICES ASSUME TypeOK, [Next]_vars, NEW h \in Holds,
                      hold[h].status = "NONE", hold'[h].status = "ACTIVE",
                      NEW n \in hold'[h].from .. (hold'[h].to - 1)
               PROVE  Claimed(n, n + 1)' <= TotalUnits
    OBVIOUS
  <2>1. PICK p \in Requests : CreateHold(p)
    BY <1>1
  <2>2. QED
    BY <2>1, NewHoldFits
<1>3. QED
  BY <1>2, TypeCorrect, PTL DEF Spec, NewHoldFitsEveryNight

-------------------------------------------------------------------------------
(* What a search offers                                                    *)

\* Taking rooms out of order and back does not disturb holds and bookings.
LEMMA SearchStepIsBookingStep ==
    AvailabilityNext \/ UNCHANGED availabilityVars => [Next]_vars
  BY DEF AvailabilityNext, availabilityVars, TakeOutOfOrder, ReturnToOrder

\* Rows, requests and the set of rooms out of order are always well formed.
THEOREM SearchTypeCorrect == AvailabilitySpec => []AvailabilityTypeOK
<1>1. AvailabilityInit => AvailabilityTypeOK
  <2>1. Init => TypeOK
    BY DEF Init, TypeOK, NoHold, NoReservation, HoldRow, HoldStatus,
           ReservationRow, ReservationStatus, RequestState
  <2>2. QED
    BY <2>1 DEF AvailabilityInit, AvailabilityTypeOK
<1>2. AvailabilityTypeOK /\ [AvailabilityNext]_availabilityVars
        => AvailabilityTypeOK'
  <2> SUFFICES ASSUME AvailabilityTypeOK, [AvailabilityNext]_availabilityVars
               PROVE  AvailabilityTypeOK'
    OBVIOUS
  <2>1. TypeOK'
    BY SearchStepIsBookingStep, TypeStep DEF AvailabilityTypeOK
  <2>2. outOfOrder' \subseteq Rooms
    BY DEF AvailabilityTypeOK, AvailabilityNext, availabilityVars,
           TakeOutOfOrder, ReturnToOrder
  <2>3. QED
    BY <2>1, <2>2 DEF AvailabilityTypeOK
<1>3. QED
  BY <1>1, <1>2, PTL DEF AvailabilitySpec

\* A search never offers a room that is reserved, or stands in for one that is
\* out of order, on any night of the stay.
THEOREM OffersAreCovered == AvailabilitySpec => []OfferLeavesEveryNightCovered
<1>1. AvailabilityTypeOK => OfferLeavesEveryNightCovered
  <2> SUFFICES ASSUME AvailabilityTypeOK, NEW s \in Search,
                      Offered(s.from, s.to) > 0,
                      NEW n \in s.from .. (s.to - 1)
               PROVE  Offered(s.from, s.to) + Reserved(n, n + 1)
                          + Cardinality(outOfOrder) <= TotalUnits
    BY DEF OfferLeavesEveryNightCovered
  <2>1. s.from \in Nat /\ s.to \in Nat
    BY DEF Search, Nights
  <2>2. n \in Nat /\ s.from <= n /\ n < s.to
    BY <2>1
  <2>3. TypeOK /\ IsFiniteSet(outOfOrder)
    BY RoomsAssumption, FS_Subset DEF AvailabilityTypeOK
  <2>4. Cardinality(outOfOrder) \in Nat
    BY <2>3, FS_CardinalityType
  <2>5. BlockingReservations \subseteq Reservations
    BY DEF BlockingReservations
  <2>6. Reserved(n, n + 1) <= Reserved(s.from, s.to)
    BY <2>1, <2>2, <2>3, <2>5, UnitsMonotone DEF Reserved
  <2>7. Reserved(n, n + 1) \in Nat /\ Reserved(s.from, s.to) \in Nat
    BY UnitsNat DEF Reserved
  <2>8. Offered(s.from, s.to) = TotalUnits - (Reserved(s.from, s.to)
                                                + Cardinality(outOfOrder))
    BY <2>4, <2>7 DEF Offered
  <2>9. QED
    BY <2>4, <2>6, <2>7, <2>8
<1>2. QED
  BY <1>1, SearchTypeCorrect, PTL
================================================================================
