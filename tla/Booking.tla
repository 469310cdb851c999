------------------------------- MODULE Booking --------------------------------
(***************************************************************************)
(* Holds and reservations of one room type, from the search to a confirmed *)
(* or lapsed booking: reservationHoldService.ts, the creation and          *)
(* cancellation halves of reservationService.ts, the dates an approved     *)
(* extension writes there, the status half of the payment capture          *)
(* (paymentService.ts) and the two expiry sweeps.                          *)
(*                                                                         *)
(* A Prisma $transaction and a single Prisma statement are one step each   *)
(* (SQLite is the provider).  A handler that reads first and writes in a   *)
(* later statement is two steps, and what it read is kept in request[p];   *)
(* any other handler may run in between.  A request that fails (409, 404)  *)
(* changes nothing, and neither does one that is abandoned half-way, so    *)
(* requests need no failure step of their own.                             *)
(*                                                                         *)
(* A definition whose name starts with "Mutant" is not part of the model:  *)
(* it is a plausible slip in the code that the definition below it models, *)
(* and shows that some property of this module depends on that code.       *)
(***************************************************************************)
EXTENDS Naturals, FiniteSets

CONSTANTS
    MaxHolds,         \* bound: ReservationHold rows
    MaxReservations,  \* bound: Reservation rows
    Requests,         \* handler calls that can be in flight at once
    Sweepers,         \* sweeps that can be in flight at once: setInterval does
                      \* not wait for the last one, and worker.ts may run too
    Sessions,         \* swr_sid cookies
    NoSession,        \* the session of a row that does not exist yet
    TotalUnits,       \* RoomType.totalUnits
    LastNight,        \* nights are numbered 0..LastNight
    MaxQuantity,      \* bound: rooms asked for in one search
    HoldDuration,     \* HOLD_DURATION_MINUTES, in ticks
    SweepBatch,       \* take: 100
    MaxTime           \* bound: the clock

ASSUME ConstantsAssumption ==
    /\ MaxHolds \in Nat
    /\ MaxReservations \in Nat
    /\ TotalUnits \in Nat
    /\ LastNight \in Nat
    /\ MaxQuantity \in Nat
    /\ HoldDuration \in Nat \ {0}
    /\ SweepBatch \in Nat \ {0}
    /\ MaxTime \in Nat
    /\ NoSession \notin Sessions

VARIABLES
    now,                  \* Date.now()
    hold,                 \* the ReservationHold table
    reservation,          \* the Reservation table
    request,              \* what each in-flight handler has read so far
    holdSweep,            \* ids found by a sweep of holds, not yet updated
    paymentSweep,         \* ids found by a sweep of unpaid reservations
    \* History variables: the claims that have been in force without a gap
    \* since a createHold transaction granted them.
    backedHolds,          \* holds
    grantedTo             \* of each reservation, the end of the nights for
                          \* which that is so; 0 if there are none

tables == <<hold, reservation>>
sweeps == <<holdSweep, paymentSweep>>
backed == <<backedHolds, grantedTo>>
vars == <<now, tables, request, sweeps, backed>>

Holds == 1..MaxHolds
Reservations == 1..MaxReservations
Nights == 0..LastNight

HoldStatus == {"NONE", "ACTIVE", "EXPIRED", "CONVERTED", "RELEASED"}
ReservationStatus ==
    {"NONE", "PENDING_PAYMENT", "CONFIRMED", "CHECKED_IN", "CHECKED_OUT",
     "EXPIRED", "CANCELLED"}

\* A search; Date ranges are half-open, [from, to).
Search ==
    {s \in [session: Sessions, quantity: 1..MaxQuantity,
            from: Nights, to: 1..(LastNight + 1)] : s.from < s.to}

HoldRow ==
    [status: HoldStatus, session: Sessions \cup {NoSession}, quantity: 0..MaxQuantity,
     from: Nat, to: Nat, expiresAt: Nat, reservation: {0} \cup Reservations]

ReservationRow ==
    [status: ReservationStatus, roomCount: 0..MaxQuantity,
     from: Nat, to: Nat, holdExpiresAt: Nat]

\* Rows that have not been created yet; ids are handed out in order, so the
\* order of ids is the order of createdAt.
NoHold == [status |-> "NONE", session |-> NoSession, quantity |-> 0, from |-> 0,
           to |-> 0, expiresAt |-> 0, reservation |-> 0]
NoReservation == [status |-> "NONE", roomCount |-> 0, from |-> 0, to |-> 0,
                  holdExpiresAt |-> 0]

IsNextHold(h) ==
    \A g \in Holds : hold[g].status = "NONE" <=> g >= h
IsNextReservation(r) ==
    \A q \in Reservations : reservation[q].status = "NONE" <=> q >= r

\* The program point of a handler and what it carries to the next statement.
Idle == [at |-> "idle"]
RequestState ==
    {Idle}
    \cup [at: {"createHold"}, search: Search]
    \cup [at: {"refreshHold", "extendHold"}, hold: Holds]
    \cup [at: {"createFromHold"}, hold: Holds, expiresAt: Nat]
    \cup [at: {"cancel", "capture", "checkIn", "checkOut"},
          reservation: Reservations]
    \cup [at: {"extend"}, reservation: Reservations, to: Nat]

-------------------------------------------------------------------------------
(* Inventory arithmetic                                                    *)

BlockingStatuses ==
    {"HELD", "PENDING", "PENDING_PAYMENT", "CONFIRMED", "CHECKED_IN"}

Overlaps(row, from, to) == row.from < to /\ row.to > from

LiveHold(h) == hold[h].status = "ACTIVE" /\ hold[h].expiresAt > now
Blocking(r) == reservation[r].status \in BlockingStatuses

\* Sums of quantity and roomCount, as the size of the set of claimed rooms.
RoomsOfHolds(H) ==
    {c \in Holds \X (1..MaxQuantity) :
        c[1] \in H /\ c[2] <= hold[c[1]].quantity}
RoomsOfReservations(R) ==
    {c \in Reservations \X (1..MaxQuantity) :
        c[1] \in R /\ c[2] <= reservation[c[1]].roomCount}

HoldsOver(H, from, to) == {h \in H : Overlaps(hold[h], from, to)}
ReservationsOver(R, from, to) == {r \in R : Overlaps(reservation[r], from, to)}

Units(H, R, from, to) ==
    Cardinality(RoomsOfReservations(ReservationsOver(R, from, to)))
        + Cardinality(RoomsOfHolds(HoldsOver(H, from, to)))

LiveHolds == {h \in Holds : LiveHold(h)}
BlockingReservations == {r \in Reservations : Blocking(r)}

\* The holds are forgotten, as in getAvailability.
MutantClaimed(from, to) == Units({}, BlockingReservations, from, to)

\* reserved + held: everything that overlaps the range, night by night or not.
Claimed(from, to) == Units(LiveHolds, BlockingReservations, from, to)

\* Only the first night of the stay is counted.
MutantAvailable(from, to) ==
    IF Claimed(from, from + 1) < TotalUnits
    THEN TotalUnits - Claimed(from, from + 1) ELSE 0

Available(from, to) ==
    IF Claimed(from, to) < TotalUnits THEN TotalUnits - Claimed(from, to) ELSE 0

-------------------------------------------------------------------------------
(* createHold: look for a hold to reuse, then either refresh it or create  *)
(* one.                                                                    *)

ReusableHolds(s) ==
    {h \in Holds : /\ LiveHold(h)
                   /\ hold[h].session = s.session
                   /\ hold[h].quantity = s.quantity
                   /\ hold[h].from = s.from
                   /\ hold[h].to = s.to}

\* Bound: the clock must be able to pass every expiry the model hands out.
ExpiryWithinClock == now + HoldDuration <= MaxTime

CreateHoldFindsExisting(p) ==
    /\ request[p] = Idle
    /\ \E s \in Search : \E h \in ReusableHolds(s) :
        /\ \A g \in ReusableHolds(s) : g <= h
        /\ request' = [request EXCEPT ![p] = [at |-> "refreshHold", hold |-> h]]
    /\ UNCHANGED <<now, tables, sweeps, backed>>

CreateHoldFindsNone(p) ==
    /\ request[p] = Idle
    /\ \E s \in Search :
        /\ ReusableHolds(s) = {}
        /\ request' = [request EXCEPT ![p] = [at |-> "createHold", search |-> s]]
    /\ UNCHANGED <<now, tables, sweeps, backed>>

\* The count was compared before the transaction.
MutantCreateHold(p) ==
    /\ request[p].at = "createHold"
    /\ ExpiryWithinClock
    /\ LET s == request[p].search IN
       \E h \in Holds :
            /\ IsNextHold(h)
            /\ hold' = [hold EXCEPT ![h] =
                    [status |-> "ACTIVE", session |-> s.session,
                     quantity |-> s.quantity, from |-> s.from, to |-> s.to,
                     expiresAt |-> now + HoldDuration, reservation |-> 0]]
            /\ backedHolds' = backedHolds \cup {h}
    /\ request' = [request EXCEPT ![p] = Idle]
    /\ UNCHANGED <<now, reservation, sweeps, grantedTo>>

\* The transaction: count, compare, insert.
CreateHold(p) ==
    /\ request[p].at = "createHold"
    /\ ExpiryWithinClock
    /\ LET s == request[p].search IN
        /\ Available(s.from, s.to) >= s.quantity
        /\ \E h \in Holds :
            /\ IsNextHold(h)
            /\ hold' = [hold EXCEPT ![h] =
                    [status |-> "ACTIVE", session |-> s.session,
                     quantity |-> s.quantity, from |-> s.from, to |-> s.to,
                     expiresAt |-> now + HoldDuration, reservation |-> 0]]
            /\ backedHolds' = backedHolds \cup {h}
    /\ request' = [request EXCEPT ![p] = Idle]
    /\ UNCHANGED <<now, reservation, sweeps, grantedTo>>

\* InventoryUnavailableError: 409.
CreateHoldRefused(p) ==
    /\ request[p].at = "createHold"
    /\ Available(request[p].search.from, request[p].search.to)
            < request[p].search.quantity
    /\ request' = [request EXCEPT ![p] = Idle]
    /\ UNCHANGED <<now, tables, sweeps, backed>>

\* refreshHold reads the status again, but not the expiry ...
RefreshHold(p) ==
    /\ request[p].at = "refreshHold"
    /\ LET h == request[p].hold IN
        request' = [request EXCEPT ![p] =
                        IF hold[h].status = "ACTIVE"
                        THEN [at |-> "extendHold", hold |-> h]
                        ELSE Idle]
    /\ UNCHANGED <<now, tables, sweeps, backed>>

\* The extension also writes the status it read.
MutantExtendHold(p) ==
    /\ request[p].at = "extendHold"
    /\ ExpiryWithinClock
    /\ hold' = [hold EXCEPT ![request[p].hold].expiresAt = now + HoldDuration,
                            ![request[p].hold].status = "ACTIVE"]
    /\ request' = [request EXCEPT ![p] = Idle]
    /\ UNCHANGED <<now, reservation, sweeps, backed>>

\* ... and then moves the expiry of whatever the row has become.
ExtendHold(p) ==
    /\ request[p].at = "extendHold"
    /\ ExpiryWithinClock
    /\ hold' = [hold EXCEPT ![request[p].hold].expiresAt = now + HoldDuration]
    /\ request' = [request EXCEPT ![p] = Idle]
    /\ UNCHANGED <<now, reservation, sweeps, backed>>

\* releaseHold(id, reason): one unconditional update.
ReleaseHold(h) ==
    /\ hold[h].status # "NONE"
    /\ hold' = [hold EXCEPT ![h].status = "RELEASED"]
    /\ backedHolds' = backedHolds \ {h}
    /\ UNCHANGED <<now, reservation, request, sweeps, grantedTo>>

-------------------------------------------------------------------------------
(* createFromHold                                                          *)

CreateFromHoldRead(p) ==
    /\ request[p] = Idle
    /\ \E h \in LiveHolds :
        request' = [request EXCEPT ![p] =
            [at |-> "createFromHold", hold |-> h, expiresAt |-> hold[h].expiresAt]]
    /\ UNCHANGED <<now, tables, sweeps, backed>>

\* The transaction inserts the reservation and marks the hold CONVERTED: as
\* PENDING_PAYMENT, since no caller says that a member of staff creates it.  It
\* does not look at the hold again: the claim passes on without a gap only if
\* the hold is still backed.
CreateFromHold(p) ==
    /\ request[p].at = "createFromHold"
    /\ LET h == request[p].hold IN
       \E r \in Reservations :
        /\ IsNextReservation(r)
        /\ reservation' = [reservation EXCEPT ![r] =
                [status |-> "PENDING_PAYMENT", roomCount |-> hold[h].quantity,
                 from |-> hold[h].from, to |-> hold[h].to,
                 holdExpiresAt |-> request[p].expiresAt]]
        /\ hold' = [hold EXCEPT ![h].status = "CONVERTED",
                                ![h].reservation = r]
        /\ backedHolds' = backedHolds \ {h}
        /\ grantedTo' = [grantedTo EXCEPT ![r] =
                            IF h \in backedHolds THEN hold[h].to ELSE 0]
    /\ request' = [request EXCEPT ![p] = Idle]
    /\ UNCHANGED <<now, sweeps>>

-------------------------------------------------------------------------------
(* cancelReservation and the status half of verifyAndCapture and of the    *)
(* payment.captured webhook.  Both handlers compare the status they read   *)
(* before their transaction.  The amounts, the Payment rows, and with them *)
(* whether a capture finds its payment CAPTURED already, are in            *)
(* Payments.tla: here either may be the case.  A capture that reads any    *)
(* other status than PENDING_PAYMENT moves amounts only.                   *)

CancellableStatuses ==
    {"PENDING", "HELD", "PENDING_PAYMENT", "CONFIRMED", "CHECKED_IN"}

CancelRead(p) ==
    /\ request[p] = Idle
    /\ \E r \in Reservations :
        /\ reservation[r].status \in CancellableStatuses
        /\ request' = [request EXCEPT ![p] = [at |-> "cancel", reservation |-> r]]
    /\ UNCHANGED <<now, tables, sweeps, backed>>

Cancel(p) ==
    /\ request[p].at = "cancel"
    /\ LET r == request[p].reservation IN
        /\ reservation' = [reservation EXCEPT ![r].status = "CANCELLED"]
        /\ grantedTo' = [grantedTo EXCEPT ![r] = 0]
    /\ request' = [request EXCEPT ![p] = Idle]
    /\ UNCHANGED <<now, hold, sweeps, backedHolds>>

CaptureRead(p) ==
    /\ request[p] = Idle
    /\ \E r \in Reservations :
        /\ reservation[r].status = "PENDING_PAYMENT"
        /\ request' = [request EXCEPT ![p] = [at |-> "capture", reservation |-> r]]
    /\ UNCHANGED <<now, tables, sweeps, backed>>

\* The transaction re-reads the payment, not the reservation.
Capture(p) ==
    /\ request[p].at = "capture"
    /\ LET r == request[p].reservation IN
        \/ reservation' = [reservation EXCEPT ![r].status = "CONFIRMED"]
        \/ UNCHANGED reservation   \* the payment was CAPTURED meanwhile
    /\ request' = [request EXCEPT ![p] = Idle]
    /\ UNCHANGED <<now, hold, sweeps, backed>>

-------------------------------------------------------------------------------
(* checkIn and checkOut compare the status they read before their          *)
(* transaction, as cancelReservation does.  The rooms are in Stay.tla.     *)

CheckInRead(p) ==
    /\ request[p] = Idle
    /\ \E r \in Reservations :
        /\ reservation[r].status = "CONFIRMED"
        /\ request' = [request EXCEPT ![p] = [at |-> "checkIn", reservation |-> r]]
    /\ UNCHANGED <<now, tables, sweeps, backed>>

CheckIn(p) ==
    /\ request[p].at = "checkIn"
    /\ reservation' =
            [reservation EXCEPT ![request[p].reservation].status = "CHECKED_IN"]
    /\ request' = [request EXCEPT ![p] = Idle]
    /\ UNCHANGED <<now, hold, sweeps, backed>>

CheckOutRead(p) ==
    /\ request[p] = Idle
    /\ \E r \in Reservations :
        /\ reservation[r].status = "CHECKED_IN"
        /\ request' = [request EXCEPT ![p] = [at |-> "checkOut", reservation |-> r]]
    /\ UNCHANGED <<now, tables, sweeps, backed>>

CheckOut(p) ==
    /\ request[p].at = "checkOut"
    /\ LET r == request[p].reservation IN
        /\ reservation' = [reservation EXCEPT ![r].status = "CHECKED_OUT"]
        /\ grantedTo' = [grantedTo EXCEPT ![r] = 0]
    /\ request' = [request EXCEPT ![p] = Idle]
    /\ UNCHANGED <<now, hold, sweeps, backedHolds>>

-------------------------------------------------------------------------------
(* Extensions.  requestExtension compares the status and the check-out and *)
(* leaves an ExtensionRequest; decideExtension carries it out when staff   *)
(* approve it.  One slot of request stands for an undecided request    *)
(* from the asking to the decision (bound: as many as there are slots).    *)
(* Two slots may hold the same one, as two approvals may both read it      *)
(* undecided, and any other writer may come between.  What an extension    *)
(* costs is in Payments.tla and Tariff.tla, the search for a room that it  *)
(* is offered with in Stay.tla.                                            *)

ExtensionRequested(p) ==
    /\ request[p] = Idle
    /\ \E r \in Reservations, to \in 1..(LastNight + 1) :
        /\ reservation[r].status \in {"CONFIRMED", "CHECKED_IN"}
        /\ to > reservation[r].to
        /\ request' = [request EXCEPT ![p] =
                            [at |-> "extend", reservation |-> r, to |-> to]]
    /\ UNCHANGED <<now, tables, sweeps, backed>>

\* The approval looks neither at the status nor at the rooms left, and an older
\* request may ask for fewer nights than a newer one has given.  Nights are
\* added without a grant; those given up are not got back with one.
Extend(p) ==
    /\ request[p].at = "extend"
    /\ LET r == request[p].reservation
           to == request[p].to IN
        /\ reservation' = [reservation EXCEPT ![r].to = to]
        /\ grantedTo' = [grantedTo EXCEPT ![r] = IF to < @ THEN to ELSE @]
    /\ request' = [request EXCEPT ![p] = Idle]
    /\ UNCHANGED <<now, hold, sweeps, backedHolds>>

\* decideExtension with REJECTED: the reservation is as it was.
ExtensionRejected(p) ==
    /\ request[p].at = "extend"
    /\ request' = [request EXCEPT ![p] = Idle]
    /\ UNCHANGED <<now, tables, sweeps, backed>>

-------------------------------------------------------------------------------
(* The sweeps of jobs/holdExpiry.ts: find, then update by id.              *)

DueHolds == {h \in Holds : hold[h].status = "ACTIVE" /\ hold[h].expiresAt <= now}

\* The sweep looks for the status of the state diagram, which nothing creates.
MutantDueReservations ==
    {r \in Reservations : /\ reservation[r].status = "HELD"
                          /\ reservation[r].holdExpiresAt <= now}

DueReservations ==
    {r \in Reservations : /\ reservation[r].status = "PENDING_PAYMENT"
                          /\ reservation[r].holdExpiresAt <= now}

\* take: SweepBatch rows of those due, in no particular order.
Batches(due) ==
    {b \in SUBSET due : \/ Cardinality(b) = SweepBatch
                        \/ b = due /\ Cardinality(b) < SweepBatch} \ {{}}

\* The sweep looks for rows that are EXPIRED already.
MutantFindDueHolds(w) ==
    /\ holdSweep[w] = {}
    /\ \E b \in Batches({h \in Holds : hold[h].status = "EXPIRED"}) :
            holdSweep' = [holdSweep EXCEPT ![w] = b]
    /\ UNCHANGED <<now, tables, request, paymentSweep, backed>>

FindDueHolds(w) ==
    /\ holdSweep[w] = {}
    /\ \E b \in Batches(DueHolds) : holdSweep' = [holdSweep EXCEPT ![w] = b]
    /\ UNCHANGED <<now, tables, request, paymentSweep, backed>>

\* updateMany by id alone: whatever the rows have become, they are EXPIRED.
ExpireDueHolds(w) ==
    /\ holdSweep[w] # {}
    /\ hold' = [h \in Holds |-> IF h \in holdSweep[w]
                                THEN [hold[h] EXCEPT !.status = "EXPIRED"]
                                ELSE hold[h]]
    /\ backedHolds' = backedHolds \ holdSweep[w]
    /\ holdSweep' = [holdSweep EXCEPT ![w] = {}]
    /\ UNCHANGED <<now, reservation, request, paymentSweep, grantedTo>>

FindDueReservations(w) ==
    /\ paymentSweep[w] = {}
    /\ \E b \in Batches(DueReservations) :
            paymentSweep' = [paymentSweep EXCEPT ![w] = b]
    /\ UNCHANGED <<now, tables, request, holdSweep, backed>>

\* updateMany by id alone, as in the sweep of holds.
MutantLapsed(w) == paymentSweep[w]

\* updateMany by id and status: only rows still PENDING_PAYMENT are EXPIRED.
Lapsed(w) == {r \in paymentSweep[w] : reservation[r].status = "PENDING_PAYMENT"}

ExpireDueReservations(w) ==
    /\ paymentSweep[w] # {}
    /\ reservation' = [r \in Reservations |->
                        IF r \in Lapsed(w)
                        THEN [reservation[r] EXCEPT !.status = "EXPIRED"]
                        ELSE reservation[r]]
    /\ grantedTo' = [r \in Reservations |->
                        IF r \in Lapsed(w) THEN 0 ELSE grantedTo[r]]
    /\ paymentSweep' = [paymentSweep EXCEPT ![w] = {}]
    /\ UNCHANGED <<now, hold, request, holdSweep, backedHolds>>

-------------------------------------------------------------------------------
Tick ==
    /\ now < MaxTime
    /\ now' = now + 1
    /\ backedHolds' = {h \in backedHolds : hold[h].expiresAt > now + 1}
    /\ UNCHANGED <<tables, request, sweeps, grantedTo>>

Init ==
    /\ now = 0
    /\ hold = [h \in Holds |-> NoHold]
    /\ reservation = [r \in Reservations |-> NoReservation]
    /\ request = [p \in Requests |-> Idle]
    /\ holdSweep = [w \in Sweepers |-> {}]
    /\ paymentSweep = [w \in Sweepers |-> {}]
    /\ backedHolds = {}
    /\ grantedTo = [r \in Reservations |-> 0]

Handler(p) ==
    \/ CreateHoldFindsExisting(p)
    \/ CreateHoldFindsNone(p)
    \/ CreateHold(p)
    \/ CreateHoldRefused(p)
    \/ RefreshHold(p)
    \/ ExtendHold(p)
    \/ CreateFromHoldRead(p)
    \/ CreateFromHold(p)
    \/ CancelRead(p)
    \/ Cancel(p)
    \/ CaptureRead(p)
    \/ Capture(p)
    \/ CheckInRead(p)
    \/ CheckIn(p)
    \/ CheckOutRead(p)
    \/ CheckOut(p)
    \/ ExtensionRequested(p)
    \/ Extend(p)
    \/ ExtensionRejected(p)

Sweep(w) ==
    \/ FindDueHolds(w)
    \/ ExpireDueHolds(w)
    \/ FindDueReservations(w)
    \/ ExpireDueReservations(w)

Next ==
    \/ \E p \in Requests : Handler(p)
    \/ \E h \in Holds : ReleaseHold(h)
    \/ \E w \in Sweepers : Sweep(w)
    \/ Tick

Spec == Init /\ [][Next]_vars

\* Time passes and setInterval keeps firing; nobody is obliged to book, pay or
\* cancel, so no handler is fair.
FairSpec ==
    /\ Spec
    /\ WF_vars(Tick)
    /\ \A w \in Sweepers :
        /\ WF_vars(FindDueHolds(w))
        /\ WF_vars(ExpireDueHolds(w))
        /\ WF_vars(FindDueReservations(w))
        /\ WF_vars(ExpireDueReservations(w))

-------------------------------------------------------------------------------
(* Properties                                                              *)

\* Every row, in-flight request and pending batch is well formed.
TypeOK ==
    /\ now \in 0..MaxTime
    /\ hold \in [Holds -> HoldRow]
    /\ reservation \in [Reservations -> ReservationRow]
    /\ request \in [Requests -> RequestState]
    /\ holdSweep \in [Sweepers -> SUBSET Holds]
    /\ paymentSweep \in [Sweepers -> SUBSET Reservations]
    /\ backedHolds \subseteq Holds
    /\ grantedTo \in [Reservations -> Nat]

\* The reservations whose claim on night n is backed.
BackedOn(n) == {r \in Reservations : reservation[r].from <= n /\ n < grantedTo[r]}

BackedLoad(n) ==
    Cardinality(RoomsOfReservations(BackedOn(n)))
        + Cardinality(RoomsOfHolds(HoldsOver(backedHolds, n, n + 1)))

\* The nights granted by createHold's transaction and kept without a gap since
\* - through refreshes, conversions, captures, cancellations, extensions and
\* sweeps in any order - are all in force, and never exceed the units of the
\* room type on any night.
GrantsFit ==
    /\ backedHolds \subseteq LiveHolds
    /\ \A r \in Reservations :
        grantedTo[r] > 0 => Blocking(r) /\ grantedTo[r] <= reservation[r].to
    /\ \A n \in Nights : BackedLoad(n) <= TotalUnits

\* If a night is oversold, some claim on that night has no grant behind it: a
\* hold revived after its expiry, a reservation made from a hold that was no
\* longer live or was already converted, a capture that revived a lapsed
\* reservation, or an extension over that night.
OversoldOnlyByUnbacked ==
    \A n \in Nights :
        Claimed(n, n + 1) > TotalUnits =>
            \/ \E h \in LiveHolds \ backedHolds : Overlaps(hold[h], n, n + 1)
            \/ \E r \in BlockingReservations \ BackedOn(n) :
                    Overlaps(reservation[r], n, n + 1)

\* createHold never adds a room to a night that is full, whatever races have
\* put there: a new hold appears only where the night still has room for it.
NewHoldFitsEveryNight ==
    [][\A h \in Holds :
        hold[h].status = "NONE" /\ hold'[h].status = "ACTIVE" =>
            \A n \in hold'[h].from .. (hold'[h].to - 1) :
                Claimed(n, n + 1)' <= TotalUnits]_vars

\* A hold and the reservation made from it are never both counted: a hold that
\* was converted is not ACTIVE again, however refreshes and sweeps race.
NoDoubleCount ==
    \A h \in Holds : hold[h].status = "ACTIVE" => hold[h].reservation = 0

\* A booking that was paid for in time is only ever ended by a cancellation or
\* the check-out: the sweep that found it unpaid leaves it alone if it was paid
\* meanwhile.
PaidBookingKept ==
    [][\A r \in Reservations :
        reservation[r].status \in {"CONFIRMED", "CHECKED_IN"} =>
            reservation'[r].status \in
                {"CONFIRMED", "CHECKED_IN", "CHECKED_OUT", "CANCELLED"}]_vars

\* An unpaid reservation does not block its rooms for ever.
UnpaidReservationResolved ==
    \A r \in Reservations :
        (reservation[r].status = "PENDING_PAYMENT")
            ~> (reservation[r].status # "PENDING_PAYMENT")

\* A hold that ran out does not stay ACTIVE for ever, unless it is revived.
ExpiredHoldSwept ==
    \A h \in Holds : (h \in DueHolds) ~> (h \notin DueHolds)

Promise == INSTANCE Ledger WITH load <- [n \in Nights |-> BackedLoad(n)]

\* The inventory promise of Ledger.tla, kept for the nights that are backed.
ImplementsLedger == Promise!Spec

-------------------------------------------------------------------------------
(* Claims of the documentation that the code does not keep                 *)

\* No night of the room type is ever claimed by more rooms than it has.
NeverOverbooked == \A n \in Nights : Claimed(n, n + 1) <= TotalUnits

\* One hold becomes one reservation.
HoldConvertedOnce ==
    [][\A h \in Holds :
        hold[h].reservation # 0 => hold'[h].reservation = hold[h].reservation]_vars

\* The sweep expires a hold only if it is ACTIVE and past its expiry.
SweepExpiresOnlyDueHolds ==
    [][\A h \in Holds :
        hold[h].status # "EXPIRED" /\ hold'[h].status = "EXPIRED" =>
            h \in DueHolds]_vars

\* A session that repeats its search keeps the one hold it has.
OneHoldPerSearch ==
    \A s \in Search : Cardinality(ReusableHolds(s)) <= 1

\* EXPIRED and CANCELLED are final.
LapsedStaysLapsed ==
    [][\A r \in Reservations :
        reservation[r].status \in {"EXPIRED", "CANCELLED"} =>
            reservation'[r].status = reservation[r].status]_vars
================================================================================
