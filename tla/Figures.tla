-------------------------------- MODULE Figures --------------------------------
(***************************************************************************)
(* The figures staff read: the reports (reportsService.ts and the reports  *)
(* page), the dashboard (dashboardSummary of adminController.ts and its    *)
(* page) and the reservation calendar (calendarService.ts and its page).   *)
(* They are functions of the tables, computed by different code from       *)
(* different queries; the actions are the writes that move a reservation,  *)
(* its payment, a room and an enquiry through their lives.                 *)
(*                                                                         *)
(* A day is a number, the date at UTC of a stay or a range; an instant is  *)
(* a number of half days since midnight UTC of day 0, fine enough to tell  *)
(* a midnight of the server from one of UTC.  A percentage is a whole      *)
(* number of tenths of a percent.                                          *)
(*                                                                         *)
(* A definition whose name starts with "Mutant" is not part of the model:  *)
(* it is a plausible slip in the code that the definition below it models. *)
(***************************************************************************)
EXTENDS Integers, FiniteSets, FiniteSetsExt

CONSTANTS
    Reservations,  \* bound: Reservation rows 1, 2, ..., in the order they are made
    Enquiries,     \* bound: Enquiry rows
    MaxRows,       \* bound: reservations and enquiries together
    Rooms,         \* the active physical rooms
    NoRoom,        \* a stay without a room assignment
    RoomTypes,     \* the room types
    Bookings,      \* what guests book
    StaffSets,     \* the statuses staff give to rooms by hand
    LastDay,       \* bound: dates are 0..LastDay
    LastNow,       \* bound: the last instant at which something happens
    Zones,         \* half days the server's clock may be ahead of UTC
    CardRows,      \* the rows of a card of the dashboard; 8 in the code
    EastOfGreenwich  \* whether the browser's midnight is the day before in UTC

VARIABLES
    reservations,  \* the Reservation table, each row with its payment and its room
    rooms,         \* Room.status
    enquiries,     \* Enquiry.status and createdAt
    activeTypes,   \* the room types with RoomType.status ACTIVE
    now,
    zone           \* the time zone of the server

clock == <<now, zone>>
figureVars == <<reservations, rooms, enquiries, activeTypes, clock>>

Days == 0..LastDay
Instants == 0..LastNow
RoomStatus == {"READY", "OCCUPIED", "CLEANING", "DIRTY", "MAINTENANCE", "OUT_OF_ORDER"}
EnquiryStatus == {"NEW", "CONTACTED", "AWAITING_RESPONSE", "CONVERTED", "LOST", "SPAM"}
Statuses == {"PENDING_PAYMENT", "EXPIRED", "CONFIRMED", "CHECKED_IN", "CHECKED_OUT", "CANCELLED"}
PaymentStatus == {"NONE", "CAPTURED", "REFUNDED", "PARTIALLY_REFUNDED"}
NoRow == [status |-> "NONE"]

BookingRequest ==
    [checkIn: Days, checkOut: Days, roomType: RoomTypes, roomCount: Nat, source: STRING, totalAmount: Nat]

ASSUME FiguresAssumption ==
    /\ LastDay \in Nat /\ LastNow \in Nat /\ Zones \subseteq -1 .. 1
    /\ NoRoom \notin Rooms
    /\ IsFiniteSet(Rooms) /\ IsFiniteSet(RoomTypes)
    /\ IsFiniteSet(Reservations) /\ Reservations \subseteq Nat /\ IsFiniteSet(Enquiries)
    /\ StaffSets \subseteq RoomStatus /\ CardRows \in Nat
    /\ \A b \in Bookings : b \in BookingRequest /\ b.checkIn < b.checkOut

-----------------------------------------------------------------------------
(* The writes.                                                              *)

Booked == {r \in Reservations : reservations[r].status # "NONE"}
Asked == {e \in Enquiries : enquiries[e].status # "NONE"}
MoreRows == Cardinality(Booked) + Cardinality(Asked) < MaxRows  \* Bound.

Nights(r) == reservations[r].checkIn .. (reservations[r].checkOut - 1)
With(status) == {r \in Booked : reservations[r].status \in status}

SetStatus(r, status) == reservations' = [reservations EXCEPT ![r].status = status]

Book(r, b) ==
    /\ r = Cardinality(Booked) + 1 /\ MoreRows
    /\ \A d \in b.checkIn .. (b.checkOut - 1) :
         b.roomCount + MapThenSumSet(LAMBDA q : reservations[q].roomCount,
             {q \in With({"PENDING_PAYMENT", "CONFIRMED", "CHECKED_IN"}) : d \in Nights(q)})
           <= Cardinality(Rooms)
    /\ reservations' = [reservations EXCEPT ![r] =
         [status |-> "PENDING_PAYMENT", checkIn |-> b.checkIn, checkOut |-> b.checkOut,
          roomType |-> b.roomType, roomCount |-> b.roomCount, source |-> b.source,
          totalAmount |-> b.totalAmount, amountPaid |-> 0, captured |-> 0, payment |-> "NONE",
          refundedOn |-> now, room |-> NoRoom, createdAt |-> now]]
    /\ UNCHANGED <<rooms, enquiries, activeTypes, clock>>

Capture(r) ==
    /\ r \in With({"PENDING_PAYMENT"})
    /\ reservations' = [reservations EXCEPT ![r].status = "CONFIRMED", ![r].payment = "CAPTURED",
                                            ![r].amountPaid = reservations[r].totalAmount,
                                            ![r].captured = reservations[r].totalAmount]
    /\ UNCHANGED <<rooms, enquiries, activeTypes, clock>>

Expire(r) ==
    /\ r \in With({"PENDING_PAYMENT"})
    /\ SetStatus(r, "EXPIRED")
    /\ UNCHANGED <<rooms, enquiries, activeTypes, clock>>

Cancel(r) ==
    /\ r \in With({"PENDING_PAYMENT", "CONFIRMED", "CHECKED_IN"})
    /\ SetStatus(r, "CANCELLED")
    /\ UNCHANGED <<rooms, enquiries, activeTypes, clock>>

Refund(r, amount) ==
    /\ r \in Booked /\ reservations[r].payment = "CAPTURED"
    /\ amount <= reservations[r].amountPaid
    /\ reservations' = [reservations EXCEPT
         ![r].amountPaid = @ - amount, ![r].refundedOn = now,
         ![r].payment = IF amount = reservations[r].captured THEN "REFUNDED" ELSE "PARTIALLY_REFUNDED"]
    /\ UNCHANGED <<rooms, enquiries, activeTypes, clock>>

AssignRoom(r, room) ==
    /\ r \in With({"CONFIRMED"}) /\ reservations[r].room = NoRoom
    /\ \A q \in With({"CONFIRMED", "CHECKED_IN"}) :
         reservations[q].room = room => Nights(q) \cap Nights(r) = {}
    /\ reservations' = [reservations EXCEPT ![r].room = room]
    /\ UNCHANGED <<rooms, enquiries, activeTypes, clock>>

CheckIn(r) ==
    /\ r \in With({"CONFIRMED"}) /\ reservations[r].room # NoRoom
    /\ SetStatus(r, "CHECKED_IN")
    /\ rooms' = [rooms EXCEPT ![reservations[r].room] = "OCCUPIED"]
    /\ UNCHANGED <<enquiries, activeTypes, clock>>

CheckOut(r) ==
    /\ r \in With({"CHECKED_IN"})
    /\ SetStatus(r, "CHECKED_OUT")
    /\ rooms' = [rooms EXCEPT ![reservations[r].room] = "CLEANING"]
    /\ UNCHANGED <<enquiries, activeTypes, clock>>

Extend(r, night) ==
    /\ r \in With({"CONFIRMED", "CHECKED_IN"})
    /\ night = reservations[r].checkOut /\ night < LastDay
    /\ \A q \in With({"CONFIRMED", "CHECKED_IN"}) \ {r} : night \notin Nights(q)
    /\ reservations' = [reservations EXCEPT ![r].checkOut = night + 1, ![r].totalAmount = @ + 1]
    /\ UNCHANGED <<rooms, enquiries, activeTypes, clock>>

SetRoomStatus(room, status) ==
    /\ MoreRows  \* Bound.
    /\ rooms' = [rooms EXCEPT ![room] = status]
    /\ UNCHANGED <<reservations, enquiries, activeTypes, clock>>

CreateEnquiry(e) ==
    /\ e \notin Asked /\ MoreRows
    /\ enquiries' = [enquiries EXCEPT ![e] = [status |-> "NEW", createdAt |-> now]]
    /\ UNCHANGED <<reservations, rooms, activeTypes, clock>>

SetEnquiryStatus(e, status) ==
    /\ e \in Asked
    /\ enquiries' = [enquiries EXCEPT ![e].status = status]
    /\ UNCHANGED <<reservations, rooms, activeTypes, clock>>

\* A type that is hidden or archived keeps its bookings, and may come back.
SetRoomTypeStatus(type, status) ==
    /\ activeTypes' = IF status = "ACTIVE" THEN activeTypes \cup {type} ELSE activeTypes \ {type}
    /\ UNCHANGED <<reservations, rooms, enquiries, clock>>

TimePasses ==
    /\ now < LastNow  \* Bound.
    /\ now' = now + 1
    /\ UNCHANGED <<reservations, rooms, enquiries, activeTypes, zone>>

-----------------------------------------------------------------------------
(* Midnights.                                                               *)

Midnight(day) == 2 * day                     \* of UTC
LocalDay(i) == (i + zone) \div 2             \* the server's date at an instant
StartOfDay(i) == 2 * LocalDay(i) - zone      \* the server's midnight before it

-----------------------------------------------------------------------------
(* reportsService.ts.  A range r has an inclusive end, r.to.                *)

Lesser(a, b) == IF a < b THEN a ELSE b
Greater(a, b) == IF a > b THEN a ELSE b
Rounded(a, b) == IF b = 0 THEN 0 ELSE (2 * a + b) \div (2 * b)
Tenths(part, whole) == Rounded(1000 * part, whole)
Total(column, rows) == SumFunction([r \in rows |-> reservations[r][column]])
Ranges == {r \in [from: Days, to: Days] : r.from <= r.to}

ToPrismaRange(r) == Midnight(r.from) .. (Midnight(r.to + 1) - 1)
DaysBetween(a, b) == Greater(1, b - a)

Stayed == With({"CONFIRMED", "CHECKED_IN", "CHECKED_OUT"})
Near(range) ==
    {r \in Stayed : reservations[r].checkIn < range.to + 2 /\ reservations[r].checkOut > range.from}

\* The days the loop over one reservation goes through.
Start(r, range) == Greater(reservations[r].checkIn, range.from)
End(r, range) == Lesser(reservations[r].checkOut, range.to + 1)
MutantBucketed(r, range) == Start(r, range) .. End(r, range)
Bucketed(r, range) == Start(r, range) .. (End(r, range) - 1)

\* Without an active room there is no day in the answer.
OccupancyByDay(range) ==
    [d \in IF Rooms = {} THEN {}
           ELSE (range.from .. range.to) \cup UNION {Bucketed(r, range) : r \in Near(range)} |->
        Cardinality({r \in Near(range) : d \in Bucketed(r, range)})]
OccupancyPct(range, d) == Tenths(OccupancyByDay(range)[d], Cardinality(Rooms))

\* Only types that are active now, and the reservations of these.
NearActive(range) == {r \in Near(range) : reservations[r].roomType \in activeTypes}
NightsOfType(type, range) ==
    SumFunction([r \in {q \in NearActive(range) : reservations[q].roomType = type} |->
                    Greater(0, End(r, range) - Start(r, range))])
TotalRoomNights(range) == Cardinality(activeTypes) * DaysBetween(range.from, range.to)
OccupancyByRoomType(range) ==
    [type \in activeTypes |->
        [nights |-> NightsOfType(type, range),
         occupancyPct |-> Tenths(NightsOfType(type, range), TotalRoomNights(range))]]

Arriving(range) == {r \in Booked : Midnight(reservations[r].checkIn) \in ToPrismaRange(range)}
Kept(range) == Arriving(range) \ With({"CANCELLED"})
Grouped(rows, column) ==
    LET Key(r) == reservations[r][column] IN
    [k \in {Key(r) : r \in rows} |->
        [revenue |-> Total("totalAmount", {r \in rows : Key(r) = k}),
         count |-> Cardinality({r \in rows : Key(r) = k})]]
\* A capture pays the total of its day, and the whole payment counts as refunded.
Refunded(range) ==
    Total("captured", {r \in Booked : /\ reservations[r].payment \in {"REFUNDED", "PARTIALLY_REFUNDED"}
                                      /\ reservations[r].refundedOn \in ToPrismaRange(range)})
MutantRevenueSummary(range) ==
    LET total == Total("totalAmount", Arriving(range))
        collected == Total("amountPaid", Arriving(range)) IN
    [totalRevenue |-> total,
     collected    |-> collected,
     outstanding  |-> Greater(0, total - collected),
     refunded     |-> Refunded(range),
     netRevenue   |-> collected - Refunded(range),
     byRoomType   |-> Grouped(Arriving(range), "roomType"),
     bySource     |-> Grouped(Kept(range), "source"),
     byDate       |-> Grouped(Kept(range), "checkIn")]
RevenueSummary(range) ==
    LET total == Total("totalAmount", Arriving(range))
        collected == Total("amountPaid", Arriving(range)) IN
    [totalRevenue |-> total,
     collected    |-> collected,
     outstanding  |-> Greater(0, total - collected),
     refunded     |-> Refunded(range),
     netRevenue   |-> collected - Refunded(range),
     byRoomType   |-> Grouped(Kept(range), "roomType"),
     bySource     |-> Grouped(Kept(range), "source"),
     byDate       |-> Grouped(Kept(range), "checkIn")]

Made(range) == {r \in Booked : reservations[r].createdAt \in ToPrismaRange(range)}
BookingsSummary(range) ==
    LET made == Made(range)
        n == Cardinality(made)
        Share(status) == Tenths(Cardinality(made \cap With({status})), n)
        Mean(F(_)) == Rounded(10 * MapThenSumSet(F, made), n) IN
    [total               |-> n,
     byStatus            |-> [s \in {reservations[r].status : r \in made} |-> Cardinality(made \cap With({s}))],
     bySource            |-> [s \in {reservations[r].source : r \in made} |->
                                Cardinality({r \in made : reservations[r].source = s})],
     averageStayNights   |-> Mean(LAMBDA r : Cardinality(Nights(r))),
     averageLeadTimeDays |-> Mean(LAMBDA r :
        Greater(0, (Midnight(reservations[r].checkIn) - reservations[r].createdAt + 1) \div 2)),
     noShowRatePct       |-> Share("NO_SHOW"),
     cancellationRatePct |-> Share("CANCELLED")]

RoomPerformance(range) ==
    LET rows == Arriving(range) \cap Stayed
        Rows(type) == {r \in rows : reservations[r].roomType = type} IN
    [type \in {reservations[r].roomType : r \in rows} |->
        [bookings |-> Cardinality(Rows(type)),
         revenue  |-> Total("totalAmount", Rows(type)),
         avgValue |-> Rounded(Total("totalAmount", Rows(type)), Cardinality(Rows(type)))]]

EnquiryFunnel(range) ==
    LET rows == {e \in Asked : enquiries[e].createdAt \in ToPrismaRange(range)}
        Count(status) == Cardinality({e \in rows : enquiries[e].status \in status}) IN
    [total             |-> Cardinality(rows),
     byStatus          |-> [s \in {enquiries[e].status : e \in rows} |-> Count({s})],
     conversionRatePct |-> Tenths(Count({"CONVERTED"}), Cardinality(rows)),
     contactRatePct    |-> Tenths(Count({"CONTACTED", "CONVERTED"}), Cardinality(rows))]

ReportBundle(range) ==
    LET byDay == OccupancyByDay(range)
        Pct(d) == Tenths(byDay[d], Cardinality(Rooms)) IN
    [averagePct      |-> Rounded(MapThenSumSet(Pct, DOMAIN byDay), Cardinality(DOMAIN byDay)),
     byDay           |-> byDay,
     byRoomType      |-> OccupancyByRoomType(range),
     revenue         |-> RevenueSummary(range),
     bookings        |-> BookingsSummary(range),
     roomPerformance |-> RoomPerformance(range),
     enquiries       |-> EnquiryFunnel(range)]

-----------------------------------------------------------------------------
(* dashboardSummary of adminController.ts.  Its days start at the server's  *)
(* midnight.                                                                *)

Today == StartOfDay(now)
Tomorrow == Today + 2
WeekEnd == Today + 14
OnToday(i) == Today <= i /\ i < Tomorrow

CountedStatuses == {"PENDING", "CONFIRMED", "CHECKED_IN", "CHECKED_OUT"}
OccupyingStatuses == {"CONFIRMED", "CHECKED_IN"}
RoomsIn(status) == Cardinality({room \in Rooms : rooms[room] \in status})

\* The two counts are queried for the statuses the wrong way round.
RoomCounts ==
    [totalRooms       |-> Cardinality(Rooms),
     maintenanceRooms |-> RoomsIn({"MAINTENANCE", "OUT_OF_ORDER"}),
     dirtyRooms       |-> RoomsIn({"CLEANING"}),
     cleaningRooms    |-> RoomsIn({"DIRTY"}),
     readyRooms       |-> RoomsIn({"READY"}),
     occupiedPhysical |-> RoomsIn({"OCCUPIED"}),
     outOfOrderRooms  |-> RoomsIn({"OUT_OF_ORDER"})]

\* The rows whose stay meets the time from one instant to another.
Meeting(rows, from, end) ==
    {r \in rows : Midnight(reservations[r].checkIn) < end /\ Midnight(reservations[r].checkOut) > from}
Over(status, from, end) == Meeting(With(status), from, end)
OccupiedRooms == Total("roomCount", Over(OccupyingStatuses, Today, Tomorrow))
MutantRoomsOccupiedOn(rows, day) ==
    Total("roomCount", {r \in rows : /\ Midnight(reservations[r].checkIn) < day + 2
                                     /\ Midnight(reservations[r].checkOut) >= day})
RoomsOccupiedOn(rows, day) == Total("roomCount", Meeting(rows, day, day + 2))
OccupancyTrend ==
    LET weekReservations == Over(OccupyingStatuses \cup {"CHECKED_OUT"}, Today, WeekEnd) IN
    [i \in 0..6 |-> RoomsOccupiedOn(weekReservations, Today + 2 * i)]

\* Cards list the first rows only, here by age, and the tiles count the rows listed.
Take(rows) == {r \in rows : Cardinality({q \in rows : q < r}) < CardRows}
Latest(rows) == {r \in rows : Cardinality({q \in rows : q > r}) < CardRows}
ArrivingToday ==
    {r \in With({"PENDING", "CONFIRMED", "CHECKED_IN"}) : OnToday(Midnight(reservations[r].checkIn))}
LeavingToday ==
    {r \in With({"CONFIRMED", "CHECKED_IN"}) : OnToday(Midnight(reservations[r].checkOut))}
Arrivals == Take(ArrivingToday)
Departures == Take(LeavingToday)

\* Without what was cancelled and collected today.
DashboardSummary ==
    [occupancy       |-> [total |-> Cardinality(Rooms), occupied |-> OccupiedRooms,
                          percentage |-> Rounded(100 * OccupiedRooms, Cardinality(Rooms))],
     availableRooms  |-> Greater(0, Cardinality(Rooms) - OccupiedRooms - RoomCounts.maintenanceRooms),
     maintenance     |-> RoomCounts.maintenanceRooms,
     bookings        |-> [total |-> Cardinality(With(CountedStatuses)),
                          today |-> Cardinality({r \in With(CountedStatuses) : OnToday(reservations[r].createdAt)}),
                          pending |-> Cardinality(With({"PENDING"}))],
     checkIns        |-> Cardinality(Arrivals),
     checkOuts       |-> Cardinality(Departures),
     pendingEnquiries |-> Cardinality({e \in Asked : enquiries[e].status = "NEW"}),
     todayPaise      |-> Total("totalAmount", {r \in With(CountedStatuses) : OnToday(reservations[r].createdAt)}),
     occupancyTrend  |-> OccupancyTrend,
     arrivals        |-> Arrivals,
     departures      |-> Departures,
     recentBookings  |-> Latest(With(CountedStatuses)),
     enquiries       |-> {e \in Asked : enquiries[e].status = "NEW"},
     housekeeping    |-> [dirty |-> RoomCounts.dirtyRooms + RoomCounts.cleaningRooms,
                          cleaning |-> RoomCounts.cleaningRooms,
                          ready |-> RoomCounts.readyRooms,
                          occupied |-> RoomCounts.occupiedPhysical,
                          maintenance |-> RoomCounts.maintenanceRooms,
                          outOfOrder |-> RoomCounts.outOfOrderRooms]]

\* The page: tiles, the chart of the week, the ring of room statuses, the cards.
KpiValues ==
    LET d == DashboardSummary IN
    [bookings       |-> d.bookings.total,
     occupancy      |-> d.occupancy.percentage,
     checkIns       |-> d.checkIns,
     availableRooms |-> d.availableRooms,
     revenue        |-> d.todayPaise]
OccupancyThisWeek ==
    LET d == DashboardSummary IN
    [i \in 0..6 |-> Rounded(100 * d.occupancyTrend[i], d.occupancy.total)]
TodaysArrivals == DashboardSummary.arrivals
TodaysDepartures == DashboardSummary.departures
RecentBookings == DashboardSummary.recentBookings
PendingEnquiries == DashboardSummary.enquiries
RoomStatusRing ==
    LET d == DashboardSummary IN
    [occupied    |-> d.occupancy.occupied,
     available   |-> d.availableRooms,
     maintenance |-> d.maintenance]
HousekeepingOverview ==
    LET hk == DashboardSummary.housekeeping IN
    [dirty |-> hk.dirty, cleaning |-> hk.cleaning, ready |-> hk.ready, outOfOrder |-> hk.outOfOrder]

-----------------------------------------------------------------------------
(* The calendar: the handler, the service and the page.                     *)

\* The handler moves both dates, which it reads as midnights of UTC, back to the
\* server's midnight.
GetCalendarView(range) ==
    {[reservation |-> r, status |-> reservations[r].status,
      checkIn |-> reservations[r].checkIn, checkOut |-> reservations[r].checkOut,
      room |-> reservations[r].room]
        : r \in Over({"CONFIRMED", "CHECKED_IN", "CHECKED_OUT", "HELD"},
                     StartOfDay(Midnight(range.from)), StartOfDay(Midnight(range.to)) + 2)}

\* The page writes the local midnight of a day as a date in UTC.
ToDate(day) == IF EastOfGreenwich THEN day - 1 ELSE day
Asks(range) == [from |-> ToDate(range.from), to |-> ToDate(range.to)]
\* fromDate appends a time to what already has one: an invalid date, which no
\* comparison prefers, so that a block takes the range's ends for its own.
Overlap(block, range) ==
    IF range.from >= range.to THEN {} ELSE range.from .. range.to
BlockDays(block, range) == Overlap(block, range)
VisibleBlocks(range, statusFilter) ==
    {b \in GetCalendarView(Asks(range)) : statusFilter = "ALL" \/ b.status = statusFilter}
BlocksByRoom(range, statusFilter) ==
    [room \in Rooms \cup {NoRoom} |-> {b \in VisibleBlocks(range, statusFilter) : b.room = room}]
Drawn(blocks, range) == [b \in blocks |-> BlockDays(b, range)]
RoomRow(room, range, statusFilter) == Drawn(BlocksByRoom(range, statusFilter)[room], range)
UnassignedRow(range, statusFilter) == Drawn(BlocksByRoom(range, statusFilter)[NoRoom], range)
CalendarGrid(range, statusFilter) ==
    [rows |-> [room \in Rooms |-> RoomRow(room, range, statusFilter)],
     unassigned |-> UnassignedRow(range, statusFilter)]

-----------------------------------------------------------------------------
(* The reports page: tiles, charts, table, funnel and the exported file.    *)

KpiRow(data) ==
    [revenueCollected |-> data.revenue.collected, outstanding |-> data.revenue.outstanding,
     avgOccupancy |-> data.averagePct, totalBookings |-> data.bookings.total,
     conversion |-> data.enquiries.conversionRatePct]
OccupancyChart(data) ==
    [d \in DOMAIN data.byDay |-> [occupancy |-> Tenths(data.byDay[d], Cardinality(Rooms)),
                                   rooms |-> data.byDay[d]]]
RevenueChart(data) == data.revenue.byDate
BookingStatusDonut(data) == data.bookings.byStatus
RevenueBySourceChart(data) == data.revenue.bySource
RevenueByRoomTypeChart(data) == [type \in DOMAIN data.revenue.byRoomType |-> data.revenue.byRoomType[type].revenue]
RoomPerformanceTable(data) == data.roomPerformance
EnquiryFunnelCard(data) ==
    [s \in {"NEW", "CONTACTED", "CONVERTED", "LOST"} |->
        IF s \in DOMAIN data.enquiries.byStatus THEN data.enquiries.byStatus[s] ELSE 0]
DownloadCSV(data) ==
    [total |-> data.revenue.totalRevenue, collected |-> data.revenue.collected,
     outstanding |-> data.revenue.outstanding, refunded |-> data.revenue.refunded,
     bookings |-> data.bookings.total, byStatus |-> data.bookings.byStatus,
     rooms |-> [type \in DOMAIN data.roomPerformance |-> data.roomPerformance[type].revenue]]

-----------------------------------------------------------------------------
FiguresInit ==
    /\ reservations = [r \in Reservations |-> NoRow]
    /\ rooms = [room \in Rooms |-> "READY"]
    /\ enquiries = [e \in Enquiries |-> NoRow]
    /\ activeTypes = RoomTypes
    /\ now = 0
    /\ zone \in Zones

ReservationNext ==
    \E r \in Reservations :
        \/ \E b \in Bookings : Book(r, b)
        \/ Capture(r) \/ Expire(r) \/ Cancel(r) \/ CheckIn(r) \/ CheckOut(r)
        \/ \E amount \in 1..2 : Refund(r, amount)
        \/ \E room \in Rooms : AssignRoom(r, room)
        \/ \E night \in Days : Extend(r, night)

HouseNext ==
    \/ \E room \in Rooms, status \in StaffSets : SetRoomStatus(room, status)
    \/ \E e \in Enquiries : CreateEnquiry(e) \/ \E status \in EnquiryStatus : SetEnquiryStatus(e, status)
    \/ \E type \in RoomTypes, status \in {"ACTIVE", "HIDDEN", "ARCHIVED"} : SetRoomTypeStatus(type, status)
    \/ TimePasses

FiguresNext == ReservationNext \/ HouseNext

FiguresSpec == FiguresInit /\ [][FiguresNext]_figureVars

-----------------------------------------------------------------------------
(* Properties.                                                              *)

\* Rows, rooms and enquiries hold what their columns may hold, and only a
\* reservation with a room has been checked in.
FiguresTypeOK ==
    /\ now \in Instants /\ zone \in Zones /\ activeTypes \subseteq RoomTypes
    /\ rooms \in [Rooms -> RoomStatus]
    /\ enquiries \in [Enquiries -> {NoRow} \cup [status: EnquiryStatus, createdAt: Instants]]
    /\ DOMAIN reservations = Reservations
    /\ \A r \in Booked :
         /\ reservations[r].status \in Statuses
         /\ reservations[r].payment \in PaymentStatus
         /\ reservations[r].checkIn < reservations[r].checkOut
         /\ reservations[r].amountPaid <= reservations[r].totalAmount
         /\ reservations[r].status \in {"CHECKED_IN", "CHECKED_OUT"} => reservations[r].room \in Rooms

OnNight(rows, d) ==
    {r \in rows : reservations[r].checkIn <= d /\ d < reservations[r].checkOut}
OfTypes(types) == {r \in Stayed : reservations[r].roomType \in types}

\* The occupancy report counts a stay on exactly the days D of the range with
\* checkIn <= D < checkOut, however the stay and the range overlap, and reports
\* no day outside the range (occupancyByDay, the comment at its query).  The report
\* by room type, computed from another query by another loop, has a row for every
\* active type and counts the same nights: those of the stays of active types, and
\* none of a type hidden or archived since it was booked.
EveryStayOnItsNights ==
    \A range \in Ranges :
        LET byType == OccupancyByRoomType(range) IN
        /\ Rooms # {} => OccupancyByDay(range) =
               [d \in range.from .. range.to |-> Cardinality(OnNight(Stayed, d))]
        /\ DOMAIN byType = activeTypes
        /\ SumFunction([type \in activeTypes |-> byType[type].nights])
             = SumFunction([d \in range.from .. range.to |->
                               Cardinality(OnNight(OfTypes(activeTypes), d))])

\* What the reports page shows adds up: revenue by day, by source and by room
\* type are the same money, the table of rooms holds no more than the chart of
\* room types, the donut's slices make up the tile of bookings, and what is
\* collected and outstanding make up the exported total.
ChartsAgree ==
    \A range \in Ranges :
        LET data == ReportBundle(range)
            Sum(chart) == SumFunction([k \in DOMAIN chart |-> chart[k].revenue])
            donut == BookingStatusDonut(data)
            byType == RevenueByRoomTypeChart(data) IN
        /\ Sum(RevenueChart(data)) = Sum(RevenueBySourceChart(data))
        /\ Sum(RevenueChart(data)) = SumFunction(byType)
        /\ \A type \in DOMAIN RoomPerformanceTable(data) :
             type \in DOMAIN byType /\ RoomPerformanceTable(data)[type].revenue <= byType[type]
        /\ SumFunction(donut) = KpiRow(data).totalBookings
        /\ DownloadCSV(data).total = KpiRow(data).revenueCollected + KpiRow(data).outstanding

\* The dashboard, the reports and the calendar count the nights of a week with
\* three pieces of code; where every booking is of one room, the dashboard and the
\* calendar miss no guest the report counts on any day, whatever the server's time
\* zone, and count nobody else if it is UTC; and the dashboard's figure for today
\* falls short of its own chart by the guests who have left early and no others.
CountedAlike ==
    (Rooms # {} /\ \A r \in Booked : reservations[r].roomCount = 1) =>
        /\ \A i \in 0..6 :
             LET d == LocalDay(now) + i
                 oneDay == [from |-> d, to |-> d]
                 reported == OccupancyByDay(oneDay)[d]
                 shown == Cardinality(GetCalendarView(oneDay)) IN
             /\ reported <= OccupancyTrend[i] /\ reported <= shown
             /\ zone = 0 => OccupancyTrend[i] = reported /\ shown = reported
        /\ KpiValues.occupancy <= OccupancyThisWeek[0]
        /\ OccupancyTrend[0] - OccupiedRooms = Cardinality(Over({"CHECKED_OUT"}, Today, Tomorrow))

-----------------------------------------------------------------------------
(* Claims of comments and labels that the code does not keep.               *)

\* "don't count cancelled toward revenue" (reportsService.ts:162).
CancelledIsNoRevenue ==
    \A range \in Ranges :
        RevenueSummary(range).totalRevenue = Total("totalAmount", Kept(range))

\* "0..100" (reportsService.ts:34), "% of rooms occupied each day" (reports page).
PercentagesAreShares ==
    \A range \in Ranges :
        /\ \A d \in DOMAIN OccupancyByDay(range) : OccupancyPct(range, d) <= 1000
        /\ \A type \in activeTypes : OccupancyByRoomType(range)[type].occupancyPct <= 1000

\* "a booking that ends 2024-01-15 does NOT occupy the room on 2024-01-15"
\* (reportsService.ts:5-6): nor does it on the dashboard, wherever the server runs.
DepartureDayIsFree ==
    (Rooms # {} /\ \A r \in Booked : reservations[r].roomCount = 1) =>
        \A i \in 0..6 :
            LET d == LocalDay(now) + i IN
            OccupancyTrend[i] <= OccupancyByDay([from |-> d, to |-> d])[d]

\* The report and the dashboard count the same rooms of a booking for several.
RoomsOfABookingCounted ==
    LET d == LocalDay(now) IN
    OccupancyByDay([from |-> d, to |-> d])[d] >= OccupiedRooms

\* "collected - refunded" (reportsService.ts:134): net revenue is what the guests have paid.
NetRevenueIsWhatWasPaid ==
    \A range \in Ranges :
        (\A r \in Booked : reservations[r].checkIn \in range.from .. range.to) =>
            RevenueSummary(range).netRevenue >= 0

\* The housekeeping overview's "Cleaning" is the rooms being cleaned.
CleaningIsCleaning == HousekeepingOverview.cleaning = RoomsIn({"CLEANING"})

\* A booking that awaits its payment is counted as pending.
PendingIsCounted ==
    With({"PENDING_PAYMENT"}) # {} => DashboardSummary.bookings.pending > 0

\* "Today's Arrivals", and the tile that counts them (dashboard page).
ArrivalsAreCounted == KpiValues.checkIns = Cardinality(ArrivingToday)

\* "Live view of bookings across rooms and dates" (calendar page): a block covers its nights only.
BlockOnItsNights ==
    \A range \in Ranges : range.from < range.to =>
        LET grid == CalendarGrid(range, "ALL") IN
        /\ \A b \in DOMAIN grid.unassigned : grid.unassigned[b] \subseteq b.checkIn .. b.checkOut
        /\ \A room \in Rooms : \A b \in DOMAIN grid.rows[room] :
             grid.rows[room][b] \subseteq b.checkIn .. b.checkOut

\* The day view draws the guests of the day.
DayViewShowsGuests ==
    \A d \in Days : \A r \in Stayed :
        d \in Nights(r) =>
            \E b \in VisibleBlocks([from |-> d, to |-> d], "ALL") :
                b.reservation = r /\ d \in BlockDays(b, [from |-> d, to |-> d])

\* A week of the calendar asks for the stays of that week.
CalendarAsksItsWeek ==
    \A range \in Ranges : \A r \in Stayed :
        Nights(r) \cap (range.from .. range.to) # {} =>
            \E b \in VisibleBlocks(range, "ALL") : b.reservation = r

\* A guest who has not left is somewhere on the dashboard.
InHouseIsShown ==
    \A r \in With({"CHECKED_IN"}) :
        r \in TodaysArrivals \cup TodaysDepartures \cup Over(OccupyingStatuses, Today, Tomorrow)

\* The funnel's bars make up its total.
FunnelShowsAll ==
    \A range \in Ranges :
        LET data == ReportBundle(range) IN
        SumFunction(EnquiryFunnelCard(data)) = data.enquiries.total

\* The ring of room statuses divides the rooms.
RingAddsUp ==
    RoomStatusRing.occupied + RoomStatusRing.available + RoomStatusRing.maintenance = Cardinality(Rooms)
================================================================================
