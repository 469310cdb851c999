# Verification project for the Sun & Water Resort booking system

TLA+ models of the booking system in this repository (Express + Prisma on SQLite in
`src/backend`, Next.js in `src/frontend`), TLC runs that check them on small
instances, and TLAPS proofs of what must hold on every instance. Every definition
is translated from the source; `PROJECT.json` maps it to the lines it stands for
("map"), and lists components, runs, mutants, hazards and theorems.

```
tlasany Booking.tla                                    parse a module
tlc -workers 2 -config MCBooking_races.cfg MCBooking   one run
tlapm Booking_proofs.tla                               the proofs of a component
```

Contents: [the system](#the-system) · [modules](#the-modules) · [runs](#the-runs) ·
[fairness](#fairness) · [proofs](#what-is-proved) · [only checked](#what-is-only-model-checked) ·
[counterexamples](#counterexamples) · [abstractions](#abstractions) ·
[not modelled](#what-is-not-modelled) · [plan](#plan)

## The system

A resort sells rooms by type. Nothing reserves a physical room until the front desk
assigns one: inventory is a count, `totalUnits` of the room type less what claims it.
One Node process serves the API; every handler is a sequence of awaited Prisma
statements and `$transaction`s, so handlers interleave at each `await` while one
transaction runs alone. A second process (`worker.ts`) may run the sweeps too.
The payment provider (Razorpay) calls back by webhooks that may be late, repeated,
reordered or lost. In the browser, callbacks and answers interleave in the same way.

| Component | State | Operations | Hard because | Correct when |
| --- | --- | --- | --- | --- |
| Holds and bookings (`reservationHoldService`, `reservationService.createFromHold/cancelReservation`, `expirationService`, `jobs/holdExpiry`) | `ReservationHold`, `Reservation` rows; hold ids a sweep has found | search→hold, refresh, release, hold→reservation, cancel, capture, two sweeps | competing requests for the last room; expiry between a check and a write; sweeps that act on what they found earlier | a grant never oversells a night and stays in force; a paid booking survives the sweep; nothing blocks a room for ever |
| Availability search (`availabilityService.getAvailability`) | none of its own; rooms out of order | search | a sum over ranges stands for a count per night; it counts with other code than the hold does | no room is offered that is reserved or out of order |
| Prices and bills (`createFromHold`, `decideExtension`, `BookingResults`, `BookingDetails`, `PriceBreakdown`, `BillFormula`, the staff's form) | base price, GST setting, what each page has read, hold, reservation | search, hold, book, pay, extend, change a price or the tax | six places compute the price of a stay, at different times | what was quoted is what is charged; a bill explains its own balance |
| Payments and refunds (`paymentService`, `routes/webhooks`) | the reservation's amounts and status, `Payment` rows, the provider's orders | create order, verify, captured/failed/refunded webhook, refund | two reporters of one capture, stale reads of amounts, a crash after a provider call, the replay window | one credit per capture; amounts add up; nothing is confirmed or recorded unpaid; a capture is recorded in the end |
| Guest's checkout pages (`BookingDetails`, `booking/pay`, `booking/confirmation`) | the step of each tab, its widget, timers and calls | hold, book, open the widget, pay, dismiss, verify, retry, reload | callbacks that see the step of an earlier render; lost answers; two tabs | the guest is charged once; success is shown only for what is recorded; no page spins for ever |
| Front desk (`reservationService` from `assignRoom` on, `isPhysicalRoomAvailable`) | `RoomAssignment`, `ExtensionRequest`, `Reservation` status and dates | assign, move, check in, check out, cancel, request/decide extension | check-then-insert outside transactions; decisions on stale rows | one stay per room and night; a guest has a room; an ended stay stays ended |
| Housekeeping and room status (`adminController`) | `Room.status`, `HousekeepingTask` | update task, update room status | tasks outlive the situation they were made for | a departure leaves a task; READY means empty |
| Staff sessions and token refresh (`tokenService`, `authService`, `lib/api.ts`, `AdminShell`) | `StaffSession`, `Staff.status`, the cookie, each tab's access token and shared `refreshPromise` | sign in, refresh, sign out, suspend, reload | several 401s at once, rotation in three statements, lost answers, two tabs | a rotated token is dead; sharing a refresh never signs anyone out; no call waits for ever |
| Passwords (`authService`) | `Staff.passwordHash`, `failedLoginCount`, `lockedUntil`, `PasswordReset` | sign in, lock, ask for a link, reset | bcrypt gives others time between a read and the write that relies on it | wrong passwords are limited; a reset is final |
| Guest profiles, roles (`guestsController`, `requirePermission`, `roles.ts`, the profile page) | the `Guest` row, a member's role, each page's copy | read (masked), save, book, change a role | the form saves every column, also those its reader was not shown | a save erases nothing that was masked, and nothing of the member's own work |
| Realtime events (`websocketServer`, `lib/realtime.ts`, `AdminShell`) | sockets, heartbeat flags, reconnection timer, tokens | connect, event, ping, close, reconnect, sign in and out | late `close` events of replaced sockets, expired tokens, restarts | the channel is found again after a loss; only dead clients are dropped, and all of them |
| Admin console (the pages' `refresh`, `useRealtime`, polls) | what each page shows, requests under way, its error | open, write, event, poll, answer, failure | answers out of order; writes without events; errors that stay | what is written or announced is shown in the end |
| Reports, dashboard, calendar (`reportsService`, `dashboardSummary`, `calendarService` and their pages) | none of their own | read | each counts nights and money by code of its own | the figures agree with each other and with the stays |
| Catalogue (`configController`, the CMS half of `adminController` and its pages) | room types, photos, rates, offers, reviews, gallery, settings; open dialogs | create, save, delete | a save is several statements, and a form holds what it read earlier | a deleted offer stays hidden; the last save stands; one cover photo |
| Notifications, enquiries, rate limits, middleware, messages, presentation | single rows, or none | – | – | see [What is not modelled](#what-is-not-modelled) |

How they interact: all of them share the database. The search reads what bookings
and room status leave; `createFromHold` turns a hold into the reservation that
Payments captures, the sweep expires and the front desk assigns; `decideExtension`
belongs to the front desk for its room, to Payments for what is due and to the prices
for how much that is; `cancelReservation` cuts across all. The checkout pages drive the
handlers of Payments. Staff handlers stand behind `requireAuth`, whose tokens are the
Sessions model and which also open the realtime channel. Events and e-mails are emitted
after the writes and nothing in the server waits for them; the console's pages ask
again when an event comes.

## The modules

| Module | Models | Code it stands for |
| --- | --- | --- |
| `Ledger` | the abstract inventory promise: a grant fits on every night of its stay; claims only lapse otherwise | – |
| `Booking` | holds and reservations of one room type | `reservationHoldService.ts`, `reservationService.ts` (87–340), `expirationService.ts`, `holdExpiry.ts`, the status half of `verifyAndCapture` |
| `Availability` | `Booking` beside the search and rooms out of order (EXTENDS `Booking`) | `availabilityService.getAvailability`, `updateRoomStatus` |
| `Payments` | the money of one reservation and the provider's view of it | `paymentService.ts`, `webhooks.ts`, the amounts of `decideExtension` |
| `Checkout` | the guest's tabs on top of the handlers of `Payments` (EXTENDS `Payments`) | `BookingDetails.tsx`, the pay and confirmation pages, the handlers they call |
| `Tariff` | what a stay costs, wherever it is computed | `BookingResults.tsx`, `BookingDetails.tsx`, `bookings/new`, the price of `createHold`, `createFromHold`, `decideExtension`, the two bills |
| `Stay` | the front desk and housekeeping | `reservationService.ts` from `assignRoom` on, `isPhysicalRoomAvailable`, `updateHkTask`, `updateRoomStatus` |
| `Sessions` | one member of staff's tabs, cookie and session rows | `tokenService.ts`, `authService.ts`, `lib/api.ts`, `AdminShell.tsx`, `updateStaff` |
| `Accounts` | one member's password, its lock and its reset links | `authService.ts` |
| `Guests` | one guest's profile in several pages of staff | `guestsController.ts`, `requirePermission.ts`, `roles.ts`, the profile page |
| `Realtime` | one tab's live channel | `websocketServer.ts`, `lib/realtime.ts`, `AdminShell.tsx` |
| `Console` | a page of the console on top of the channel (EXTENDS `Realtime`) | the admin pages' `refresh`, `useRealtime.ts`, what each service emits |
| `Figures` | the figures as functions of the tables | `reportsService.ts`, `calendarService.ts`, `dashboardSummary`, the reports, dashboard and calendar pages |
| `Catalogue` | a row or a collection that staff edit in two tabs | `configController.ts`, the CMS half of `adminController.ts`, the pricing, offers, reviews, gallery and settings pages, the public reads |
| `MC*` | bounds, symmetry, and which model a behaviour follows | – |
| `*_proofs` | theorems: `Booking_proofs` (with `Availability`), `Payments_proofs`, `Checkout_proofs` (with `Tariff`), `Stay_proofs`, `Sessions_proofs` (with `Accounts` and `Guests`), `Console_proofs`, `BackOffice_proofs` (`Figures` and `Catalogue`) | – |
| `Sums` | facts about sums over finite sets, on which proofs about money and figures rest | – |

`MCSessions` checks `Sessions`, `Accounts` and `Guests` in one run, `MCBackOffice`
`Figures` and `Catalogue`, `MCCheckout` `Checkout` and `Tariff`: these share no variable,
and a behaviour takes the steps of one (`concern`, `desk`, `scene`; the constants
`Concerns`, `Desks` and `Scenes` say which models a run is about).

**State and actions.** A table is a function from row ids to records of the columns
that control reads. An action is a handler's step between two `await`s: a
`$transaction` or a single statement is one action; a handler that reads, decides and
writes later is two or more, and what it read is kept in `request[p]` (in `Sessions`,
`refresh[c]` and `form[t]`). Whatever happens in between is any other action, so every
interleaving of the code's awaits is a behaviour. Guards are the code's conditions and
early returns; a request that fails with 4xx changes nothing and so needs no action.
Names are the source's: `CreateHold`, `CreateFromHold`, `Capture`, `RefundWrite`,
`MoveRoom`, `TryRefresh` and so on.

*Booking.* `CreateHoldFindsExisting/FindsNone` and `CreateHold` are `createHold`'s lookup
and its transaction, `Available` the count in it; `RefreshHold`/`ExtendHold`,
`CreateFromHoldRead`/`CreateFromHold`, `CancelRead`/`Cancel` and `CaptureRead`/`Capture`
are a check and the write that relies on it. `FindDueHolds`/`ExpireDueHolds` and their
counterparts for unpaid reservations are a sweep's two statements: the first sweep
updates by id only, the second repeats its condition (`Lapsed`). The front desk's writes to
the same row are here too: `CheckIn`, `CheckOut` and the approval of an extension
(`ExtensionRequested`/`Extend`), which moves `checkOut` and counts no inventory.
`backedHolds` and `grantedTo` are history: the holds that have been in force without a gap
since `createHold`'s transaction granted them, and for each reservation the end of the
nights of which that is so.

*Payments.* `VerifyRead` and `CapturedWebhookRead` are the two ways into
`verifyAndCapture`; `Capture` is its transaction with the amounts read before.
`RefundRead`, `RefundCall`, `RefundMark`, `RefundReadReservation`, `RefundWrite` are the
awaits of `refundPayment`, in order. `provider` is what Razorpay knows: a webhook is
delivered any number of times while `capturedEvent`/`failedEvent` holds, and
`EventAges` ends that (the replay window of `webhooks.ts`). `CaptureFails` is an error
before the transaction is through; of a webhook it is answered 200 all the same, which
`settled` remembers. `Restart` forgets the requests in flight.

*Stay.* `AssignRead`, `AssignCheck`, `AssignRoom` are three awaits of `assignRoom`, the
moves, check-ins, check-outs and extensions likewise. `Free` is
`isPhysicalRoomAvailable`.

*Checkout.* A tab is a record of what its page's hooks hold (`step`, the config that was
answered, the order, the widget, the timer). A call is three steps – it is sent, its
handler runs as the steps of `Payments` in the tab's slot of `Requests`, its answer
arrives or is lost. `ondismiss` and `handler` are the widget's callbacks; `ondismiss` runs
with the step of the render that opened the widget, as the closure in the code does. All
the webhooks of `Payments` come to it, those of declined attempts and refunds included;
`raced`, `declined` and `again` are history: requests that must not overlap did, an open
order was closed by `payment.failed`, a payment that was recorded is recorded anew.

*Tariff.* Each place that shows or stores a price is an operator or a record of what it
computed and when (`asOf`); `SetPrice` and `SetTax` may come between any two.

*Sessions.* The sending of a refresh, the five statements of its handler
(`RefreshRead` … `StaffRead`) and the arrival of its answer are separate actions; an error
ends the handler between any two of them (`RefreshBreaks`).
`refreshPromise` is "some call of this tab has sent a refresh it still listens to".

*Accounts.* `LoginReads` is `login` up to bcrypt, `WrongPassword`, and the two steps of a
right one, what follows; `confirmPasswordReset` is its lookup and its transaction. A
password is the number of the reset that set it.

*Guests.* A page's request is permitted by one step and served by a later one; between
them another member saves, a guest books, or an owner changes the member's role.

*Realtime.* `conn[s]` is a socket as both ends see it. A callback of the browser (open,
close event, timer, effect) or of Node (upgrade, heartbeat, pong, close) is one action;
`LinkLost`, `LossNoticed` and `ServerRestart` are what may happen to it.

*Console.* The pages are a table: which writes change what a page has read, which events
make it ask, whether it polls, takes over its own write, forgets an error. The actions
are the same for all: `Read`, `Arrive`, `AskFails`, `Poll`, `Write`, `OwnWrite`, `Emit`.

*Figures.* The actions move a reservation, its payment, a room, an enquiry and the status of
a room type through their lives; the reports, the summary, the calendar and what their
pages draw are operators on that state, named as the functions and components are. Dates of
stays and reports are midnights of UTC (`Midnight`), the days of the dashboard and of the
calendar start at the server's (`StartOfDay`), `zone` half days before or after.

*Catalogue.* A tab has the list it fetched, the form of its dialog and a saving flag; a
call is a handler between two of its statements and may break off there.

Definitions named `Mutant…` are not part of a model. Each is a plausible slip in the
code modelled by the definition beneath it – a dropped condition, a missing reset – and
TLC finds the property listed with it in `PROJECT.json` violated once it takes that
definition's place.

## The runs

Every configuration sets `CHECK_DEADLOCK FALSE`: rows and the clock are bounded, so a
behaviour stops when they are used up, which the program does not.

| Run | Checks | Instance | Shows |
| --- | --- | --- | --- |
| `booking_races` | `GrantsFit`, `OversoldOnlyByUnbacked`, `NoDoubleCount`, `PaidBookingKept` | 2 requests, 1 session, 1 sweep; 2 holds, 1 reservation, 1 unit, 2 nights; clock 0..2, hold of 1 tick, batch of 1 | two requests and a sweep compete for the last room beside check-in, check-out and extensions: what was granted stays in force and fits; only a claim that outlived its grant, or an extension over a night nobody granted it, oversells; a sweep never undoes a paid booking |
| `booking_sweeps` | `UnpaidReservationResolved`, `ExpiredHoldSwept` | 1 request, 1 fair sweep, batch of 1; 2 holds, 2 reservations, 2 units; clock 0..2 | with more due than a batch takes, the sweeps get to everything |
| `availability_search` | `NewHoldFitsEveryNight`, `ImplementsLedger`, `OfferLeavesEveryNightCovered` | 3 holds, 1 reservation, 2 units, 2 nights, 1–2 rooms a search, 1 room that may be out of order | overlapping, nested and adjacent stays: no night over-granted, `Booking` implements `Ledger`, no search offers what is reserved or out of order |
| `payments_races` | `ConfirmedOnlyByCapture`, `RecordedOnlyIfCaptured` | 2 orders, 2 requests, one order whose attempts fail, one that is refunded | no interleaving records a payment nobody made; only the recording of a capture confirms a reservation, so a stale second report of one revives nothing |
| `payments_serial` | `AmountsAddUp`, `FreshCaptureIsRecorded` | 2 orders, one of which may fail and be refunded, 1 request, fair | handlers one at a time, with webhooks, sweep and restarts between their statements, keep paid + due = total; a capture is recorded in the end, also after a failed attempt, unless its event is refused as too old or a delivery of it fails and is answered 200 |
| `checkout` | `CreditIsCaptured`, `ChargedOnceUnhurried`, `PageIsTrue`; `BillAddsUp`, `QuoteStands`, `ExtensionChargesAddedNights` | 2 orders, 1 slot for webhooks and staff, and one of: 2 tabs; 1 tab of a stay that may be extended; 1 tab with declined attempts; 1 tab with refunds. Prices: 2 of them, 4 tax settings (12 %, 12.5 %, none, out of range), 2 nights, 3 rooms of a type of 2, 2 changes | verify and webhook credit one payment once, unless a payment recorded before is recorded anew; the guest is charged once, whatever is reloaded, dismissed or lost, unless requests for an order overlap or `payment.failed` closes an order that can still be paid; success is shown for what was captured and recorded; a spinner waits for something. What is quoted is charged, the bill's formula comes to its balance, an extension charges the added nights at the booked rate |
| `stay_races` | `CheckedInHasRoom` | 2 reservations, 2 rooms, 3 assignments, 1 task, 2 requests, days 0..1 | whatever overlaps, a checked-in guest has a room |
| `stay_serial` | `SharedOnlyByExtension`, `OfferedExtensionFits`, `EndsAreFinal` | 2 reservations, 2 rooms, 3 assignments, 1 extension, rooms out of order, 1 request, days 0..2 | one handler at a time: rooms are shared only through an approved extension, an offered one fits, what has ended or been decided stays so |
| `sessions_tab` | `RotatedIsRevoked`, `StaysSignedIn`, `WaitEnds`; `GuessesAreLimitedUnhurried`, `ResetIsFinalUnhurried`; `MaskNeverSaved`, `OwnWorkKept` | 1 tab, 2 calls, 3 sessions; 2 handlers, 2 reset links, lock at 2 wrong passwords, 5 counted; 2 members, 3 roles (all, none, looks only), 2 changes | sharing one refresh keeps the member signed in, unless an answer is lost or a refresh breaks off at an error, and every waiting call goes on; without overlaps guesses are limited and a reset is final; a save erases nothing that was masked and undoes nothing of the member's own |
| `console_live` | `NeverDeaf`, `DeadClientDropped`, `HeardAgain`, `WrittenIsShown`, `HeardIsShown` | 2 sockets, 2 tokens, 8 pages of different kinds, 2 writes, fair | the channel comes back after every loss, restart and expired token; the heartbeat ends every dead connection; a polling page shows every write, a listening one every announced write it could hear |
| `backoffice` | `EveryStayOnItsNights`, `ChartsAgree`, `CountedAlike`; `ChangesStand`, `OneTabKeepsItsWork` | 2 reservations or one and an enquiry, 2 rooms, 2 room types one of which may be hidden, dates 0..2, a day in halves, 3 kinds of booking, a server at UTC and half a day west and east of it. 2 tabs, 2 handler calls, 3 rows | reports count a stay on its nights and add up; dashboard and calendar miss nobody the report counts, and agree with it at UTC; a deleted offer stays hidden, the last save stands, one tab undoes nothing of its own |
| `booking_NeverOverbooked` | the property of that name | two competing requests | violated: see [Counterexamples](#counterexamples) |

The runs check what relates several pieces of state. The type invariants are theorems, as are
`DepartureLeavesTask`, `LiveConnectionKept` and the two parts of `EndsAreFinal`; the
configurations of the counterexamples name those of the large modules, so that TLC can
check them too.

**Why these bounds.** A race needs two parties, so two requests, tabs, handlers or
members (and, for bookings, a sweep as a third party). The last room is one unit;
an extension needs a second night; counting per range against counting per night differs
from two nights on, with three claims `[0,1)`, `[1,2)`, `[0,2)` over two units. Batches of one leave something for the
next sweep; a clock of two ticks has a time before, at and after an expiry, and time
for one refresh. Two orders are the least that can be open together, and amounts 2 and
3 (1 and 2 in the largest run) tell paid, due, extended and over-credited apart. Three
assignments let two stays be assigned and one of them moved. Three sessions are a
sign-in and two rotations, the second of which presents a token the first made. A lock
at two wrong passwords has a count before, at and past it. Two sockets are a connection
and its successor, two tokens the new and the expired. Three days have stays that
overlap a range at its start, at its end and all over it; bookings of one and of two
rooms tell stays from rooms. Two changes are a member's save and what another does
between its read and its write. A tax of 12.5 % needs the decimal the bill prints, one
above 100 % is the setting the code refuses.
`MaxHolds`, `MaxReservations`, `Payments`, `Assignments`, `Tasks`, `Extensions`,
`MaxSessions`, `MaxTime`, `LastNight`, `LastDay`, `MaxQuantity`, `Links`, `MaxCount`,
`MaxChanges`, `MaxWrites`, `LastNow`, `MaxRows`, `Units`, `MaxBegun` are bounds and nothing
else; in `Payments` and `Sessions`, where a handler that has begun must not be cut off,
`RowsLeft` keeps a row for each. `Within` (`MCCheckout`) makes a behaviour of the pages one
of four scenes: a second tab, an extension, declined attempts, refunds; captures
that fail, go unreported or arrive too late are in the second, a booking that lapses in the
second and the third.
`EarlySets`, `LateHides`, `LateRefunds` and `Elsewhere` (`MCBackOffice`) let staff set a
room's status before the first booking only, hide a room type once guests stay, pay back
at the end and at UTC, and leave enquiries and room types to the server at UTC: the
properties do not ask when any of these came. Half a day is the least unit that tells a
local midnight from UTC's, and what the figures do with one half they do with every other
fraction: a server's day then meets two dates. A behaviour of `Console` follows either the
account and the network or a page. Symmetry is used in runs that check no liveness.

## Fairness

- `Booking!FairSpec`: the clock and each statement of each sweep. `setInterval` in
  `holdExpiry.ts` keeps firing and catches errors. No handler is fair: nobody has to
  book, pay or cancel.
- `Payments!FairSpec`: strong fairness of the delivery of `payment.captured` while it is
  accepted and has not been answered 2xx (`settled`): Razorpay retries until then and no
  longer, and `webhooks.ts:66-70` answers 200 also when the capture failed
  (`CaptureFails`). Strong fairness of the capture step, which a restart or an error may
  interrupt but not every time it is tried; weak fairness of the later steps of the
  handlers that would otherwise keep a request slot for ever. Failed and refunded
  webhooks, the guest and the staff are not fair.
- `Sessions!Fairness` (in `MCSessions!MCSpec`): a tab handles the answers it gets, the
  statements of a refresh that was sent run, and its fetch settles, if only by an error
  (`RefreshFailed`). That a statement fails (`RefreshBreaks`) is not fair.
- `Console!FairSpec`: callbacks that are due run (`CloseEvent`, `TimerFires`, `Mount`, the
  heartbeat's interval, the pages' poll, the emission after a commit); an upgrade
  succeeds and a request is answered in the end if they are tried again and again
  (strong fairness: the code retries both by a timer). Losses, restarts, writes,
  navigation and sign-out are not fair.
- `Stay`, `Availability`, `Checkout`, `Tariff`, `Accounts`, `Guests`, `Figures` and
  `Catalogue` claim no liveness.

## What is proved

Every safety invariant and every action property that a run checks is a theorem, for every
value of the constants that satisfies the module's named assumptions: bounds are
naturals, a hold lasts at least one tick, tables (`Payments`, `Reservations`, `Rooms`,
`Units`) are finite, sentinels are not members, prices are positive, an extended stay
costs at least what the booked one did, an account is locked at a count of one or more.
TLC evaluates them in every run.

**Booking_proofs**
- `TypeCorrect`; `GrantsAlwaysFit`, `OnlyUnbackedOversell`, `ConvertedHoldNotCounted`,
  `PaidBookingsKept` for the properties of `booking_races`; `BookingImplementsLedger`:
  every behaviour of `Booking` is one of `Ledger`, under the refinement that reads
  `load[n]` as the rooms of the backed claims on night `n`.
- `GrantsFit` is not inductive by its sum: one needs to know that every backed claim is
  in force on the nights it was granted (so that `createHold`, which counts what is in
  force, counts it; an extension may only take nights from it) and that a
  backed reservation comes from one hold only. The invariant adds `BackedInForce`; the
  step lemmas show, action by action, that the load of each night grows only in
  `CreateHold`, where the count over the whole range bounds the count on each night
  (monotonicity of the sum over finite sets), and that converting a hold moves its load.
- `NewHoldsFit` needs no invariant beyond types: whatever is on a night, it is part of what
  `createHold` counts over the whole stay (`UnitsMonotone`), and the new hold adds its own
  rooms and no more (`NewHoldFits`).

- `SearchTypeCorrect` and `OffersAreCovered` of `Availability`: what overlaps a night of the
  stay overlaps the stay, so a sum over the stay bounds the sum on each of its nights, for
  any number of units, nights and reservations.

**Payments_proofs**
- `TypeCorrect`: amounts written from stale reads stay within `0..ExtendedTotal`. Needs
  `WithinTotal`: an amount read into a request is bounded as the row was.
- `RecordedIsCaptured`, `ConfirmedIsCaptured`: need `CapturesAreReal`, that a capture or a
  refund in flight is of an order the provider has captured, also after a restart.
- `AmountsAlwaysAddUp`, for one handler at a time, any number of orders and any amounts:
  what the handler read of the reservation is still there when it writes
  (`ReadIsCurrent`), since the statements that run beside it – webhooks of failed and
  refunded payments, the sweep, a cancellation – write no amount.

**Stay_proofs.** `TypeCorrect`; `GuestsHaveRooms`: a checked-in guest has an active
assignment, because a check-in in flight found one (`RoomsFound`) and a room once
assigned is exchanged by a move, never taken away; `DeparturesAreCleaned`: a check-out
in flight that looked found the room, so the branch without a task is dead
(`GuestInv`). For one handler at a time – with room statuses set and restarts between its
statements – `EndedStayStaysEnded` and `DecisionsAreFinal` (together `EndsAlwaysFinal`),
`OffersFit` and `OnlyExtensionsShare`, for any number of stays, rooms and rows. What makes them inductive is
that what the handler read or found still stands (`ReadsStand`): a status, an undecided
extension, the end of a stay, a room that is apart from every other stay. Two stays then
come to share a room neither by an assignment nor by a move (`NewRoomIsApart`), and a date
changes only for a stay whose extension is approved for good (`DatesKept`,
`ExtendedStays`). The assumption is the point: with two handlers each of the four fails (see
the counterexamples).

**Sessions_proofs.** `TypeCorrect`; `ChainsHaveOneLiveEnd`: a session and the one it was
rotated from are never both live. Needs `InsertsAfterRevoke` – a refresh about to insert
has revoked what it presents – and that what a refresh presents is a row
(`Presents`); nothing makes a revoked row live again. `OneTabStaysSignedIn`, for any number of
calls of one tab: as long as no answer is lost and no refresh breaks off at an error, at most
one refresh is in flight
(`OneRefresh`), it never meets a token that was used twice (`RefreshSound`), and the cookie is
of a live session or of one that this refresh is replacing (`CookieSound`), also when the
member signs in or out meanwhile (`SignInSound`).

*Accounts.* `AccountsTypeCorrect` for any interleaving (an account is locked only
while its count says so); `GuessesLimited` and `ResetFinal` for behaviours in which no
two handlers were in flight at once. What makes these inductive is `Current`: alone, a
handler writes from what is still so. Then wrong passwords never exceed the count
(`Counted`) and every live session was opened with the row's password (`Reset`).

*Guests.* `GuestsTypeCorrect`; `MaskIsNeverSaved` and `OwnWorkIsKept` for any roles a
resort defines: a profile on a page is whole exactly if its member may edit (`Whole`), and a
whole profile nobody has meddled with is the row but for the column that is being saved
(`Fresh`).

**Console_proofs.** `TypeCorrect`; `ReconnectionIsArmed`: a tab that opened its channel and is
signed in has a socket or a running timer – needs that only a tab that is leaving has lost
its token with the channel open, and gets none before it has closed it (`SignedInInv`);
`HeartbeatSparesTheLiving`: of a live connection the server's flag is down only while a
ping is unanswered (`HeartbeatInv`), for any number of sockets.

**Sums.** What `SumFunctionOnSet` of the community modules yields for every finite set: one more
element adds its value (`SumAdd`), in whatever order the definition happens to take them;
sums of sums, of parts, of smaller values; by group and then over the groups
(`SumByKey`); and the days of each reservation are the reservations of each day
(`SumCounts`). The induction theorems of the library take a predicate as a parameter; these
lemmas rest on one whose parameter is a set (`FiniteInduction`: a set of sets that holds
the empty one and is closed under one more element holds them all), which follows from
the well-foundedness of the strict subset ordering. The recursion of the definition itself
is shown to have a solution (`SumExists`) and one only (`IterUnique`).

**Checkout_proofs**
- `CheckoutIsPayments`: every behaviour of the guest's tabs is one of `Payments`. A step of
  a tab is a statement of one of its handlers, the guest's payment, or nothing at all to
  the server (`ServerSteps`), so every theorem about `Payments` holds below any number of
  tabs.
- `CheckoutTypeCorrect`, `PagesAreTrue`: per tab, `PageOK` relates what the page shows to the
  request in its slot and to the rows: a verification that has been answered is of a
  captured and recorded payment, a spinner has its call or its widget. `payment.failed` or a
  refund may change the status of that row afterwards; that a capture of it was recorded
  (`providerPaymentId`) no step takes back.
- `CreditIsReal`: that `amountPaid` is at most what was captured is not inductive, since a
  capture writes the sum of what it had read and of its order. `CreditOK` bounds both the
  row and every such read by `Credited`, the sum over the rows of which a capture was
  recorded: each adds its amount once, when it is recorded, unless it is recorded anew
  (`again`: after `payment.failed` or a refund changed its status), which the property
  excepts; and what was recorded was captured (`RecordedIsCaptured`).
- `GuestIsChargedOnce`: as long as no two requests overlapped that must not (`raced`), no
  open order was declined, nothing refunded or recorded anew, one
  order at most is open, it fits into what is due, the credit is exactly the sum, and what
  handlers have read is still so (`Calm`). Two webhooks or a webhook and a verification may
  overlap: the later one finds the row CAPTURED and writes nothing.
- `BillsAddUp`, `QuotesStand`, `ExtensionsChargeAddedNights`, `TariffTypeCorrect`, for any
  prices, taxes, nights and rooms. Rounding is used through two inequalities only
  (`RoundedIs`): half a paisa at most in either direction; that the bill's formula
  comes to the balance, with a percentage of its own rounded first, is then linear arithmetic.
  The amounts of an order in `Payments` are not those of `Tariff`: the two models are
  not composed.

**BackOffice_proofs**
- `StaffChangesStand`: `OffersOK` – the offer is deleted once it was removed; without overlaps
  one call is in flight, and the room types are empty exactly between its two statements –
  and `CoversOK`, which says the same of the cover photo.
- `OneTabUndoesNothing`: a tab that works alone has one save in flight, and between saves its
  list and its open dialog are the row (`AloneOK`); so what a save sends differs from the
  row in one value.
- `CatalogueTypeCorrect`: the types of each of the seven sections are an invariant of their own,
  and a new row gets an id that is free as long as there are fewer rows than ids.
- `FiguresTypeCorrect` and, from the invariant of the tables alone (`RowsOK`: nights in order,
  no more paid than is to pay), what the figures compute from any such tables:
  `StaysOnTheirNights` by counting twice, over the types that are active, `ChartsAddUp` by
  grouping, and `CountsAgree`: a day that starts within half a day of UTC's meets every stay
  of its night (`LocalMidnights`, `NightIsMet`). The three count over any number of
  reservations, rooms, types and days, in each of the three time zones.

## What is only model-checked

Liveness: `UnpaidReservationResolved`, `ExpiredHoldSwept`, `FreshCaptureIsRecorded`, `WaitEnds`,
`DeadClientDropped`, `HeardAgain`, `WrittenIsShown`, `HeardIsShown`. TLAPS does not reason
about fairness and `ENABLED` here.

## Counterexamples

One disagreement between the code and its documents is a run of its own:

| Run | What happens |
| --- | --- |
| `booking_NeverOverbooked` | `createFromHold` checks the hold, then prices the stay, then inserts the reservation without looking again. The hold lapses in between, another guest gets the room, and both stays claim it. `refreshHold` on a hold past its expiry, a capture of a lapsed reservation and an extension, which counts no inventory, end the same way. `backend-spec.md:2232`: "exactly one succeeds". |

The others are stated in the modules under *Claims … that the code does not keep*. A
configuration lists those of a module, one enabled and the others as comments, with the
constants that one needs beside it; TLC prints the behaviour (for example
`tlc -config MCStay_claims.cfg MCStay`):

| Claims of | Configuration |
| --- | --- |
| `Booking`, `Payments`, `Stay`, `Console` | `MCBooking_claims.cfg`, `MCPayments_claims.cfg`, `MCStay_claims.cfg`, `MCConsole_claims.cfg` |
| `Availability` | `MCAvailability_claims.cfg` |
| `Sessions`, `Accounts`, `Guests` | `MCSessions_claims.cfg`, `MCSessions_accounts.cfg`, `MCSessions_guests.cfg` |
| `Checkout`, `Tariff` | `MCCheckout_claims.cfg`, `MCCheckout_tariff.cfg` |
| `Figures`, `Catalogue` | `MCBackOffice_figures.cfg`, `MCBackOffice_catalogue.cfg` |

**Bookings, search, payments, front desk**

| Property | Code | What happens |
| --- | --- | --- |
| `HoldConvertedOnce` | `reservationService.ts:172` | a booking request sent twice makes two reservations of one hold |
| `SweepExpiresOnlyDueHolds` | `reservationHoldService.ts:153` | a hold refreshed, released or converted after the sweep found it becomes EXPIRED |
| `OneHoldPerSearch` | `reservationHoldService.ts:25` | a search repeated quickly leaves two holds |
| `LapsedStaysLapsed` | `paymentService.ts:271` | a capture that read PENDING_PAYMENT confirms a reservation that has expired or been cancelled since |
| `OfferCanBeHeld` | `availabilityService.ts:70` | a search offers the room another guest holds |
| `HoldOnlyWhatIsOffered` | `reservationHoldService.ts:84` | a hold is granted though every room is out of order |
| `PaidNeverExceedsCaptured` (`MCPayments`, declined attempts) | `paymentService.ts:253` | `payment.failed` of an earlier attempt, delivered after the capture, sets the payment FAILED; the next verify or `payment.captured` credits it again ("Idempotent") |
| `AmountsAddUp` (two requests) | `paymentService.ts:272` | a capture and an extension overwrite each other's amounts |
| `ChargedOnceWithoutRaces` (`MCCheckout`) | `paymentService.ts:400` | `payment.failed` of a declined attempt closes an order that can still be paid; the next order request finds none open and makes a second one, and both are paid |
| `OneOpenOrder` | `paymentService.ts:103` | two order requests both find none and both create one |
| `PaidReservationIsConfirmed` | `paymentService.ts:271` | an EXPIRED reservation is paid, credited and stays EXPIRED |
| `RefundReducesPaid` | `paymentService.ts:478` | a refund writes back an amount that another refund or a capture has changed |
| `RefundedNotCreditedAgain` | `paymentService.ts:255` | a repeated `payment.captured` credits a refunded payment again |
| `CapturedIsRecorded` | `webhooks.ts:38` | an event first delivered after five minutes is refused for ever |
| `NoRoomShared` | `reservationService.ts:468` | two `assignRoom` calls both find the room free and both insert (`backend-spec.md:1219`: a serialised transaction) |
| `NoRoomShared` (an extension, one request) | `reservationService.ts:802` | an extension is approved into another stay's nights |
| `EndedStaysEnded` (two requests) | `reservationService.ts:595` | a check-in that read CONFIRMED revives a cancelled stay |
| `ExtensionDecidedOnce` (two requests) | `reservationService.ts:814` | an approval and a rejection are both carried out |
| `ExtensionNeverShortens` | `reservationService.ts:805` | extensions approved in the wrong order leave the shorter one |
| `OneUndecidedExtension` | `reservationService.ts:754` | a second extension while the first is undecided |
| `ReadyOnlyWithoutGuest` | `adminController.ts:887` | finishing a late task declares an occupied room READY |
| `GuestRoomOccupied` | `reservationService.ts:536` | a guest moved after check-in lives in a room that is READY |

**The guest's pages**

| Property | Claim | What happens |
| --- | --- | --- |
| `ConfirmedMeansConfirmed` | "Booking Confirmed 🎉", confirmation page | the heading is shown for any status, also for an EXPIRED reservation that was just paid |
| `LoadFailureIsShown` | "We couldn't load your payment", pay page | an error before the config is answered leaves the skeleton for ever, which is tested first |
| `SuccessIsCaptured` | "Payment received", pay page | a late `payment.failed` sets the row FAILED under the page that shows the success |
| `DismissKeepsVerifying` | `ondismiss`, pay page:151 | the closure sees the step of the render that opened the widget; a page that is verifying goes back to "ready" |
| `AskedIsShown` | "Pay …" on the button | after an extension the open order of the old amount is used again |
| `ChargedOnce` | "reuse it instead of creating a new Razorpay order", `paymentService.ts:101` | two order requests at once, or an extension priced during a capture, charge more than the stay costs |
| `TotalPayable` | "Total payable", details page | the page computes 12 % whatever the setting says |
| `BillsAgree` | "can never disagree", pay page | the two bills round the percentage to no and to one decimal |
| `MathIsExact` | "the math shown below is exact", `BillFormula.tsx` | not at 12.25 % |
| `TotalForTheSearch` | "Total for n nights", results page | is that of one room |
| `EstimateIsTotal` | "estimated", staff's form | leaves the tax out |
| `HoldSubtotalCoversNights` | the hold's answer | its subtotal is that of one night, its total that of all |

**Staff**

| Property | Claim | What happens |
| --- | --- | --- |
| `OneSuccessor` | `tokenService.ts:109` | two tabs refresh one token and both get a session |
| `LogoutEndsFamily` | `tokenService.ts:126` | a sign-out beside a refresh leaves the refreshed session live |
| `GuessesAreLimited` | lockout after 5, `backend-spec.md:2108` | a slow wrong attempt writes the lower count it read and `lockedUntil: null`, a right one read before the lock clears it |
| `LinkWorksOnce` | "single-use", `backend-spec.md:2110` | a link confirmed twice at once sets two passwords |
| `ResetEndsEverySession` | "Force re-auth everywhere", `authService.ts:201` | a sign-in or rotation that read before the reset inserts its session after it |
| `NameNeverBlank` | `min(1)`, `guestsController.ts:159` | a name of markup passes and is sanitised to nothing; every later save with it is refused |
| `MaskNeverErases` | "Strip sensitive internal fields", `guestsController.ts:126` | a member whose role gains `GUEST_EDIT` between the read and the save stores the masked nulls |
| `BookingKept` | – | a save undoes what a booking wrote since the page was opened |
| `LogoutCloses` | "auto-closes on logout", `useRealtime.ts:16` | a replaced socket whose close event was late left its successor open and forgotten; sign-out closes only the one the tab remembers |
| `OneChannel` | "already connected", `realtime.ts:19` | `connectRealtime` sets `lastToken`, then `disconnectRealtime` clears it: the guard never holds, and a replaced socket's close event forgets its successor |
| `LiveBoard` | "Live status of every physical room" | finishing a cleaning task emits nothing |
| `BoardComesBack` | – | the housekeeping page never clears its error |
| `NewerStays` | – | an older answer that arrives later replaces a newer one |

**Figures and catalogue**

| Property | Claim | What happens |
| --- | --- | --- |
| `CancelledIsNoRevenue` | `reportsService.ts:162` | the summary's total counts cancelled stays |
| `PercentagesAreShares` | "0..100", `reportsService.ts:34` | more stays than rooms give more than 100 % |
| `DepartureDayIsFree` | "does NOT occupy the room on 2024-01-15", `reportsService.ts:5` | the dashboard's day starts at the server's midnight, stays at UTC's: east of UTC a guest is counted on the day of departure, west of it on the eve of arrival; the calendar counts the day of departure in both |
| `RoomsOfABookingCounted` | – | the report counts a booking of two rooms once, the dashboard twice |
| `NetRevenueIsWhatWasPaid` | "collected − refunded" | what was refunded is subtracted from an amount it has already been subtracted from |
| `CleaningIsCleaning` | a label of the dashboard | the queries for DIRTY and CLEANING are swapped: the tile counts the dirty rooms |
| `RingAddsUp` | the ring of room statuses | stays are its occupied part and rooms its maintenance part: a room out of order under a stay is counted in both |
| `PendingIsCounted` | "pending" | counts PENDING, which nothing writes, not PENDING_PAYMENT |
| `ArrivalsAreCounted` | "Today's Arrivals" | the tile counts the rows of the card, which stops at eight |
| `InHouseIsShown` | – | a guest who overstays is in no list |
| `FunnelShowsAll` | the funnel's total | two statuses have no bar |
| `BlockOnItsNights`, `DayViewShowsGuests`, `CalendarAsksItsWeek` | "Live view of bookings across rooms and dates" | east of Greenwich the page asks for the day before; every block is drawn over the whole range, since its dates are parsed as invalid, and over none in the day view |
| `OneCover` | "Reset other covers", `configController.ts:98` | two uploads at once leave two covers |
| `RetractedStaysHidden`, `OneTabKeepsItsClicks` | "Only approved reviews are shown publicly" | a click on a stale row publishes a retracted review, and undoes the same tab's earlier click |
| `RoomTypesOfOneSave` | "Replace room type associations", `configController.ts:318` | two saves at once leave the types of both |
| `SettingsKept` | – | saving one setting writes back the others as they were read |
| `ClearedIsCleared` | "Edit … room details" | a text that is emptied keeps its old value |
| `OfferAppears`, `GalleryListsImages` | "Appear on the public offers page" | the public pages are hard-coded |

Further observations made while reading, which no property states: `confirmReservation`
asks for a status nothing writes, so the console's "Confirm" never shows, and its pending
state for check-in compares two different labels; the shell that is opened while `/me`
fails opens no channel until the next navigation; writes to tasks, extensions, payments and
enquiries emit no event; the report by room type leaves out the stays of types that were
hidden since, the report by day counts them; seasonal rates and offers' discounts never enter a price; the
photo strip never sends `isCover`; a review's `title` is edited and not stored; the public
reviews section shows only those from Google; a deleted offer's slug stays taken; a CSV is
named by the range on the page and holds the data of the range before; a reused hold
keeps the old rate while the page shows the new one. Of the roles, HOUSEKEEPING has neither
`ROOM_EDIT` nor `REPORT_VIEW`, which its board and dashboard ask for; MARKETING's
`RATE_PLAN_EDIT` is asked for nowhere; no route edits the tables, though
`roles.ts:1` says an owner can; `requirePermission` looks at the first of
several keys only; the owner's list of permissions is empty, so that `canSeeRevenue` of a
guest's profile is false for the owner.

## Abstractions

- Consecutive reads of one handler that only its own later step uses, with nothing
  decided in between, are one step (`createFromHold`'s reads, `verifyAndCapture`'s,
  the three queries of a search, `isPhysicalRoomAvailable`).
- A failed or abandoned request changes nothing further, so it is a behaviour in which
  its next step is never taken; a restart forgets `request`.
- Nights, days and amounts are small naturals; ranges are half-open as in the code.
  Guests, references, receipts, audit rows, e-mails and messages are left out: no
  modelled control reads them. Prices and taxes are in `Tariff` only, events in
  `Console` only.
- `totalUnits` is a constant, though `updateRoomType` may lower it below what is
  claimed. Nothing in the program creates a `MaintenanceRecord`, so none is modelled.
- `ExtendedTotal >= Total`: with unchanged rates a longer stay costs no less; an
  extension is modelled by what it makes the stay cost, and `decideExtension`'s price
  is the same each time. How much that is, is `Tariff`.
- `Booking`, `Payments` and `Stay` each see the same reservation through the columns
  their part writes; what the others do to those columns is an action of the module too
  (`Capture`, `Cancel`, `CheckIn`, `CheckOut` and `Extend` in `Booking`, `Expire` and `Cancel`
  in `Payments`, `Cancel` in `Stay`). `createFromHold` can also make a reservation CONFIRMED at
  once, for a member of staff (`createdById`); no route passes it one, so it is left out.
- A signature is reduced to what it proves: the provider captured the order.
- `Checkout` has one hold and one reservation and a slot of `Requests` for each tab. Of the
  form's fields only that it is sent.
- `Tariff` computes exactly in whole paise, the code in floating point rounded to paise. An
  extension asks for more nights than were booked; one that was asked for before a longer one
  was approved shortens the stay when it is approved.
- `Sessions` signs in with the right password; wrong ones, the lock and resets are in
  `Accounts`, whose sessions are the password they were opened with. `Realtime` renews a
  token in one step; how is `Sessions`.
- `Console` numbers the states of the database; what a page does with the data beside
  showing it is left out. `Guests` edits and saves in one step, as nothing changes the
  page in between, and keeps three columns: one that is required and two that are masked.
- `Figures` takes a report, a summary or a calendar as one reading, since no later
  statement of theirs decides anything. Time is counted in half days and the server's clock
  is at UTC or half a day off; the clock does not change with the season. In `Catalogue` a
  row has the two columns by which a save that mixes two versions shows.

## What is not modelled

- Notifications: the rows the handlers insert and staff mark read or delete one by one;
  the bell's counting of them is a page of `Console`. The assignee of an enquiry. The
  list, the export and the counters of guests.
- Roles other than for a guest's profile: `requirePermission` is a pure function of one
  request, and the tables are static. CSRF and validation likewise. Rate limits: counters
  inside a library.
- E-mail and WhatsApp: output nobody waits for. Pages other than those named:
  presentation. The seed: initial data of a demo installation.
- Dead code: `countAvailable`, `markHoldConverted`, `confirmReservation` (above) and the
  second `createOffer` in `adminController.ts`.

## Plan

1. **Composition** of `Booking`, `Payments` and `Stay` over one reservation row, with the
   abstract life cycle of a stay as the specification it implements; an abstract ledger
   of credits for `Payments`.
2. **Proofs**: the ledger of credits of `Payments` as an abstract specification that
   `Checkout` implements; of the liveness properties, the invariants they rest on (a sweep
   that is due finds the row, a waiting call is woken by the refresh in flight).
3. `updateRoomType` lowering `totalUnits` beside `Booking`.
