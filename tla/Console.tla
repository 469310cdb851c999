-------------------------------- MODULE Console --------------------------------
(***************************************************************************)
(* A page of the admin console and the data it shows: it asks the server   *)
(* when it is opened, when an event it listens for comes over the live     *)
(* channel (Realtime.tla), and some pages also by the clock.               *)
(*                                                                         *)
(* Data are version numbers: every write that changes what the page shows  *)
(* makes the next version.  Requests are answered in any order.  A write   *)
(* commits first and its events are emitted by a later step.               *)
(***************************************************************************)
EXTENDS Realtime

CONSTANTS
    Pages,      \* the pages that this instance looks at
    MaxWrites   \* bound: writes that change what the page shows

ASSUME PagesAssumption == "shell" \notin Pages /\ MaxWrites \in Nat

Nothing == "nothing"

VARIABLES
    page,      \* which page the tab shows ("shell": one without live data)
    version,   \* the newest data in the database
    emitting,  \* the write whose events have still to be emitted
    asked,     \* TRUE while a request has not been read from the database
    answers,   \* versions in answers that have still to arrive
    shown,     \* the version on the page (0: nothing yet)
    error      \* TRUE while the page's error state is set

pageVars == <<page, version, emitting, asked, answers, shown, error>>
vars == <<rtVars, pageVars>>

-------------------------------------------------------------------------------
(* Who writes, what is emitted, who listens                                *)

\* What the services and controllers emit once a write is committed.
EventsOf ==
    [book |-> {"BOOKING_CREATED"}, modify |-> {"BOOKING_UPDATED"},
     expire |-> {"BOOKING_UPDATED"}, cancel |-> {"BOOKING_CANCELLED"},
     assign |-> {"ROOM_ASSIGNED"}, move |-> {"ROOM_MOVED"},
     checkIn |-> {"BOOKING_CHECKED_IN", "ROOM_STATUS_CHANGED"},
     checkOut |-> {"BOOKING_CHECKED_OUT", "HOUSEKEEPING_TASK_CREATED",
                   "ROOM_STATUS_CHANGED"},
     roomStatus |-> {"ROOM_STATUS_CHANGED"},
     task |-> {}, pay |-> {}, extend |-> {}, enquire |-> {}, staff |-> {},
     edit |-> {}]
Operations == DOMAIN EventsOf

StayChanges == {"book", "modify", "expire", "cancel", "checkIn", "checkOut", "pay", "extend"}
RoomChanges == {"assign", "move", "checkIn", "checkOut", "roomStatus", "task"}

BookingEvents ==
    {"BOOKING_CREATED", "BOOKING_UPDATED", "BOOKING_CANCELLED",
     "BOOKING_CHECKED_IN", "BOOKING_CHECKED_OUT", "BOOKING_EXTENDED"}

\* A page: the operations that change what it has read, the events that make it
\* ask again, whether it asks by the clock, whether it takes over its own write
\* from the answer (or else asks again), whether it forgets an error when it is
\* next answered, and whether the error takes the place of the data.
PlainPage(shows) ==
    [shows |-> shows, listens |-> {}, polls |-> FALSE,
     patches |-> FALSE, forgets |-> TRUE, hides |-> FALSE]

Dashboard ==
    [PlainPage(StayChanges \cup RoomChanges \cup {"enquire"}) EXCEPT
        !.listens = BookingEvents \cup {"PAYMENT_CAPTURED", "ROOM_STATUS_CHANGED",
                        "ROOM_ASSIGNED", "ROOM_MOVED", "ENQUIRY_CREATED"},
        !.polls = TRUE]

Calendar == [PlainPage(StayChanges \cup RoomChanges) EXCEPT !.polls = TRUE]

\* Its events are never emitted; it keeps silent about errors.
Bell ==
    [PlainPage({"book", "cancel", "pay"}) EXCEPT
        !.listens = {"NOTIFICATION_CREATED"}, !.polls = TRUE]

Bookings == [PlainPage(StayChanges) EXCEPT !.listens = BookingEvents]

\* It compares data.id and data.reservation.id with its own; the events of rooms
\* name the reservation elsewhere.
BookingDetail ==
    [PlainPage((StayChanges \ {"book"}) \cup RoomChanges) EXCEPT
        !.listens = BookingEvents, !.hides = TRUE]

Rooms ==
    [PlainPage(RoomChanges) EXCEPT
        !.listens = {"ROOM_STATUS_CHANGED", "ROOM_ASSIGNED", "ROOM_MOVED"},
        !.patches = TRUE, !.forgets = FALSE]

Housekeeping ==
    [PlainPage(RoomChanges \ {"assign"}) EXCEPT
        !.listens = {"HOUSEKEEPING_TASK_CREATED", "HOUSEKEEPING_TASK_UPDATED",
                     "ROOM_STATUS_CHANGED"},
        !.forgets = FALSE, !.hides = TRUE]

Enquiries ==
    [PlainPage({"enquire"}) EXCEPT
        !.listens = {"ENQUIRY_CREATED", "ENQUIRY_UPDATED"},
        !.patches = TRUE, !.forgets = FALSE]

\* It subscribes and does nothing with the events.
Staff == [PlainPage({"staff"}) EXCEPT !.patches = TRUE, !.forgets = FALSE]

\* Pages without events: they ask when opened and after their own writes.
Reviews == PlainPage({"edit"})
Guests == PlainPage({"edit"})
GuestDetail == [PlainPage({"edit"}) EXCEPT !.hides = TRUE]
Pricing == [PlainPage({"edit"}) EXCEPT !.forgets = FALSE]
Offers == [PlainPage({"edit"}) EXCEPT !.forgets = FALSE]
Gallery == [PlainPage({"edit"}) EXCEPT !.forgets = FALSE]
Reports == PlainPage(StayChanges)

\* The form is the page's copy: what it saves it shows, and it asks only once.
Content == [PlainPage({"edit"}) EXCEPT !.patches = TRUE, !.forgets = FALSE]
SettingsForm == [PlainPage({"edit"}) EXCEPT !.patches = TRUE, !.forgets = FALSE]

PageOf ==
    [dashboard |-> Dashboard, calendar |-> Calendar, bell |-> Bell,
     bookings |-> Bookings, bookingDetail |-> BookingDetail, rooms |-> Rooms,
     housekeeping |-> Housekeeping, enquiries |-> Enquiries, staff |-> Staff,
     reviews |-> Reviews, guests |-> Guests, guestDetail |-> GuestDetail,
     pricing |-> Pricing, offers |-> Offers, gallery |-> Gallery,
     reports |-> Reports, content |-> Content, settings |-> SettingsForm,
     shell |-> PlainPage({})]

Here == PageOf[page]

Hears(op) == EventsOf[op] \cap Here.listens # {}

Visible == ~(error /\ Here.hides)

-------------------------------------------------------------------------------
(* refresh, and what makes a page call it                                  *)

OnPage == page # "shell" /\ shell.page = "shown" /\ ~shell.leaving

\* A page has at most one unread request at a time: a second one would be read
\* later still.
Ask == asked' = TRUE

\* The database is read for the answer, after a renewal of the token if need be.
Read ==
    /\ asked
    /\ Usable(accessToken)
    /\ asked' = FALSE
    /\ answers' = answers \cup {version}
    /\ UNCHANGED <<rtVars, page, version, emitting, shown, error>>

\* The list is not taken from the answer.
MutantArrive(v) ==
    /\ v \in answers
    /\ answers' = answers \ {v}
    /\ error' = (error /\ ~Here.forgets)
    /\ UNCHANGED <<rtVars, page, version, emitting, asked, shown>>

Arrive(v) ==
    /\ v \in answers
    /\ answers' = answers \ {v}
    /\ shown' = v
    /\ error' = (error /\ ~Here.forgets)
    /\ UNCHANGED <<rtVars, page, version, emitting, asked>>

\* The bell keeps silent about its failures.
AskFails ==
    /\ asked
    /\ asked' = FALSE
    /\ error' = (page \notin {"bell", "gallery"})
    /\ UNCHANGED <<rtVars, page, version, emitting, answers, shown>>

\* setInterval; an error is forgotten by the calendar as it asks.
Poll ==
    /\ OnPage
    /\ Here.polls
    /\ ~asked
    /\ Ask
    /\ UNCHANGED <<rtVars, page, version, emitting, answers, shown, error>>

-------------------------------------------------------------------------------
(* Writes and events                                                       *)

\* Bound: the events of one write are emitted before the next write.
Commit(op) ==
    /\ version < MaxWrites + 1
    /\ emitting = Nothing
    /\ op \in Here.shows
    /\ version' = version + 1
    /\ emitting' = op

\* Somebody else's operation.
Write(op) ==
    /\ Commit(op)
    /\ UNCHANGED <<rtVars, page, asked, answers, shown, error>>

\* The page's own operation: its answer patches the list or makes the page ask.
OwnWrite(op) ==
    /\ OnPage
    /\ Commit(op)
    /\ IF Here.patches
       THEN answers' = answers \cup {version'} /\ UNCHANGED asked
       ELSE Ask /\ UNCHANGED answers
    /\ UNCHANGED <<rtVars, page, shown, error>>

\* Every socket that is up gets the events; a page hears them once or more.
MutantEmit ==
    /\ emitting # Nothing
    /\ emitting' = Nothing
    /\ UNCHANGED <<rtVars, page, version, asked, answers, shown, error>>

Emit ==
    /\ emitting # Nothing
    /\ IF Hearing /\ OnPage /\ Hears(emitting) THEN Ask ELSE UNCHANGED asked
    /\ emitting' = Nothing
    /\ UNCHANGED <<rtVars, page, version, answers, shown, error>>
-------------------------------------------------------------------------------
(* The pages on top of the channel                                         *)

\* Bound: a behaviour either follows the account and the network (sign-in, reloads,
\* navigation, expired tokens, lost links) with no page on show, or follows a page
\* of a tab that has opened its channel, stays on it, and loses the channel only
\* when the server restarts (one token and one socket for all).
FreshTab ==
    /\ RealtimeInit
    /\ page = "shell"

OpenedTab ==
    /\ page \in Pages
    /\ accessToken = CHOOSE t \in Tokens : TRUE
    /\ stale = {}
    /\ session = TRUE
    /\ shell = [AtLogin EXCEPT !.page = "shown"]
    /\ socket = CHOOSE s \in Sockets : TRUE
    /\ lastToken = NoToken
    /\ reconnectTimer = FALSE
    /\ started = TRUE
    /\ conn = [s \in Sockets |->
            IF s = socket
            THEN [NoConn EXCEPT !.client = "connecting", !.token = accessToken, !.link = TRUE]
            ELSE NoConn]

Init ==
    /\ FreshTab \/ OpenedTab
    /\ version = 1
    /\ emitting = Nothing
    /\ asked = (page # "shell")
    /\ answers = {}
    /\ shown = 0
    /\ error = FALSE

PageNext ==
    \/ Read
    \/ AskFails
    \/ Poll
    \/ Emit
    \/ \E v \in 1..(MaxWrites + 1) : Arrive(v)
    \/ \E op \in Operations : Write(op) \/ OwnWrite(op)

Next ==
    \/ ChannelNext /\ UNCHANGED pageVars
    \/ page = "shell" /\ (NetworkNext \/ AccountNext) /\ UNCHANGED pageVars
    \/ PageNext

Spec == Init /\ [][Next]_vars

\* Requests are read and answered, and do not fail for ever; where losses are
\* followed, they are found.
FairSpec ==
    /\ Spec
    /\ RealtimeFairness
    /\ \A s \in Sockets :
        /\ WF_vars(page = "shell" /\ Heartbeat(s) /\ UNCHANGED pageVars)
        /\ WF_vars(page = "shell" /\ Pong(s) /\ UNCHANGED pageVars)
        /\ WF_vars(page = "shell" /\ LossNoticed(s) /\ UNCHANGED pageVars)
    /\ SF_vars(Read)
    /\ WF_vars(Poll)
    /\ WF_vars(Emit)
    /\ \A v \in 1..(MaxWrites + 1) : WF_vars(Arrive(v))

-------------------------------------------------------------------------------
(* Properties                                                              *)

TypeOK ==
    /\ RealtimeTypeOK
    /\ page \in Pages \cup {"shell"}
    /\ version \in 1..(MaxWrites + 1)
    /\ emitting \in Operations \cup {Nothing}
    /\ asked \in BOOLEAN /\ error \in BOOLEAN
    /\ answers \subseteq 1..version
    /\ shown \in 0..version

\* A page that asks by the clock shows every write in the end, whichever events
\* were lost, never emitted or not listened for, and however many requests fail.
WrittenIsShown ==
    []<>(Here.polls /\ OnPage => shown = version)

\* A write whose event the page listens for is shown to a tab that hears it,
\* unless the request fails or the channel is lost meanwhile.
HeardIsShown ==
    \A v \in 2..(MaxWrites + 1) :
        emitting # Nothing /\ Hears(emitting) /\ version = v /\ Hearing
            ~> shown >= v \/ error \/ ~Hearing

-------------------------------------------------------------------------------
(* Claims of the user interface that the code does not keep                *)

\* "Live status of every physical room", "live from the floor".
LiveBoard ==
    \A v \in 2..(MaxWrites + 1) :
        page \in {"rooms", "housekeeping"} /\ version = v /\ Hearing
            ~> shown >= v \/ error \/ ~Hearing

\* One failed request does not take the board away for good.
BoardComesBack == ~Visible ~> Visible

\* What the page shows never goes back to an older state.
NewerStays == [][shown' >= shown]_vars
================================================================================
