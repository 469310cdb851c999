------------------------------- MODULE Realtime --------------------------------
(***************************************************************************)
(* The live channel of the admin console: one browser tab with the shell   *)
(* that opens and closes it (AdminShell.tsx), the client that reconnects   *)
(* (lib/realtime.ts) and the server that accepts sockets and drops dead    *)
(* ones (websocketServer.ts).                                              *)
(*                                                                         *)
(* A callback of the browser or of Node is one step.  Where a token comes  *)
(* from is Sessions.tla; here a refresh is one step that succeeds while    *)
(* the tab's session is good.  What the events are for is Console.tla.     *)
(*                                                                         *)
(* A definition whose name starts with "Mutant" is not part of the model:  *)
(* it is a plausible slip in the code that the definition below it models. *)
(***************************************************************************)
EXTENDS Naturals, FiniteSets

CONSTANTS
    Sockets,      \* bound: sockets the browser or the server still hold
    Tokens,       \* access tokens: the newest and those it replaced
    NoSocket,     \* null
    NoToken       \* null

ASSUME NullAssumption == NoSocket \notin Sockets /\ NoToken \notin Tokens

ASSUME NonEmptyAssumption == Sockets # {} /\ Tokens # {}

VARIABLES
    accessToken,     \* the tab's access token (api.ts)
    stale,           \* the tokens the server does not accept
    session,         \* TRUE while the refresh cookie would be honoured
    shell,           \* what AdminShell shows, and what it waits for
    socket,          \* the module variable of lib/realtime.ts
    lastToken,       \* the token it was opened with
    reconnectTimer,  \* TRUE while the timer of three seconds runs
    started,         \* history: opened with a token and not closed by the tab since
    conn             \* every socket as the browser and the server see it

tabVars == <<accessToken, stale, session, shell>>
clientVars == <<socket, lastToken, reconnectTimer, started>>
rtVars == <<tabVars, clientVars, conn>>

\* readyState at the browser ("closing" until the close event has run), whether
\* the server holds the socket, whether packets still pass, and the heartbeat:
\* alive is the server's flag, ping a ping that the browser has still to answer.
Conn ==
    [client: {"none", "connecting", "open", "closing"}, token: Tokens \cup {NoToken},
     server: BOOLEAN, link: BOOLEAN, alive: BOOLEAN, ping: BOOLEAN]
NoConn ==
    [client |-> "none", token |-> NoToken, server |-> FALSE,
     link |-> FALSE, alive |-> FALSE, ping |-> FALSE]

\* checking: fetchMe is under way; mounting: the page's effect has still to run;
\* leaving: handleLogout waits for the answer to the logout call.
Shell ==
    [page: {"login", "loading", "shown"},
     checking: BOOLEAN, mounting: BOOLEAN, leaving: BOOLEAN]
AtLogin ==
    [page |-> "login", checking |-> FALSE, mounting |-> FALSE, leaving |-> FALSE]

Usable(t) == t # NoToken /\ t \notin stale

\* External: the socket is up at both ends and packets pass.
Up(s) == conn[s].client = "open" /\ conn[s].server /\ conn[s].link
Hearing == \E s \in Sockets : Up(s)

-------------------------------------------------------------------------------
(* connectRealtime and disconnectRealtime                                  *)

\* Nothing more is sent or answered by the browser.
Ended(c) == [c EXCEPT !.client = "closing", !.token = NoToken, !.ping = FALSE]

\* socket.close(): the browser stops at once, the close event comes later.
Close(s) ==
    IF s # NoSocket /\ conn[s].client \in {"connecting", "open"}
    THEN [conn EXCEPT ![s] = Ended(@)]
    ELSE conn

Connected ==
    /\ socket # NoSocket
    /\ conn[socket].client \in {"connecting", "open"}
    /\ lastToken = accessToken

\* lastToken is set before disconnectRealtime, which sets it to null again.
\* token is the access token at the time of the call.
OpenSocket(token) ==
    \E s \in Sockets :
        /\ conn[s] = NoConn
        /\ conn' = [Close(socket) EXCEPT ![s] =
                        [NoConn EXCEPT !.client = "connecting",
                                       !.token = token, !.link = TRUE]]
        /\ socket' = s
        /\ lastToken' = NoToken
        /\ reconnectTimer' = FALSE
        /\ started' = TRUE

Connect(token) ==
    IF token = NoToken \/ Connected
    THEN UNCHANGED <<clientVars, conn>>
    ELSE OpenSocket(token)

Disconnect ==
    /\ conn' = Close(socket)
    /\ socket' = NoSocket
    /\ lastToken' = NoToken
    /\ reconnectTimer' = FALSE
    /\ started' = FALSE

\* The listener does not look whose close event it is: a socket that was
\* replaced makes the tab forget its successor.
Closed(s) == conn[s].client = "closing" /\ conn' = [conn EXCEPT
                ![s] = IF @.server THEN [@ EXCEPT !.client = "none"] ELSE NoConn]

\* The timer is not armed.
MutantCloseEvent(s) ==
    /\ Closed(s)
    /\ socket' = NoSocket
    /\ UNCHANGED <<tabVars, lastToken, reconnectTimer, started>>

CloseEvent(s) ==
    /\ Closed(s)
    /\ socket' = NoSocket
    /\ reconnectTimer' = (reconnectTimer \/ accessToken # NoToken)
    /\ UNCHANGED <<tabVars, lastToken, started>>

\* The callback clears reconnectTimer before it connects.
TimerFires ==
    /\ reconnectTimer
    /\ IF accessToken = NoToken
       THEN reconnectTimer' = FALSE /\ UNCHANGED <<socket, lastToken, started, conn>>
       ELSE OpenSocket(accessToken)
    /\ UNCHANGED tabVars

-------------------------------------------------------------------------------
(* The server: upgrade, heartbeat, close                                   *)

\* verifyAccessToken and the look for an ACTIVE member, in the end.
Upgrade(s) ==
    /\ conn[s].client = "connecting"
    /\ conn[s].link
    /\ Usable(conn[s].token)
    /\ conn' = [conn EXCEPT ![s] = [@ EXCEPT !.client = "open", !.token = NoToken,
                                             !.server = TRUE, !.alive = TRUE]]
    /\ UNCHANGED <<tabVars, clientVars>>

\* A request that is not accepted is left unanswered.
MutantRefuse(s) ==
    /\ conn[s].client = "connecting"
    /\ conn[s].link
    /\ ~Usable(conn[s].token)
    /\ UNCHANGED rtVars

Refuse(s) ==
    /\ conn[s].client = "connecting"
    /\ conn[s].link
    /\ ~Usable(conn[s].token)
    /\ conn' = [conn EXCEPT ![s] = Ended(@)]
    /\ UNCHANGED <<tabVars, clientVars>>

\* The server's record of a socket goes; the browser is told if packets pass.
Terminated(s) ==
    IF conn[s].client = "none" THEN NoConn
    ELSE [conn[s] EXCEPT !.server = FALSE, !.alive = FALSE, !.ping = FALSE,
                         !.client = IF conn[s].link THEN "closing" ELSE @]

\* Timing assumption: a ping is answered within the thirty seconds between two
\* ticks, if packets pass and the browser has not closed the socket.
RoundTripDone(s) == ~(Up(s) /\ conn[s].ping)

\* The flag is not cleared when the ping is sent.
MutantHeartbeat(s) ==
    /\ conn[s].server
    /\ RoundTripDone(s)
    /\ conn' = [conn EXCEPT ![s] =
            IF ~conn[s].alive THEN Terminated(s)
            ELSE [@ EXCEPT !.ping = Up(s)]]
    /\ UNCHANGED <<tabVars, clientVars>>

Heartbeat(s) ==
    /\ conn[s].server
    /\ RoundTripDone(s)
    /\ conn' = [conn EXCEPT ![s] =
            IF ~conn[s].alive THEN Terminated(s)
            ELSE [@ EXCEPT !.alive = FALSE, !.ping = Up(s)]]
    /\ UNCHANGED <<tabVars, clientVars>>

Pong(s) ==
    /\ Up(s)
    /\ conn[s].ping
    /\ conn' = [conn EXCEPT ![s].ping = FALSE, ![s].alive = TRUE]
    /\ UNCHANGED <<tabVars, clientVars>>

\* The browser closed the socket and the server hears of it.
ServerClose(s) ==
    /\ conn[s].server
    /\ conn[s].link
    /\ conn[s].client \in {"none", "closing"}
    /\ conn' = [conn EXCEPT ![s] = Terminated(s)]
    /\ UNCHANGED <<tabVars, clientVars>>

ServerRestart ==
    /\ conn' = [s \in Sockets |-> IF conn[s].server THEN Terminated(s) ELSE conn[s]]
    /\ \E s \in Sockets : conn[s].server
    /\ UNCHANGED <<tabVars, clientVars>>

\* External: the network between the two is gone for this socket.
LinkLost(s) ==
    /\ conn[s].client \in {"connecting", "open"}
    /\ conn[s].link
    /\ conn' = [conn EXCEPT ![s].link = FALSE, ![s].ping = FALSE]
    /\ UNCHANGED <<tabVars, clientVars>>

\* External: the browser gives up on a socket that no packet passes.
LossNoticed(s) ==
    /\ conn[s].client \in {"connecting", "open"}
    /\ ~conn[s].link
    /\ conn' = [conn EXCEPT ![s] = Ended(@)]
    /\ UNCHANGED <<tabVars, clientVars>>

-------------------------------------------------------------------------------
(* The access token                                                        *)

\* Timing assumption: a token lasts its fifteen minutes, far longer than a tab
\* takes to open its next socket.
TokenExpires ==
    /\ Hearing \/ ~started
    /\ accessToken \in Tokens \ stale
    /\ stale' = stale \cup {accessToken}
    /\ UNCHANGED <<accessToken, session, shell, clientVars, conn>>

\* updateStaff revokes the sessions, and requireAuth and the upgrade look at the
\* status.  Bound: whoever is reinstated is so after the tokens have expired.
Suspend ==
    /\ session
    /\ session' = FALSE
    /\ stale' = Tokens
    /\ UNCHANGED <<accessToken, shell, clientVars, conn>>

\* A new token, never one that a socket still connects with.
NewToken(t) ==
    /\ t \in Tokens \ {accessToken}
    /\ \A s \in Sockets : conn[s].token # t
    /\ accessToken' = t
    /\ stale' = (stale \ {t}) \cup ({accessToken} \ {NoToken})

\* A request to the API has the token it needs, or gets it by a refresh.
Admitted == Usable(accessToken) \/ session

Refreshed ==
    \/ Usable(accessToken) /\ UNCHANGED <<accessToken, stale>>
    \/ ~Usable(accessToken) /\ session /\ \E t \in Tokens : NewToken(t)

-------------------------------------------------------------------------------
(* AdminShell                                                              *)

\* fetchMe answers; a request without a usable token refreshes it first.
MeAnswered ==
    /\ shell.checking
    /\ Admitted
    /\ Refreshed
    /\ Connect(accessToken')
    /\ shell' = [shell EXCEPT !.checking = FALSE, !.page = "shown"]
    /\ UNCHANGED session

\* 401, by fetchMe or by any later request (swr:auth:expired).
SignedOut ==
    /\ shell.page # "login"
    /\ ~shell.leaving
    /\ ~Admitted
    /\ accessToken' = NoToken
    /\ Disconnect
    /\ shell' = AtLogin
    /\ UNCHANGED <<stale, session>>

\* Any other failure: the shell is shown and no channel is opened.
MeFails ==
    /\ shell.checking
    /\ shell' = [shell EXCEPT !.checking = FALSE, !.page = "shown"]
    /\ UNCHANGED <<accessToken, stale, session, clientVars, conn>>

\* useRealtimeEvents of the page.
Mount ==
    /\ shell.page = "shown"
    /\ shell.mounting
    /\ Connect(accessToken)
    /\ shell' = [shell EXCEPT !.mounting = FALSE]
    /\ UNCHANGED <<accessToken, stale, session>>

Navigate ==
    /\ shell.page = "shown"
    /\ ~shell.leaving
    /\ shell' = [shell EXCEPT !.checking = TRUE, !.mounting = TRUE]
    /\ UNCHANGED <<accessToken, stale, session, clientVars, conn>>

\* The bell asks every thirty seconds on every page, which renews a token.
Renew ==
    /\ shell.page = "shown"
    /\ ~shell.leaving
    /\ ~Usable(accessToken)
    /\ session
    /\ \E t \in Tokens : NewToken(t)
    /\ UNCHANGED <<session, shell, clientVars, conn>>

SignIn ==
    /\ shell.page = "login"
    /\ \E t \in Tokens : NewToken(t)
    /\ session' = TRUE
    /\ shell' = [AtLogin EXCEPT !.page = "shown", !.checking = TRUE, !.mounting = TRUE]
    /\ UNCHANGED <<clientVars, conn>>

\* handleLogout: logout() forgets the token, then the channel is closed.
SignOut ==
    /\ shell.page = "shown"
    /\ ~shell.leaving
    /\ accessToken' = NoToken
    /\ session' = FALSE
    /\ shell' = [shell EXCEPT !.leaving = TRUE]
    /\ UNCHANGED <<stale, clientVars, conn>>

Left ==
    /\ shell.leaving
    /\ Disconnect
    /\ shell' = AtLogin
    /\ UNCHANGED <<accessToken, stale, session>>

\* The browser drops all it had; the server notices by and by.
Reload ==
    /\ shell.page # "login"
    /\ accessToken' = NoToken
    /\ shell' = [AtLogin EXCEPT !.page = "loading", !.checking = TRUE, !.mounting = TRUE]
    /\ socket' = NoSocket
    /\ lastToken' = NoToken
    /\ reconnectTimer' = FALSE
    /\ started' = FALSE
    /\ conn' = [s \in Sockets |->
            IF conn[s].server THEN [Ended(conn[s]) EXCEPT !.client = "none"] ELSE NoConn]
    /\ UNCHANGED <<stale, session>>

-------------------------------------------------------------------------------
RealtimeInit ==
    /\ accessToken = NoToken
    /\ stale = {}
    /\ session = TRUE
    /\ shell = [AtLogin EXCEPT !.page = "loading", !.checking = TRUE, !.mounting = TRUE]
    /\ socket = NoSocket
    /\ lastToken = NoToken
    /\ reconnectTimer = FALSE
    /\ started = FALSE
    /\ conn = [s \in Sockets |-> NoConn]

\* The channel of a tab that stays where it is, on a network without losses.
ChannelNext ==
    \/ TimerFires
    \/ ServerRestart
    \/ \E s \in Sockets :
        \/ CloseEvent(s)
        \/ Upgrade(s)
        \/ Refuse(s)
        \/ ServerClose(s)

\* Losses, and the heartbeat that finds them.
NetworkNext ==
    \E s \in Sockets :
        \/ Heartbeat(s)
        \/ Pong(s)
        \/ LinkLost(s)
        \/ LossNoticed(s)

\* What opens and ends a session, and where the member of staff goes.
AccountNext ==
    \/ MeAnswered
    \/ MeFails
    \/ Mount
    \/ Navigate
    \/ Reload
    \/ TokenExpires
    \/ Renew
    \/ Suspend
    \/ SignIn
    \/ SignOut
    \/ Left
    \/ SignedOut

\* The network and both ends keep going; the tab renews its token by the bell's
\* poll; nobody navigates or reloads faster than sockets open for ever.
RealtimeFairness ==
    /\ WF_rtVars(MeAnswered)
    /\ WF_rtVars(SignedOut)
    /\ WF_rtVars(Left)
    /\ WF_rtVars(Mount)
    /\ WF_rtVars(Renew)
    /\ WF_rtVars(TimerFires)
    /\ SF_rtVars(\E s \in Sockets : Upgrade(s))
    /\ \A s \in Sockets :
        /\ WF_rtVars(CloseEvent(s))
        /\ WF_rtVars(Refuse(s))
        /\ WF_rtVars(ServerClose(s))

RealtimeSpec == RealtimeInit /\ [][ChannelNext \/ NetworkNext \/ AccountNext]_rtVars

-------------------------------------------------------------------------------
(* Properties                                                              *)

RealtimeTypeOK ==
    /\ accessToken \in Tokens \cup {NoToken}
    /\ stale \subseteq Tokens
    /\ session \in BOOLEAN
    /\ shell \in Shell
    /\ socket \in Sockets \cup {NoSocket}
    /\ lastToken \in Tokens \cup {NoToken}
    /\ reconnectTimer \in BOOLEAN /\ started \in BOOLEAN
    /\ conn \in [Sockets -> Conn]

\* The heartbeat ends dead connections only: whatever the server has terminated,
\* packets had stopped passing or the browser had closed it (websocketServer.ts
\* lines 77 to 88, "drop dead clients").
LiveConnectionKept ==
    [][\A s \in Sockets : Heartbeat(s) /\ ~conn'[s].server => ~Up(s)]_rtVars

\* A tab that has opened its channel and is still signed in never rests without
\* one: it has a socket, or the timer that will open the next (realtime.ts).
NeverDeaf ==
    started /\ accessToken # NoToken => socket # NoSocket \/ reconnectTimer

\* A client that packets no longer reach does not stay on the server's list.
DeadClientDropped ==
    \A s \in Sockets :
        conn[s].server /\ ~conn[s].link ~> ~conn[s].server

\* A tab that has opened its channel hears events again after every loss, server
\* restart and expired token, unless it or its session ends.
HeardAgain ==
    []<>(Hearing \/ ~started \/ ~session)

-------------------------------------------------------------------------------
(* Claims of the documentation that the code does not keep                 *)

\* "The connection auto-closes on logout" (useRealtime.ts lines 16 and 17).
LogoutCloses ==
    shell = AtLogin => \A s \in Sockets : conn[s].client \notin {"connecting", "open"}

\* "Already connected" (realtime.ts line 19): a tab never opens a second channel
\* while it has one.
OneChannel ==
    Cardinality({s \in Sockets : conn[s].client \in {"connecting", "open"}}) <= 1
================================================================================
