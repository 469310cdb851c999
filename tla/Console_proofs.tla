----------------------------- MODULE Console_proofs ----------------------------
(***************************************************************************)
(* Proofs about Console for any number of sockets, tokens and pages.       *)
(***************************************************************************)
EXTENDS Console, TLAPS

ChannelTypeOK ==
    /\ socket \in Sockets \cup {NoSocket}
    /\ lastToken \in Tokens \cup {NoToken}
    /\ reconnectTimer \in BOOLEAN
    /\ started \in BOOLEAN
    /\ conn \in [Sockets -> Conn]

\* What keeps a signed-in tab from resting without its channel: only a tab that
\* is leaving has lost the token of a channel it opened, and such a tab gets no
\* new token before it has closed it.
SignedInInv ==
    /\ NeverDeaf
    /\ started => accessToken # NoToken \/ shell.leaving
    /\ shell.leaving => accessToken = NoToken /\ ~session
    /\ shell.page = "login" => accessToken = NoToken /\ ~started

-------------------------------------------------------------------------------
(* Type correctness                                                        *)

\* The record of a socket stays one, whatever the two ends do to it.
LEMMA ConnTypes ==
    ASSUME RealtimeTypeOK
    PROVE  /\ NoConn \in Conn
           /\ \A s \in Sockets :
                /\ Ended(conn[s]) \in Conn
                /\ Terminated(s) \in Conn
           /\ \A s \in Sockets \cup {NoSocket} : Close(s) \in [Sockets -> Conn]
<1>1. NoConn \in Conn
  BY DEF NoConn, Conn
<1>2. ASSUME NEW s \in Sockets PROVE Ended(conn[s]) \in Conn
  <2>1. conn[s] \in Conn
    BY DEF RealtimeTypeOK
  <2>. QED BY <2>1 DEF Ended, Conn
<1>3. ASSUME NEW s \in Sockets PROVE Terminated(s) \in Conn
  <2>1. conn[s] \in Conn
    BY DEF RealtimeTypeOK
  <2>2. [conn[s] EXCEPT !.server = FALSE, !.alive = FALSE, !.ping = FALSE,
                        !.client = IF conn[s].link THEN "closing" ELSE @] \in Conn
    BY <2>1 DEF Conn
  <2>. QED BY <1>1, <2>2 DEF Terminated
<1>4. ASSUME NEW s \in Sockets \cup {NoSocket} PROVE Close(s) \in [Sockets -> Conn]
  <2>1. CASE s = NoSocket
    BY <2>1 DEF Close, RealtimeTypeOK
  <2>2. CASE s # NoSocket
    <3>1. [conn EXCEPT ![s] = Ended(conn[s])] \in [Sockets -> Conn]
      BY <1>2, <2>2 DEF RealtimeTypeOK
    <3>. QED BY <3>1 DEF Close, RealtimeTypeOK
  <2>. QED BY <2>1, <2>2
<1>. QED BY <1>1, <1>2, <1>3, <1>4

\* Opening a socket leaves the channel's variables well formed.
LEMMA OpenTypes ==
    ASSUME RealtimeTypeOK, NEW t \in Tokens \cup {NoToken}, OpenSocket(t)
    PROVE  ChannelTypeOK'
<1>1. PICK s \in Sockets :
        /\ conn' = [Close(socket) EXCEPT ![s] =
                        [NoConn EXCEPT !.client = "connecting",
                                       !.token = t, !.link = TRUE]]
        /\ socket' = s
  BY DEF OpenSocket
<1>2. [NoConn EXCEPT !.client = "connecting", !.token = t, !.link = TRUE] \in Conn
  BY DEF NoConn, Conn
<1>3. Close(socket) \in [Sockets -> Conn]
  BY ConnTypes DEF RealtimeTypeOK
<1>4. conn' \in [Sockets -> Conn]
  BY <1>1, <1>2, <1>3
<1>. QED BY <1>1, <1>4 DEF OpenSocket, ChannelTypeOK

\* connectRealtime keeps the types of the channel.
LEMMA ConnectTypes ==
    ASSUME RealtimeTypeOK, NEW t \in Tokens \cup {NoToken}, Connect(t)
    PROVE  ChannelTypeOK'
  BY OpenTypes DEF Connect, clientVars, RealtimeTypeOK, ChannelTypeOK

\* disconnectRealtime keeps the types of the channel.
LEMMA DisconnectTypes ==
    ASSUME RealtimeTypeOK, Disconnect
    PROVE  ChannelTypeOK'
  BY ConnTypes DEF Disconnect, RealtimeTypeOK, ChannelTypeOK

\* A new token is a token.
LEMMA NewTokenTypes ==
    ASSUME RealtimeTypeOK, NEW t \in Tokens, NewToken(t)
    PROVE  accessToken' \in Tokens /\ stale' \subseteq Tokens
  BY DEF RealtimeTypeOK, NewToken

\* A step of one socket's two ends.
LEMMA SocketStepTypes ==
    ASSUME RealtimeTypeOK, NEW s \in Sockets,
           \/ CloseEvent(s) \/ Upgrade(s) \/ Refuse(s) \/ ServerClose(s)
           \/ Heartbeat(s) \/ Pong(s) \/ LinkLost(s) \/ LossNoticed(s)
    PROVE  RealtimeTypeOK'
<1>0. /\ conn[s] \in Conn /\ NoConn \in Conn
      /\ Ended(conn[s]) \in Conn /\ Terminated(s) \in Conn
  BY ConnTypes DEF RealtimeTypeOK
<1>1. CASE CloseEvent(s)
  <2>1. IF conn[s].server THEN [conn[s] EXCEPT !.client = "none"] \in Conn ELSE NoConn \in Conn
    BY <1>0 DEF Conn
  <2>2. conn' \in [Sockets -> Conn]
    BY <1>1, <2>1 DEF CloseEvent, Closed, RealtimeTypeOK
  <2>. QED BY <1>1, <2>2 DEF CloseEvent, tabVars, RealtimeTypeOK
<1>2. CASE Upgrade(s)
  <2>1. [conn[s] EXCEPT !.client = "open", !.token = NoToken,
                        !.server = TRUE, !.alive = TRUE] \in Conn
    BY <1>0 DEF Conn
  <2>2. conn' \in [Sockets -> Conn]
    BY <1>2, <2>1 DEF Upgrade, RealtimeTypeOK
  <2>. QED BY <1>2, <2>2 DEF Upgrade, tabVars, clientVars, RealtimeTypeOK
<1>3. CASE Refuse(s) \/ LossNoticed(s)
  BY <1>3, <1>0 DEF Refuse, LossNoticed, tabVars, clientVars, RealtimeTypeOK
<1>4. CASE ServerClose(s)
  BY <1>4, <1>0 DEF ServerClose, tabVars, clientVars, RealtimeTypeOK
<1>5. CASE Heartbeat(s)
  <2>1. [conn[s] EXCEPT !.alive = FALSE, !.ping = Up(s)] \in Conn
    BY <1>0 DEF Conn, Up
  <2>2. conn' \in [Sockets -> Conn]
    BY <1>5, <2>1, <1>0 DEF Heartbeat, RealtimeTypeOK
  <2>. QED BY <1>5, <2>2 DEF Heartbeat, tabVars, clientVars, RealtimeTypeOK
<1>6. CASE Pong(s) \/ LinkLost(s)
  <2>1. /\ [conn[s] EXCEPT !.ping = FALSE, !.alive = TRUE] \in Conn
        /\ [conn[s] EXCEPT !.link = FALSE, !.ping = FALSE] \in Conn
    BY <1>0 DEF Conn
  <2>2. \/ conn' = [conn EXCEPT ![s] = [conn[s] EXCEPT !.ping = FALSE, !.alive = TRUE]]
        \/ conn' = [conn EXCEPT ![s] = [conn[s] EXCEPT !.link = FALSE, !.ping = FALSE]]
    BY <1>6 DEF Pong, LinkLost, RealtimeTypeOK
  <2>3. conn' \in [Sockets -> Conn]
    BY <2>1, <2>2 DEF RealtimeTypeOK
  <2>. QED BY <1>6, <2>3 DEF Pong, LinkLost, tabVars, clientVars, RealtimeTypeOK
<1>. QED BY <1>1, <1>2, <1>3, <1>4, <1>5, <1>6

\* So does every callback of the browser and the server, and every loss.
LEMMA ChannelStepTypes ==
    ASSUME RealtimeTypeOK, ChannelNext \/ NetworkNext
    PROVE  RealtimeTypeOK'
<1>1. CASE TimerFires
  BY <1>1, OpenTypes DEF TimerFires, tabVars, RealtimeTypeOK, ChannelTypeOK
<1>2. CASE ServerRestart
  <2>1. conn' \in [Sockets -> Conn]
    BY <1>2, ConnTypes DEF ServerRestart, RealtimeTypeOK
  <2>. QED BY <1>2, <2>1 DEF ServerRestart, tabVars, clientVars, RealtimeTypeOK
<1>. QED BY <1>1, <1>2, SocketStepTypes DEF ChannelNext, NetworkNext

\* So does what the member of staff does: sign in and out, reload, navigate.
LEMMA AccountStepTypes ==
    ASSUME RealtimeTypeOK, AccountNext
    PROVE  RealtimeTypeOK'
<1>. USE NullAssumption
<1>1. CASE MeAnswered
  <2>1. accessToken' \in Tokens \cup {NoToken} /\ stale' \subseteq Tokens
    BY <1>1, NewTokenTypes DEF MeAnswered, Refreshed, RealtimeTypeOK
  <2>2. ChannelTypeOK'
    BY <1>1, <2>1, ConnectTypes DEF MeAnswered
  <2>. QED BY <1>1, <2>1, <2>2 DEF MeAnswered, RealtimeTypeOK, ChannelTypeOK, Shell
<1>2. CASE MeFails \/ Navigate
  BY <1>2 DEF MeFails, Navigate, clientVars, RealtimeTypeOK, Shell
<1>3. CASE Mount
  BY <1>3, ConnectTypes DEF Mount, RealtimeTypeOK, ChannelTypeOK, Shell
<1>4. CASE Reload
  <2>1. \A s \in Sockets : [Ended(conn[s]) EXCEPT !.client = "none"] \in Conn
    BY ConnTypes DEF Conn
  <2>2. conn' \in [Sockets -> Conn]
    BY <1>4, <2>1, ConnTypes DEF Reload
  <2>. QED BY <1>4, <2>2 DEF Reload, RealtimeTypeOK, Shell, AtLogin
<1>5. CASE TokenExpires \/ Suspend
  BY <1>5 DEF TokenExpires, Suspend, clientVars, RealtimeTypeOK
<1>6. CASE Renew
  BY <1>6, NewTokenTypes DEF Renew, clientVars, RealtimeTypeOK
<1>7. CASE SignIn
  <2>1. accessToken' \in Tokens \cup {NoToken} /\ stale' \subseteq Tokens
    BY <1>7, NewTokenTypes DEF SignIn
  <2>. QED BY <1>7, <2>1 DEF SignIn, clientVars, RealtimeTypeOK, Shell, AtLogin
<1>8. CASE SignOut
  BY <1>8 DEF SignOut, clientVars, RealtimeTypeOK, Shell
<1>9. CASE Left \/ SignedOut
  <2>1. ChannelTypeOK'
    BY <1>9, DisconnectTypes DEF Left, SignedOut
  <2>2. AtLogin \in Shell
    BY DEF AtLogin, Shell
  <2>. QED BY <1>9, <2>1, <2>2 DEF Left, SignedOut, RealtimeTypeOK, ChannelTypeOK
<1>. QED BY <1>1, <1>2, <1>3, <1>4, <1>5, <1>6, <1>7, <1>8, <1>9 DEF AccountNext

\* A page's own steps leave the channel alone and its own variables well formed.
LEMMA PageStepTypes ==
    ASSUME TypeOK, PageNext
    PROVE  TypeOK'
<1>. USE DEF TypeOK, rtVars, tabVars, clientVars, RealtimeTypeOK
<1>0. MaxWrites \in Nat
  BY PagesAssumption
<1>1. CASE Read
  <2>1. version \in 1..version
    BY <1>0
  <2>2. answers' \subseteq 1..version
    BY <1>1, <2>1 DEF Read
  <2>. QED BY <1>1, <2>2 DEF Read
<1>2. CASE AskFails
  BY <1>2 DEF AskFails
<1>3. CASE Poll
  BY <1>3 DEF Poll, Ask
<1>4. CASE Emit
  BY <1>4 DEF Emit, Ask
<1>5. ASSUME NEW v \in 1..(MaxWrites + 1), Arrive(v) PROVE TypeOK'
  BY <1>5 DEF Arrive, Here
<1>6. ASSUME NEW op \in Operations, Write(op) PROVE TypeOK'
  BY <1>0, <1>6 DEF Write, Commit
<1>7. ASSUME NEW op \in Operations, OwnWrite(op) PROVE TypeOK'
  <2>1. /\ version' = version + 1 /\ version < MaxWrites + 1 /\ emitting' = op
        /\ answers' \in {answers \cup {version'}, answers} /\ asked' \in BOOLEAN
        /\ UNCHANGED <<rtVars, page, shown, error>>
    BY <1>7 DEF OwnWrite, Commit, Ask
  <2>2. version' \in 1..(MaxWrites + 1) /\ answers' \subseteq 1..version' /\ shown' \in 0..version'
    <3>1. 1..version \subseteq 1..(version + 1) /\ version + 1 \in 1..(version + 1)
      BY <1>0
    <3>2. version' \in 1..(MaxWrites + 1) /\ shown' \in 0..version'
      BY <1>0, <2>1
    <3>. QED BY <2>1, <3>1, <3>2
  <2>. QED BY <2>1, <2>2
<1>. QED BY <1>1, <1>2, <1>3, <1>4, <1>5, <1>6, <1>7 DEF PageNext

\* The tab, its channel and its page stay well formed; what a page shows and what
\* is on its way to it was committed.
THEOREM TypeCorrect == Spec => []TypeOK
<1>1. Init => TypeOK
  <2>. SUFFICES ASSUME Init PROVE TypeOK OBVIOUS
  <2>1. RealtimeTypeOK
    <3>1. CASE FreshTab
      BY <3>1 DEF FreshTab, RealtimeInit, RealtimeTypeOK, NoConn, Conn, Shell, AtLogin
    <3>2. CASE OpenedTab
      <4>1. accessToken \in Tokens /\ socket \in Sockets
        BY <3>2, NonEmptyAssumption DEF OpenedTab
      <4>2. conn \in [Sockets -> Conn]
        BY <3>2, <4>1 DEF OpenedTab, NoConn, Conn
      <4>. QED BY <3>2, <4>1, <4>2 DEF OpenedTab, RealtimeTypeOK, Shell, AtLogin
    <3>. QED BY <3>1, <3>2 DEF Init
  <2>2. page \in Pages \cup {"shell"}
    BY DEF Init, FreshTab, OpenedTab
  <2>3. /\ version \in 1..(MaxWrites + 1) /\ answers \subseteq 1..version /\ shown \in 0..version
        /\ emitting \in Operations \cup {Nothing} /\ error \in BOOLEAN
    <3>1. /\ version = 1 /\ answers = {} /\ shown = 0
          /\ emitting = Nothing /\ error = FALSE
      BY Zenon DEF Init
    <3>2. MaxWrites \in Nat
      BY PagesAssumption
    <3>3. version \in 1..(MaxWrites + 1) /\ shown \in 0..version
      BY <3>1, <3>2
    <3>. QED BY <3>1, <3>3
  <2>4. asked \in BOOLEAN
    BY Zenon DEF Init
  <2>. QED BY <2>1, <2>2, <2>3, <2>4 DEF TypeOK
<1>2. TypeOK /\ [Next]_vars => TypeOK'
  <2>. SUFFICES ASSUME TypeOK, [Next]_vars PROVE TypeOK' OBVIOUS
  <2>1. CASE (ChannelNext \/ NetworkNext \/ AccountNext) /\ UNCHANGED pageVars
    <3>1. RealtimeTypeOK'
      BY <2>1, ChannelStepTypes, AccountStepTypes DEF TypeOK
    <3>. QED BY <2>1, <3>1 DEF TypeOK, pageVars
  <2>2. CASE PageNext
    BY <2>2, PageStepTypes
  <2>3. CASE UNCHANGED vars
    BY <2>3 DEF vars, rtVars, tabVars, clientVars, pageVars, TypeOK, RealtimeTypeOK
  <2>. QED BY <2>1, <2>2, <2>3 DEF Next
<1>. QED BY <1>1, <1>2, PTL DEF Spec

-------------------------------------------------------------------------------
(* A signed-in tab does not rest without its channel                       *)

\* No callback, loss or action of the member lets a signed-in tab rest without a
\* socket or a timer.
LEMMA NeverDeafStep ==
    ASSUME TypeOK, SignedInInv, ChannelNext \/ NetworkNext \/ AccountNext
    PROVE  SignedInInv'
<1>. USE NullAssumption DEF SignedInInv, NeverDeaf
<1>1. CASE TimerFires
  <2>1. CASE accessToken = NoToken
    BY <1>1, <2>1 DEF TimerFires, tabVars
  <2>2. CASE accessToken # NoToken
    <3>1. OpenSocket(accessToken) /\ UNCHANGED tabVars
      BY <1>1, <2>2 DEF TimerFires
    <3>2. socket' \in Sockets /\ UNCHANGED <<accessToken, session, shell>>
      BY <3>1 DEF OpenSocket, tabVars
    <3>. QED BY <2>2, <3>2
  <2>. QED BY <2>1, <2>2
<1>2. CASE ServerRestart \/ NetworkNext
  <2>1. UNCHANGED <<tabVars, clientVars>>
    BY <1>2 DEF ServerRestart, NetworkNext, Heartbeat, Pong, LinkLost, LossNoticed
  <2>. QED BY <2>1 DEF tabVars, clientVars
<1>3. ASSUME NEW s \in Sockets, CloseEvent(s) PROVE SignedInInv'
  BY <1>3 DEF CloseEvent, tabVars
<1>4. ASSUME NEW s \in Sockets, Upgrade(s) \/ Refuse(s) \/ ServerClose(s)
      PROVE  SignedInInv'
  BY <1>4 DEF Upgrade, Refuse, ServerClose, tabVars, clientVars
<1>5. CASE MeAnswered
  <2>1. ~shell.leaving
    BY <1>5 DEF MeAnswered, Admitted, Usable
  <2>2. shell'.leaving = FALSE /\ shell'.page = "shown"
    BY <1>5, <2>1 DEF MeAnswered, TypeOK, RealtimeTypeOK, Shell
  <2>3. accessToken' # NoToken
    BY <1>5 DEF MeAnswered, Refreshed, Usable, NewToken
  <2>4. started' => socket' # NoSocket \/ reconnectTimer'
    <3>1. CASE UNCHANGED <<clientVars, conn>>
      BY <3>1, <2>1 DEF clientVars
    <3>2. CASE OpenSocket(accessToken')
      BY <3>2 DEF OpenSocket
    <3>. QED BY <1>5, <3>1, <3>2 DEF MeAnswered, Connect
  <2>. QED BY <2>2, <2>3, <2>4
<1>6. CASE MeFails \/ Navigate
  <2>1. /\ UNCHANGED <<accessToken, session, clientVars>>
        /\ shell'.leaving = shell.leaving /\ shell'.page = "shown"
    BY <1>6 DEF MeFails, Navigate, TypeOK, RealtimeTypeOK, Shell
  <2>. QED BY <2>1 DEF clientVars
<1>7. CASE Mount
  BY <1>7 DEF Mount, Connect, OpenSocket, clientVars, TypeOK, RealtimeTypeOK, Shell
<1>8. CASE Reload
  BY <1>8 DEF Reload, AtLogin
<1>9. CASE TokenExpires \/ Suspend
  BY <1>9 DEF TokenExpires, Suspend, clientVars
<1>10. CASE Renew
  BY <1>10 DEF Renew, NewToken, clientVars
<1>11. CASE SignIn
  BY <1>11 DEF SignIn, NewToken, clientVars, AtLogin
<1>12. CASE SignOut
  BY <1>12 DEF SignOut, clientVars, TypeOK, RealtimeTypeOK, Shell
<1>13. CASE Left \/ SignedOut
  BY <1>13 DEF Left, SignedOut, Disconnect, AtLogin
<1>. QED BY <1>1, <1>2, <1>3, <1>4, <1>5, <1>6, <1>7, <1>8, <1>9, <1>10, <1>11, <1>12, <1>13
         DEF ChannelNext, AccountNext

\* A tab that has opened its channel and is signed in has a socket, or the timer
\* that opens the next one, however losses, reloads and sign-outs interleave.
THEOREM ReconnectionIsArmed == Spec => []NeverDeaf
<1>1. Init => SignedInInv
  BY NullAssumption, NonEmptyAssumption
     DEF Init, FreshTab, OpenedTab, RealtimeInit, SignedInInv, NeverDeaf, AtLogin
<1>2. TypeOK /\ SignedInInv /\ [Next]_vars => SignedInInv'
  <2>. SUFFICES ASSUME TypeOK, SignedInInv, [Next]_vars PROVE SignedInInv' OBVIOUS
  <2>1. CASE ChannelNext \/ NetworkNext \/ AccountNext
    BY <2>1, NeverDeafStep
  <2>2. CASE PageNext \/ UNCHANGED vars
    BY <2>2 DEF PageNext, Read, AskFails, Poll, Emit, Arrive, Write, OwnWrite,
                vars, rtVars, tabVars, clientVars, SignedInInv, NeverDeaf
  <2>. QED BY <2>1, <2>2 DEF Next
<1>3. SignedInInv => NeverDeaf
  BY DEF SignedInInv
<1>. QED BY <1>1, <1>2, <1>3, TypeCorrect, PTL DEF Spec

-------------------------------------------------------------------------------
(* The heartbeat                                                           *)

\* The server's flag is down for a live connection only while a ping is unanswered.
HeartbeatInv == \A s \in Sockets : Up(s) => conn[s].alive \/ conn[s].ping

\* A socket that an action leaves alone keeps what the server knows of it.
LEMMA Untouched ==
    ASSUME HeartbeatInv, NEW s \in Sockets, conn'[s] = conn[s]
    PROVE  Up(s)' => conn'[s].alive \/ conn'[s].ping
  BY DEF HeartbeatInv, Up

\* One action moves one socket: the others keep what is known of them.
LEMMA OneMoves ==
    ASSUME TypeOK, HeartbeatInv, NEW s \in Sockets, NEW c \in Conn,
           c.client = "open" /\ c.server /\ c.link => c.alive \/ c.ping,
           conn' = [conn EXCEPT ![s] = c]
    PROVE  HeartbeatInv'
<1>1. conn \in [Sockets -> Conn]
  BY DEF TypeOK, RealtimeTypeOK
<1>2. ASSUME NEW u \in Sockets PROVE Up(u)' => conn'[u].alive \/ conn'[u].ping
  <2>1. CASE u = s
    BY <1>1, <2>1 DEF Up
  <2>2. CASE u # s
    <3>1. conn'[u] = conn[u]
      BY <1>1, <2>2
    <3>. QED BY <3>1, Untouched
  <2>. QED BY <2>1, <2>2
<1>. QED BY <1>2 DEF HeartbeatInv

\* Closing one socket and opening another brings none up.
LEMMA OpenKeepsHeartbeat ==
    ASSUME TypeOK, HeartbeatInv, NEW t \in Tokens \cup {NoToken}, OpenSocket(t)
    PROVE  HeartbeatInv'
<1>1. conn \in [Sockets -> Conn] /\ socket \in Sockets \cup {NoSocket}
  BY DEF TypeOK, RealtimeTypeOK
<1>2. PICK s \in Sockets :
        conn' = [Close(socket) EXCEPT ![s] =
                        [NoConn EXCEPT !.client = "connecting",
                                       !.token = t, !.link = TRUE]]
  BY DEF OpenSocket
<1>3. ASSUME NEW u \in Sockets PROVE Up(u)' => conn'[u].alive \/ conn'[u].ping
  <2>1. CASE u = s
    BY <1>1, <1>2, <2>1, ConnTypes DEF Up, NoConn, TypeOK, Close
  <2>2. CASE u # s
    BY <1>1, <1>2, <2>2, Untouched, ZenonT(40) DEF Up, Close, Ended, Conn
  <2>. QED BY <2>1, <2>2
<1>. QED BY <1>3 DEF HeartbeatInv

\* A socket that the tab closes is none the heartbeat must spare.
LEMMA CloseKeepsHeartbeat ==
    ASSUME TypeOK, HeartbeatInv, conn' = Close(socket)
    PROVE  HeartbeatInv'
<1>1. conn \in [Sockets -> Conn] /\ socket \in Sockets \cup {NoSocket}
  BY DEF TypeOK, RealtimeTypeOK
<1>2. ASSUME NEW u \in Sockets PROVE Up(u)' => conn'[u].alive \/ conn'[u].ping
  BY <1>1, Untouched DEF Up, Close, Ended, Conn
<1>. QED BY <1>2 DEF HeartbeatInv

\* What happens to a socket leaves the server's flag up, or a ping unanswered.
LEMMA SocketKeepsHeartbeat ==
    ASSUME TypeOK, HeartbeatInv, NEW s \in Sockets,
           \/ CloseEvent(s) \/ Upgrade(s) \/ Refuse(s) \/ ServerClose(s)
           \/ Heartbeat(s) \/ Pong(s) \/ LinkLost(s) \/ LossNoticed(s)
    PROVE  HeartbeatInv'
<1>0. /\ conn \in [Sockets -> Conn] /\ conn[s] \in Conn /\ NoConn \in Conn
      /\ Ended(conn[s]) \in Conn /\ Terminated(s) \in Conn
  BY ConnTypes DEF TypeOK, RealtimeTypeOK
<1>1. Ended(conn[s]).client # "open" /\ NoConn.client # "open"
  BY <1>0 DEF Ended, NoConn, Conn
<1>2. ~(Terminated(s).client = "open" /\ Terminated(s).server)
  BY <1>0, <1>1 DEF Terminated, Conn
<1>3. CASE CloseEvent(s)
  <2>1. PICK c \in Conn : c.client # "open" /\ conn' = [conn EXCEPT ![s] = c]
    <3>1. /\ [conn[s] EXCEPT !.client = "none"] \in Conn
          /\ [conn[s] EXCEPT !.client = "none"].client = "none"
      BY <1>0 DEF Conn
    <3>. QED BY <1>0, <1>1, <1>3, <3>1 DEF CloseEvent, Closed
  <2>. QED BY <2>1, OneMoves
<1>4. CASE Upgrade(s)
  <2>. DEFINE c == [conn[s] EXCEPT !.client = "open", !.token = NoToken,
                                   !.server = TRUE, !.alive = TRUE]
  <2>1. c \in Conn /\ c.alive
    BY <1>0 DEF Conn
  <2>2. conn' = [conn EXCEPT ![s] = c]
    BY <1>4 DEF Upgrade
  <2>. HIDE DEF c
  <2>. QED BY <2>1, <2>2, OneMoves
<1>5. CASE Refuse(s) \/ LossNoticed(s)
  <2>1. conn' = [conn EXCEPT ![s] = Ended(conn[s])]
    BY <1>5 DEF Refuse, LossNoticed
  <2>. QED BY <1>0, <1>1, <2>1, OneMoves
<1>6. CASE ServerClose(s)
  <2>1. conn' = [conn EXCEPT ![s] = Terminated(s)]
    BY <1>6 DEF ServerClose
  <2>. QED BY <1>0, <1>2, <2>1, OneMoves
<1>7. CASE Heartbeat(s)
  <2>1. CASE ~conn[s].alive
    <3>1. conn' = [conn EXCEPT ![s] = Terminated(s)]
      BY <1>7, <2>1 DEF Heartbeat
    <3>. QED BY <1>0, <1>2, <3>1, OneMoves
  <2>2. CASE conn[s].alive
    <3>. DEFINE c == [conn[s] EXCEPT !.alive = FALSE, !.ping = Up(s)]
    <3>1. c \in Conn /\ (c.client = "open" /\ c.server /\ c.link => c.ping)
      BY <1>0, ZenonT(40) DEF Conn, Up
    <3>2. conn' = [conn EXCEPT ![s] = c]
      BY <1>7, <2>2 DEF Heartbeat
    <3>. HIDE DEF c
    <3>. QED BY <3>1, <3>2, OneMoves
  <2>. QED BY <2>1, <2>2
<1>8. CASE Pong(s)
  <2>. DEFINE c == [conn[s] EXCEPT !.ping = FALSE, !.alive = TRUE]
  <2>1. c \in Conn /\ c.alive
    BY <1>0 DEF Conn
  <2>2. conn' = [conn EXCEPT ![s] = c]
    BY <1>0, <1>8 DEF Pong
  <2>. HIDE DEF c
  <2>. QED BY <2>1, <2>2, OneMoves
<1>9. CASE LinkLost(s)
  <2>. DEFINE c == [conn[s] EXCEPT !.link = FALSE, !.ping = FALSE]
  <2>1. c \in Conn /\ ~c.link
    BY <1>0 DEF Conn
  <2>2. conn' = [conn EXCEPT ![s] = c]
    BY <1>0, <1>9 DEF LinkLost
  <2>. HIDE DEF c
  <2>. QED BY <2>1, <2>2, OneMoves
<1>. QED BY <1>3, <1>4, <1>5, <1>6, <1>7, <1>8, <1>9

\* Every step of the console leaves the heartbeat's invariant.
LEMMA HeartbeatStep ==
    ASSUME TypeOK, HeartbeatInv, [Next]_vars
    PROVE  HeartbeatInv'
<1>0. /\ conn \in [Sockets -> Conn]
      /\ \A s \in Sockets : Ended(conn[s]) \in Conn
  BY ConnTypes DEF TypeOK, RealtimeTypeOK
<1>1. CASE \E s \in Sockets :
               \/ CloseEvent(s) \/ Upgrade(s) \/ Refuse(s) \/ ServerClose(s)
               \/ Heartbeat(s) \/ Pong(s) \/ LinkLost(s) \/ LossNoticed(s)
  BY <1>1, SocketKeepsHeartbeat
<1>2. CASE conn' = conn
  BY <1>2, Untouched DEF HeartbeatInv
<1>3. CASE \E t \in Tokens \cup {NoToken} : OpenSocket(t)
  BY <1>3, OpenKeepsHeartbeat
<1>4. CASE Disconnect
  BY <1>4, CloseKeepsHeartbeat DEF Disconnect
<1>5. CASE ServerRestart
  <2>1. ASSUME NEW s \in Sockets PROVE ~Up(s)'
    BY <1>0, <1>5 DEF ServerRestart, Terminated, NoConn, Up, Conn
  <2>. QED BY <2>1 DEF HeartbeatInv
<1>6. CASE Reload
  <2>1. ASSUME NEW s \in Sockets PROVE ~Up(s)'
    BY <1>0, <1>6 DEF Reload, NoConn, Up, Conn
  <2>. QED BY <2>1 DEF HeartbeatInv
<1>7. CASE TimerFires \/ MeAnswered \/ Mount
  <2>1. conn' = conn \/ \E t \in Tokens \cup {NoToken} : OpenSocket(t)
    <3>1. CASE TimerFires
      BY <3>1 DEF TimerFires, TypeOK, RealtimeTypeOK
    <3>2. CASE Mount
      BY <3>2 DEF Mount, Connect, TypeOK, RealtimeTypeOK
    <3>3. CASE MeAnswered
      <4>1. accessToken' \in Tokens \cup {NoToken}
        BY <3>3, NewTokenTypes DEF MeAnswered, Refreshed, TypeOK, RealtimeTypeOK
      <4>. QED BY <3>3, <4>1 DEF MeAnswered, Connect
    <3>. QED BY <1>7, <3>1, <3>2, <3>3
  <2>. QED BY <2>1, <1>2, <1>3
<1>8. CASE \/ PageNext \/ UNCHANGED vars \/ MeFails \/ Navigate \/ TokenExpires
           \/ Renew \/ Suspend \/ SignIn \/ SignOut
  <2>1. conn' = conn
    BY <1>8 DEF PageNext, Read, AskFails, Poll, Emit, Arrive, Write, OwnWrite, vars, rtVars,
                MeFails, Navigate, TokenExpires, Renew, Suspend, SignIn, SignOut
  <2>. QED BY <2>1, <1>2
<1>9. CASE Left \/ SignedOut
  BY <1>4, <1>9 DEF Left, SignedOut
<1>. QED BY <1>1, <1>5, <1>6, <1>7, <1>8, <1>9
         DEF Next, ChannelNext, NetworkNext, AccountNext

\* The heartbeat never ends a connection that packets pass: a flag still down
\* when the next tick finds it is a ping that nobody answered.
THEOREM HeartbeatSparesTheLiving == Spec => LiveConnectionKept
<1>1. Init => HeartbeatInv
  <2>. SUFFICES ASSUME Init, NEW s \in Sockets PROVE ~Up(s)
    BY DEF HeartbeatInv
  <2>1. CASE FreshTab
    BY <2>1 DEF FreshTab, RealtimeInit, NoConn, Up
  <2>2. CASE OpenedTab
    BY <2>2 DEF OpenedTab, NoConn, Up
  <2>. QED BY <2>1, <2>2 DEF Init
<1>2. TypeOK /\ HeartbeatInv /\ [Next]_vars => HeartbeatInv'
  BY HeartbeatStep
<1>3. TypeOK /\ HeartbeatInv
      => \A s \in Sockets : Heartbeat(s) /\ ~conn'[s].server => ~Up(s)
  <2>. SUFFICES ASSUME TypeOK, HeartbeatInv, NEW s \in Sockets, Heartbeat(s), Up(s)
                PROVE  conn'[s].server
    OBVIOUS
  <2>1. conn[s].alive
    BY DEF HeartbeatInv, Heartbeat, RoundTripDone
  <2>. QED BY <2>1 DEF Heartbeat, TypeOK, RealtimeTypeOK, Conn
<1>. QED BY <1>1, <1>2, <1>3, TypeCorrect, PTL DEF Spec, LiveConnectionKept
================================================================================
