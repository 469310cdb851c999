------------------------------- MODULE Sessions -------------------------------
(***************************************************************************)
(* How one member of staff stays signed in: the tabs of one browser and    *)
(* their shared refresh cookie (lib/api.ts of the frontend), the rotation  *)
(* of StaffSession rows behind it (authService.ts, tokenService.ts), and   *)
(* suspension by an administrator (updateStaff in adminController.ts).     *)
(*                                                                         *)
(* Every Prisma statement is one step.  The sending of a fetch, the steps  *)
(* of its handler and its answer are separate steps too, so answers come   *)
(* in any order.  A sign-in here has the right password: wrong ones, the   *)
(* lock and password resets are in Accounts.tla.  A call to the API that   *)
(* is answered changes nothing here, so only those with a 401 are seen.     *)
(*                                                                         *)
(* A definition whose name starts with "Mutant" is not part of the model:  *)
(* it is a plausible slip in the code that the definition below it models. *)
(***************************************************************************)
EXTENDS Naturals, FiniteSets

CONSTANTS
    MaxSessions,  \* bound: StaffSession rows
    Tabs,         \* tabs of the browser
    Calls,        \* calls to the API that can be in flight at once
    TabOf         \* the tab that makes each call

ASSUME SessionsAssumption ==
    /\ MaxSessions \in Nat
    /\ TabOf \in [Calls -> Tabs]
    /\ IsFiniteSet(Calls) /\ IsFiniteSet(Tabs)

VARIABLES
    session,     \* the StaffSession table
    expired,     \* the sessions whose expiresAt has passed
    active,      \* Staff.status = "ACTIVE"
    suspending,  \* updateStaff has revoked the sessions, not yet set the status
    cookie,      \* swr_refresh: the session whose token it holds, 0 for none
    access,      \* the access token each tab holds
    call,        \* where each call stands
    refresh,     \* the refresh each call has sent, if any
    form,        \* the sign-in or sign-out each tab has sent, if any
    \* History variable: TRUE once an answer was lost, a refresh broke off after
    \* it revoked its session, the staff member was suspended, or a sign-out
    \* overtook a refresh.
    disturbed

browser == <<cookie, access, call, form>>
staff == <<active, suspending>>
vars == <<session, expired, staff, browser, refresh, disturbed>>

Sessions == 1..MaxSessions
SessionRow == [state: {"NONE", "LIVE", "REVOKED"}, rotatedFrom: {0} \cup Sessions]
NoSession == [state |-> "NONE", rotatedFrom |-> 0]

\* presented is the token in the cookie when the fetch was sent, new the session
\* made for it; heard is FALSE when nobody waits for the answer any more.
NoRefresh == [at |-> "none", presented |-> 0, new |-> 0, heard |-> FALSE]
RefreshState ==
    [at: {"none", "read", "rotate", "revokeAll", "retire", "insert", "check",
          "granted", "denied"},
     presented: {0} \cup Sessions, new: {0} \cup Sessions, heard: BOOLEAN]

NoForm == [at |-> "none", presented |-> 0, new |-> 0]
FormState ==
    [at: {"none", "login", "loginInsert", "loginGranted", "loginDenied",
          "logout", "logoutDone"},
     presented: {0} \cup Sessions, new: {0} \cup Sessions]

CallsOf(t) == {c \in Calls : TabOf[c] = t}
InFlight == {c \in Calls : refresh[c].at # "none"}

Live(s) == session[s].state = "LIVE"

Revoked == [s \in Sessions |->
                IF Live(s) THEN [session[s] EXCEPT !.state = "REVOKED"]
                ELSE session[s]]

\* Bound: every handler in flight that may create a session has a row left.
RowsLeft ==
    Cardinality({s \in Sessions : session[s].state = "NONE"}) >
        Cardinality({c \in Calls : call[c] # "idle" \/ c \in InFlight})
            + Cardinality({t \in Tabs : form[t].at # "none"})

\* createStaffSession: ids are handed out in order.
IsNextSession(s) ==
    \A r \in Sessions : session[r].state = "NONE" <=> r >= s
SessionCreated(s, from) ==
    session' = [session EXCEPT ![s] = [state |-> "LIVE", rotatedFrom |-> from]]

Advance(c, to) == refresh' = [refresh EXCEPT ![c].at = to]

-------------------------------------------------------------------------------
(* The tab: request() and tryRefresh() of lib/api.ts                       *)

\* The 15 minutes of an access token are over.
AccessExpires(t) ==
    /\ access[t] = "VALID"
    /\ access' = [access EXCEPT ![t] = "STALE"]
    /\ UNCHANGED <<session, expired, staff, cookie, call, form, refresh, disturbed>>

\* A call is sent and will be answered 401 (requireAuth).
CallRejected(c) ==
    /\ call[c] = "idle" /\ c \notin InFlight
    /\ RowsLeft
    /\ access[TabOf[c]] # "VALID" \/ ~active
    /\ call' = [call EXCEPT ![c] = "rejected"]
    /\ UNCHANGED <<session, expired, staff, cookie, access, form, refresh, disturbed>>

\* refreshPromise is not looked at: every call sends a refresh of its own.
MutantTryRefresh(c) ==
    /\ call[c] = "rejected"
    /\ call' = [call EXCEPT ![c] = "waiting"]
    /\ refresh' = [refresh EXCEPT ![c] =
           [at |-> "read", presented |-> cookie, new |-> 0, heard |-> TRUE]]
    /\ UNCHANGED <<session, expired, staff, cookie, access, form, disturbed>>

\* The 401 arrives: wait for the refresh in flight, or send one.
TryRefresh(c) ==
    /\ call[c] = "rejected"
    /\ call' = [call EXCEPT ![c] = "waiting"]
    /\ IF \E d \in CallsOf(TabOf[c]) : refresh[d].heard
       THEN UNCHANGED refresh
       ELSE refresh' = [refresh EXCEPT ![c] =
                [at |-> "read", presented |-> cookie, new |-> 0, heard |-> TRUE]]
    /\ UNCHANGED <<session, expired, staff, cookie, access, form, disturbed>>

\* Only the call that sent the refresh goes on.
MutantWaiters(c) == {c}

\* The calls that awaited the promise go on when the refresh of c is over; the
\* retry they make changes nothing here.
Waiters(c) ==
    {d \in CallsOf(TabOf[c]) :
        call[d] = "waiting" /\ (d = c \/ ~refresh[d].heard)}

RefreshGranted(c) ==
    /\ refresh[c].at = "granted" /\ refresh[c].heard
    /\ cookie' = refresh[c].new
    /\ access' = [access EXCEPT ![TabOf[c]] = "VALID"]
    /\ call' = [d \in Calls |-> IF d \in Waiters(c) THEN "idle" ELSE call[d]]
    /\ refresh' = [refresh EXCEPT ![c] = NoRefresh]
    /\ UNCHANGED <<session, expired, staff, form, disturbed>>

\* A refusal, or an answer that is lost: the token is dropped and the tab goes
\* to the sign-in page.  The cookie stays.
RefreshFailed(c) ==
    /\ refresh[c].at \in {"granted", "denied"} /\ refresh[c].heard
    /\ access' = [access EXCEPT ![TabOf[c]] = "NONE"]
    /\ call' = [d \in Calls |-> IF d \in Waiters(c) THEN "idle" ELSE call[d]]
    /\ refresh' = [refresh EXCEPT ![c] = NoRefresh]
    /\ disturbed' = (disturbed \/ refresh[c].at = "granted")
    /\ UNCHANGED <<session, expired, staff, cookie, form>>

\* The page is loaded again: the tab forgets its token and its fetches.  (Not
\* while a sign-in or sign-out is under way: the tab would forget its answer.)
Reload(t) ==
    /\ form[t] = NoForm
    /\ access' = [access EXCEPT ![t] = "NONE"]
    /\ call' = [c \in Calls |-> IF TabOf[c] = t THEN "idle" ELSE call[c]]
    /\ refresh' = [c \in Calls |-> IF TabOf[c] = t
                                   THEN [refresh[c] EXCEPT !.heard = FALSE]
                                   ELSE refresh[c]]
    /\ disturbed' = (disturbed \/ \E c \in CallsOf(t) : refresh[c].heard)
    /\ UNCHANGED <<session, expired, staff, cookie, form>>

RefreshUnheard(c) ==
    /\ refresh[c].at \in {"granted", "denied"} /\ ~refresh[c].heard
    /\ refresh' = [refresh EXCEPT ![c] = NoRefresh]
    /\ UNCHANGED <<session, expired, staff, browser, disturbed>>

-------------------------------------------------------------------------------
(* The handler of POST /api/auth/refresh                                   *)

\* refresh() finds a session that is neither revoked nor expired ...
RefreshRead(c) ==
    /\ refresh[c].at = "read"
    /\ LET s == refresh[c].presented IN
        IF s # 0 /\ s \notin expired /\ Live(s)
        THEN Advance(c, "rotate") ELSE Advance(c, "denied")
    /\ UNCHANGED <<session, expired, staff, browser, disturbed>>

\* ... and rotateStaffSession looks again: a token revoked by now was used twice.
RotateRead(c) ==
    /\ refresh[c].at = "rotate"
    /\ LET s == refresh[c].presented IN
        CASE ~Live(s)        -> Advance(c, "revokeAll")
          [] s \in expired   -> Advance(c, "denied")
          [] OTHER           -> Advance(c, "retire")
    /\ UNCHANGED <<session, expired, staff, browser, disturbed>>

\* revokeAllForStaff(staffId, "refresh_token_reuse")
RevokeFamily(c) ==
    /\ refresh[c].at = "revokeAll"
    /\ session' = Revoked
    /\ Advance(c, "denied")
    /\ UNCHANGED <<expired, staff, browser, disturbed>>

\* The rotated session is not revoked.
MutantRetire(c) ==
    /\ refresh[c].at = "retire"
    /\ Advance(c, "insert")
    /\ UNCHANGED <<session, expired, staff, browser, disturbed>>

\* update by id, whatever became of the session since it was read.
Retire(c) ==
    /\ refresh[c].at = "retire"
    /\ session' = [session EXCEPT ![refresh[c].presented].state = "REVOKED"]
    /\ Advance(c, "insert")
    /\ UNCHANGED <<expired, staff, browser, disturbed>>

Successor(c) ==
    /\ refresh[c].at = "insert"
    /\ \E s \in Sessions :
        /\ IsNextSession(s)
        /\ SessionCreated(s, refresh[c].presented)
        /\ refresh' = [refresh EXCEPT ![c].at = "check", ![c].new = s]
    /\ UNCHANGED <<expired, staff, browser, disturbed>>

\* The status of the staff member is looked at last.
StaffRead(c) ==
    /\ refresh[c].at = "check"
    /\ Advance(c, IF active THEN "granted" ELSE "denied")
    /\ UNCHANGED <<session, expired, staff, browser, disturbed>>

\* A statement throws and the answer is a 500, a refusal like any other to the
\* tab.  The statements before it stand: after Retire the session is revoked.
RefreshBreaks(c) ==
    /\ refresh[c].at \in {"read", "rotate", "revokeAll", "retire", "insert", "check"}
    /\ Advance(c, "denied")
    /\ disturbed' = (disturbed \/ refresh[c].at \in {"insert", "check"})
    /\ UNCHANGED <<session, expired, staff, browser>>

-------------------------------------------------------------------------------
(* Sign-in and sign-out                                                    *)

SetForm(t, f) == form' = [form EXCEPT ![t] = f]

Login(t) ==
    /\ form[t] = NoForm /\ access[t] = "NONE"
    /\ RowsLeft
    /\ SetForm(t, [NoForm EXCEPT !.at = "login"])
    /\ UNCHANGED <<session, expired, staff, cookie, access, call, refresh, disturbed>>

LoginRead(t) ==
    /\ form[t].at = "login"
    /\ SetForm(t, [NoForm EXCEPT !.at = IF active THEN "loginInsert"
                                        ELSE "loginDenied"])
    /\ UNCHANGED <<session, expired, staff, cookie, access, call, refresh, disturbed>>

LoginInsert(t) ==
    /\ form[t].at = "loginInsert"
    /\ \E s \in Sessions :
        /\ IsNextSession(s)
        /\ SessionCreated(s, 0)
        /\ SetForm(t, [NoForm EXCEPT !.at = "loginGranted", !.new = s])
    /\ UNCHANGED <<expired, staff, cookie, access, call, refresh, disturbed>>

LoginAnswered(t) ==
    /\ form[t].at \in {"loginGranted", "loginDenied"}
    /\ IF form[t].at = "loginGranted"
       THEN /\ cookie' = form[t].new
            /\ access' = [access EXCEPT ![t] = "VALID"]
       ELSE UNCHANGED <<cookie, access>>
    /\ SetForm(t, NoForm)
    /\ UNCHANGED <<session, expired, staff, call, refresh, disturbed>>

Logout(t) ==
    /\ form[t] = NoForm
    /\ SetForm(t, [NoForm EXCEPT !.at = "logout", !.presented = cookie])
    /\ UNCHANGED <<session, expired, staff, cookie, access, call, refresh, disturbed>>

\* revokeSession: one updateMany of the session of the cookie.
LogoutRevoke(t) ==
    /\ form[t].at = "logout"
    /\ LET s == form[t].presented IN
        session' = IF s # 0 /\ Live(s)
                   THEN [session EXCEPT ![s].state = "REVOKED"] ELSE session
    /\ SetForm(t, [form[t] EXCEPT !.at = "logoutDone"])
    /\ disturbed' = (disturbed \/ InFlight # {})
    /\ UNCHANGED <<expired, staff, cookie, access, call, refresh>>

\* The answer clears the cookie; a lost one is ignored, and the cookie stays.
LogoutAnswered(t) ==
    /\ form[t].at = "logoutDone"
    /\ \/ cookie' = 0 /\ UNCHANGED disturbed
       \/ UNCHANGED cookie /\ disturbed' = TRUE
    /\ access' = [access EXCEPT ![t] = "NONE"]
    /\ SetForm(t, NoForm)
    /\ UNCHANGED <<session, expired, staff, call, refresh>>

-------------------------------------------------------------------------------
(* updateStaff: the sessions are revoked first, the status is set next.    *)

SuspendRevoke ==
    /\ active /\ ~suspending
    /\ session' = Revoked
    /\ suspending' = TRUE
    /\ disturbed' = TRUE
    /\ UNCHANGED <<expired, active, browser, refresh>>

SuspendSet ==
    /\ suspending
    /\ active' = FALSE
    /\ suspending' = FALSE
    /\ UNCHANGED <<session, expired, browser, refresh, disturbed>>

Reinstate ==
    /\ ~active
    /\ active' = TRUE
    /\ UNCHANGED <<session, expired, suspending, browser, refresh, disturbed>>

\* The 30 days of a session are over.
SessionExpires(s) ==
    /\ session[s].state # "NONE" /\ s \notin expired
    /\ expired' = expired \cup {s}
    /\ UNCHANGED <<session, staff, browser, refresh, disturbed>>

-------------------------------------------------------------------------------
Init ==
    /\ session = [s \in Sessions |-> NoSession]
    /\ expired = {}
    /\ active = TRUE
    /\ suspending = FALSE
    /\ cookie = 0
    /\ access = [t \in Tabs |-> "NONE"]
    /\ call = [c \in Calls |-> "idle"]
    /\ refresh = [c \in Calls |-> NoRefresh]
    /\ form = [t \in Tabs |-> NoForm]
    /\ disturbed = FALSE

RefreshHandler(c) ==
    \/ RefreshRead(c)
    \/ RotateRead(c)
    \/ RevokeFamily(c)
    \/ Retire(c)
    \/ Successor(c)
    \/ StaffRead(c)
    \/ RefreshBreaks(c)

Answer(c) ==
    \/ RefreshGranted(c)
    \/ RefreshFailed(c)
    \/ RefreshUnheard(c)

SignInOrOut(t) ==
    \/ Login(t)
    \/ LoginRead(t)
    \/ LoginInsert(t)
    \/ LoginAnswered(t)
    \/ Logout(t)
    \/ LogoutRevoke(t)
    \/ LogoutAnswered(t)

Next ==
    \/ \E t \in Tabs : AccessExpires(t) \/ Reload(t) \/ SignInOrOut(t)
    \/ \E c \in Calls : \/ CallRejected(c) \/ TryRefresh(c)
                        \/ RefreshHandler(c) \/ Answer(c)
    \/ SuspendRevoke \/ SuspendSet \/ Reinstate
    \/ \E s \in Sessions : SessionExpires(s)

Spec == Init /\ [][Next]_vars

\* A tab handles the answers it gets, and a refresh that was sent is handled and
\* answered, if only by an error; nobody is obliged to make a call.
Fairness ==
    \A c \in Calls :
        /\ WF_vars(TryRefresh(c))
        /\ WF_vars(RefreshHandler(c))
        /\ WF_vars(Answer(c))
FairSpec == Spec /\ Fairness

-------------------------------------------------------------------------------
(* Properties                                                              *)

\* Every row, call, refresh and form is well formed.
TypeOK ==
    /\ session \in [Sessions -> SessionRow]
    /\ expired \subseteq Sessions
    /\ active \in BOOLEAN /\ suspending \in BOOLEAN /\ disturbed \in BOOLEAN
    /\ cookie \in {0} \cup Sessions
    /\ access \in [Tabs -> {"NONE", "VALID", "STALE"}]
    /\ call \in [Calls -> {"idle", "rejected", "waiting"}]
    /\ refresh \in [Calls -> RefreshState]
    /\ form \in [Tabs -> FormState]

\* A session that was rotated is revoked before its successor exists and stays
\* so: a refresh token and one that replaced it are never both usable, however
\* refreshes, sign-outs and suspensions interleave.
RotatedIsRevoked ==
    \A s \in Sessions : LET r == session[s].rotatedFrom IN
        r # 0 => session[r].state = "REVOKED"

Quiet == InFlight = {} /\ \A t \in Tabs : form[t] = NoForm

\* With a single tab, the refreshes of many calls at once never sign the member
\* of staff out: when all is quiet, the cookie holds a session that is live,
\* unless the answer to a refresh was lost, a refresh broke off between the
\* revoking of its session and its answer, a sign-out overtook one, the member
\* was suspended, or the 30 days are over.
StaysSignedIn ==
    (Cardinality(Tabs) = 1 /\ Quiet /\ ~disturbed /\ cookie # 0
        /\ cookie \notin expired)
            => Live(cookie)

\* No call waits for a refresh for ever.
WaitEnds == \A c \in Calls : (call[c] = "waiting") ~> (call[c] # "waiting")

-------------------------------------------------------------------------------
(* Claims of the documentation that the code does not keep                 *)

\* A refresh token is used once: a session has at most one successor.
OneSuccessor ==
    \A s, r \in Sessions :
        session[s].rotatedFrom # 0 /\ session[s].rotatedFrom = session[r].rotatedFrom
            => s = r

\* "Logout: revoke refresh family": when a sign-out is answered, no successor
\* of the session it presented is live.
LogoutEndsFamily ==
    [][\A t \in Tabs :
        form[t].at = "logoutDone" /\ form'[t] = NoForm =>
            \A s \in Sessions :
                form[t].presented # 0 /\ session[s].rotatedFrom = form[t].presented
                    => session[s].state # "LIVE"]_vars
===============================================================================
