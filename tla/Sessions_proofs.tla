---------------------------- MODULE Sessions_proofs ----------------------------
(***************************************************************************)
(* Theorems about Sessions.tla, for every number of sessions, tabs and     *)
(* calls; about Accounts.tla, for any number of handlers and reset links   *)
(* and any limit of wrong passwords; and about Guests.tla, for any number  *)
(* of members, any roles that a resort defines and any number of changes.  *)
(*                                                                         *)
(* Accounts: while no two handlers are in flight at once, what one of them *)
(* has read is still so when it writes (Current); then the wrong passwords *)
(* that have been compared are never more than the count (Counted), and    *)
(* the password of the row is the one of every session (Reset).            *)
(*                                                                         *)
(* Guests: a save is only written while the member may edit; unless the    *)
(* role was set since, the member could edit when the profile was read, so *)
(* that it was read whole (Whole); and a whole profile that nobody has     *)
(* meddled with is the row, but for the column being saved (Fresh).        *)
(***************************************************************************)
EXTENDS Sessions, Accounts, Guests, FiniteSetTheorems, TLAPS

USE SessionsAssumption DEF SessionsAssumption, Sessions

-------------------------------------------------------------------------------
(* Type correctness                                                        *)

\* A session that changes its state is a session row.
LEMMA SessionUpdates ==
    ASSUME NEW row \in SessionRow, NEW st \in {"NONE", "LIVE", "REVOKED"}
    PROVE  [row EXCEPT !.state = st] \in SessionRow
  BY DEF SessionRow

\* A refresh that advances is a refresh.
LEMMA RefreshAdvances ==
    ASSUME NEW row \in RefreshState,
           NEW at \in {"none", "read", "rotate", "revokeAll", "retire", "insert",
                       "check", "granted", "denied"}
    PROVE  [row EXCEPT !.at = at] \in RefreshState
  BY DEF RefreshState

\* Past the reading of the cookie, a refresh presents a session that exists.
Presents ==
    \A c \in Calls :
        refresh[c].at \in {"rotate", "revokeAll", "retire", "insert"} =>
            refresh[c].presented \in Sessions

TypeInv == TypeOK /\ Presents

\* A handler that goes on keeps what its refresh presents.
LEMMA AdvanceKeeps ==
    ASSUME TypeInv, NEW c \in Calls,
           NEW to \in {"none", "read", "rotate", "revokeAll", "retire", "insert",
                       "check", "granted", "denied"},
           Advance(c, to),
           to \in {"rotate", "revokeAll", "retire", "insert"}
                => refresh[c].presented \in Sessions
    PROVE  refresh' \in [Calls -> RefreshState] /\ Presents'
<1>1. refresh \in [Calls -> RefreshState]
  BY DEF TypeInv, TypeOK
<1>2. refresh' = [refresh EXCEPT ![c] = [refresh[c] EXCEPT !.at = to]]
  BY <1>1 DEF Advance
<1>3. [refresh[c] EXCEPT !.at = to] \in RefreshState
  BY <1>1, RefreshAdvances
<1>4. /\ [refresh[c] EXCEPT !.at = to].at = to
      /\ [refresh[c] EXCEPT !.at = to].presented = refresh[c].presented
  BY <1>1 DEF RefreshState
<1>5. refresh' \in [Calls -> RefreshState]
  BY <1>1, <1>2, <1>3
<1>6. /\ refresh'[c].at = to
      /\ refresh'[c].presented = refresh[c].presented
      /\ \A d \in Calls : d # c => refresh'[d] = refresh[d]
  BY <1>1, <1>2, <1>4
<1>7. Presents'
  BY <1>6 DEF TypeInv, Presents
<1>8. QED
  BY <1>5, <1>7

\* Every step keeps rows, calls, refreshes and forms well formed.
LEMMA TypeStep == TypeInv /\ [Next]_vars => TypeInv'
<1> SUFFICES ASSUME TypeInv, [Next]_vars PROVE TypeInv'
  OBVIOUS
<1> USE DEF TypeInv, TypeOK, Presents, browser, staff, vars
<1>1. ASSUME NEW t \in Tabs, AccessExpires(t) PROVE TypeInv'
  BY <1>1 DEF AccessExpires
<1>2. ASSUME NEW c \in Calls, CallRejected(c) PROVE TypeInv'
  BY <1>2 DEF CallRejected
<1>3. ASSUME NEW c \in Calls, TryRefresh(c) PROVE TypeInv'
  <2>1. [at |-> "read", presented |-> cookie, new |-> 0, heard |-> TRUE]
            \in RefreshState
    BY DEF RefreshState
  <2>2. QED
    <3>1. \/ refresh' = refresh
          \/ refresh' = [refresh EXCEPT ![c] =
                [at |-> "read", presented |-> cookie, new |-> 0, heard |-> TRUE]]
      BY <1>3 DEF TryRefresh
    <3>2. refresh' \in [Calls -> RefreshState]
      BY <2>1, <3>1
    <3>3. Presents'
      BY <3>1
    <3>4. QED
      BY <1>3, <3>2, <3>3 DEF TryRefresh
<1>4. ASSUME NEW c \in Calls, RefreshGranted(c) PROVE TypeInv'
  <2>1. NoRefresh \in RefreshState
    BY DEF RefreshState, NoRefresh
  <2>2. refresh[c].new \in {0} \cup Sessions
    BY DEF RefreshState
  <2>3. TabOf[c] \in Tabs
    OBVIOUS
  <2>4. QED
    BY <1>4, <2>1, <2>2, <2>3 DEF RefreshGranted, NoRefresh
<1>5. ASSUME NEW c \in Calls, RefreshFailed(c) PROVE TypeInv'
  <2>1. NoRefresh \in RefreshState
    BY DEF RefreshState, NoRefresh
  <2>2. QED
    BY <1>5, <2>1 DEF RefreshFailed, NoRefresh
<1>6. ASSUME NEW t \in Tabs, Reload(t) PROVE TypeInv'
  <2>1. \A c \in Calls : [refresh[c] EXCEPT !.heard = FALSE] \in RefreshState
    BY ZenonT(40) DEF RefreshState
  <2>2. refresh' \in [Calls -> RefreshState]
    BY <1>6, <2>1 DEF Reload
  <2>3. \A c \in Calls : refresh'[c].at = refresh[c].at
                         /\ refresh'[c].presented = refresh[c].presented
    BY <1>6 DEF Reload, RefreshState
  <2>4. QED
    BY <1>6, <2>2, <2>3 DEF Reload
<1>7. ASSUME NEW c \in Calls, RefreshUnheard(c) PROVE TypeInv'
  <2>1. NoRefresh \in RefreshState
    BY DEF RefreshState, NoRefresh
  <2>2. QED
    BY <1>7, <2>1 DEF RefreshUnheard, NoRefresh
<1>8. ASSUME NEW c \in Calls, RefreshHandler(c) PROVE TypeInv'
  <2>1. refresh[c] \in RefreshState /\ refresh[c].presented \in {0} \cup Sessions
    BY DEF RefreshState
  <2>2. CASE RefreshRead(c)
    <3>1. Advance(c, "denied") \/ (Advance(c, "rotate") /\ refresh[c].presented # 0)
      BY <2>2 DEF RefreshRead
    <3>2. refresh' \in [Calls -> RefreshState] /\ Presents'
      BY <2>1, <3>1, AdvanceKeeps
    <3>3. QED
      BY <2>2, <3>2 DEF RefreshRead
  <2>3. CASE RotateRead(c)
    <3>1. /\ refresh[c].presented \in Sessions
          /\ Advance(c, "revokeAll") \/ Advance(c, "denied") \/ Advance(c, "retire")
      BY <2>3 DEF RotateRead
    <3>2. refresh' \in [Calls -> RefreshState] /\ Presents'
      BY <3>1, AdvanceKeeps
    <3>3. QED
      BY <2>3, <3>2 DEF RotateRead
  <2>4. CASE RevokeFamily(c)
    <3>1. session' \in [Sessions -> SessionRow]
      BY <2>4, SessionUpdates DEF RevokeFamily, Revoked
    <3>2. refresh' \in [Calls -> RefreshState] /\ Presents'
      BY <2>4, AdvanceKeeps DEF RevokeFamily
    <3>3. QED
      BY <2>4, <3>1, <3>2 DEF RevokeFamily
  <2>5. CASE Retire(c)
    <3>1. refresh[c].presented \in Sessions
      BY <2>5 DEF Retire
    <3>2. session' \in [Sessions -> SessionRow]
      BY <2>5, <3>1, SessionUpdates DEF Retire
    <3>3. refresh' \in [Calls -> RefreshState] /\ Presents'
      BY <2>5, <3>1, AdvanceKeeps DEF Retire
    <3>4. QED
      BY <2>5, <3>2, <3>3 DEF Retire
  <2>6. CASE Successor(c)
    <3>1. PICK s \in Sessions :
            /\ SessionCreated(s, refresh[c].presented)
            /\ refresh' = [refresh EXCEPT ![c].at = "check", ![c].new = s]
      BY <2>6 DEF Successor
    <3>2. session' \in [Sessions -> SessionRow]
      BY <2>1, <3>1 DEF SessionCreated, SessionRow
    <3>3. [refresh[c] EXCEPT !.at = "check", !.new = s] \in RefreshState
      BY <2>1 DEF RefreshState
    <3>4. refresh' \in [Calls -> RefreshState]
      BY <3>1, <3>3
    <3>5. QED
      BY <2>6, <3>1, <3>2, <3>4 DEF Successor, RefreshState
  <2>7. CASE StaffRead(c)
    <3>1. Advance(c, "granted") \/ Advance(c, "denied")
      BY <2>7 DEF StaffRead
    <3>2. refresh' \in [Calls -> RefreshState] /\ Presents'
      BY <3>1, AdvanceKeeps
    <3>3. QED
      BY <2>7, <3>2 DEF StaffRead
  <2>8. CASE RefreshBreaks(c)
    <3>1. refresh' \in [Calls -> RefreshState] /\ Presents'
      BY <2>8, AdvanceKeeps DEF RefreshBreaks
    <3>2. disturbed' \in BOOLEAN
      BY <2>8 DEF RefreshBreaks
    <3>3. QED
      BY <2>8, <3>1, <3>2 DEF RefreshBreaks
  <2>9. QED
    BY <1>8, <2>2, <2>3, <2>4, <2>5, <2>6, <2>7, <2>8 DEF RefreshHandler
<1>9. ASSUME NEW t \in Tabs, SignInOrOut(t) PROVE TypeInv'
  <2> USE DEF SetForm, NoForm
  <2>1. form[t].presented \in {0} \cup Sessions /\ form[t].new \in {0} \cup Sessions
    BY DEF FormState
  <2>2. CASE Login(t)
    BY <2>2 DEF Login, FormState
  <2>3. CASE LoginRead(t)
    BY <2>3 DEF LoginRead, FormState
  <2>4. CASE LoginInsert(t)
    <3>0. PICK s \in Sessions :
            /\ SessionCreated(s, 0)
            /\ form' = [form EXCEPT ![t] =
                    [NoForm EXCEPT !.at = "loginGranted", !.new = s]]
      BY <2>4 DEF LoginInsert
    <3>1. [NoForm EXCEPT !.at = "loginGranted", !.new = s] \in FormState
      <4>1. NoForm \in FormState
        BY DEF FormState
      <4>2. \A f \in FormState :
                [f EXCEPT !.at = "loginGranted", !.new = s] \in FormState
        BY DEF FormState
      <4>3. QED
        BY <4>1, <4>2
    <3>2. session' \in [Sessions -> SessionRow]
      BY <3>0 DEF SessionCreated, SessionRow
    <3>3. form' \in [Tabs -> FormState]
      BY <3>0, <3>1
    <3>4. QED
      BY <2>4, <3>2, <3>3 DEF LoginInsert
  <2>5. CASE LoginAnswered(t)
    BY <2>1, <2>5 DEF LoginAnswered, FormState
  <2>6. CASE Logout(t)
    BY <2>6 DEF Logout, FormState
  <2>7. CASE LogoutRevoke(t)
    <3>1. session' \in [Sessions -> SessionRow]
      BY <2>1, <2>7, SessionUpdates DEF LogoutRevoke
    <3>2. [form[t] EXCEPT !.at = "logoutDone"] \in FormState
      BY DEF FormState
    <3>3. QED
      BY <2>7, <3>1, <3>2 DEF LogoutRevoke
  <2>8. CASE LogoutAnswered(t)
    BY <2>8 DEF LogoutAnswered, FormState
  <2>9. QED
    BY <1>9, <2>2, <2>3, <2>4, <2>5, <2>6, <2>7, <2>8 DEF SignInOrOut
<1>10. CASE SuspendRevoke
  <2>1. session' \in [Sessions -> SessionRow]
    BY <1>10, SessionUpdates DEF SuspendRevoke, Revoked
  <2>2. QED
    BY <1>10, <2>1 DEF SuspendRevoke
<1>11. CASE SuspendSet
  BY <1>11 DEF SuspendSet
<1>12. CASE Reinstate
  BY <1>12 DEF Reinstate
<1>13. ASSUME NEW s \in Sessions, SessionExpires(s) PROVE TypeInv'
  BY <1>13 DEF SessionExpires
<1>14. CASE UNCHANGED vars
  BY <1>14
<1>15. QED
  BY <1>1, <1>2, <1>3, <1>4, <1>5, <1>6, <1>7, <1>8, <1>9, <1>10, <1>11,
     <1>12, <1>13, <1>14 DEF Next, Answer

\* The initial state has its types.
LEMMA InitTypeInv == Init => TypeInv
<1> SUFFICES ASSUME Init PROVE TypeInv
  OBVIOUS
<1>1. /\ NoSession \in SessionRow
      /\ NoRefresh \in RefreshState
      /\ NoForm \in FormState
  BY DEF NoSession, NoRefresh, NoForm, SessionRow, RefreshState, FormState
<1>2. TypeOK
  BY <1>1 DEF Init, TypeOK
<1>3. Presents
  BY DEF Init, Presents, NoRefresh
<1>4. QED
  BY <1>2, <1>3 DEF TypeInv

\* Rows, calls, refreshes and forms are always well formed.
THEOREM TypeCorrect == Spec => []TypeOK
<1>1. Init => TypeInv
  BY InitTypeInv
<1>2. TypeInv => TypeOK
  BY DEF TypeInv
<1>3. QED
  BY <1>1, <1>2, TypeStep, PTL DEF Spec

-------------------------------------------------------------------------------
(* Chains of rotations                                                     *)

\* When a refresh inserts the successor of a session, that one is revoked.
InsertsAfterRevoke ==
    \A c \in Calls :
        refresh[c].at = "insert" => session[refresh[c].presented].state = "REVOKED"

ChainInv == TypeInv /\ RotatedIsRevoked /\ InsertsAfterRevoke

\* Revoking sessions keeps what is revoked revoked, and the chains as they are.
LEMMA RevokingIsSafe ==
    ASSUME ChainInv, TypeInv',
           \A s \in Sessions : /\ session'[s].rotatedFrom = session[s].rotatedFrom
                               /\ Live(s) \/ session'[s].state = session[s].state
                               /\ session'[s].state \in {session[s].state, "REVOKED"},
           \A c \in Calls : refresh'[c].at = "insert" =>
                /\ refresh[c].at = "insert"
                /\ refresh'[c].presented = refresh[c].presented
    PROVE  ChainInv'
<1>1. \A s \in Sessions : session[s].state = "REVOKED" => session'[s].state = "REVOKED"
  OBVIOUS
<1>2. \A s \in Sessions : session[s].rotatedFrom \in {0} \cup Sessions
  BY DEF ChainInv, TypeInv, TypeOK, SessionRow
<1>3. RotatedIsRevoked'
  BY <1>1, <1>2 DEF ChainInv, RotatedIsRevoked
<1>4. InsertsAfterRevoke'
  BY <1>1 DEF ChainInv, InsertsAfterRevoke, TypeInv, Presents
<1>5. QED
  BY <1>3, <1>4 DEF ChainInv

\* A new row is nobody's predecessor, and its own predecessor is revoked.
LEMMA CreatingIsSafe ==
    ASSUME ChainInv, TypeInv', NEW s \in Sessions, IsNextSession(s),
           NEW from \in {0} \cup Sessions, SessionCreated(s, from),
           from # 0 => session[from].state = "REVOKED",
           \A c \in Calls : refresh'[c].at = "insert" =>
                /\ refresh[c].at = "insert"
                /\ refresh'[c].presented = refresh[c].presented
    PROVE  ChainInv'
<1>1. session[s].state = "NONE"
  BY DEF IsNextSession
<1>2. session' = [session EXCEPT ![s] = [state |-> "LIVE", rotatedFrom |-> from]]
  BY DEF SessionCreated
<1>3. /\ session'[s].rotatedFrom = from
      /\ \A r \in Sessions : r # s => session'[r] = session[r]
  BY <1>2 DEF ChainInv, TypeInv, TypeOK
<1>4. \A r \in Sessions : session[r].state = "REVOKED" => session'[r].state = "REVOKED"
  BY <1>1, <1>3
<1>5. \A r \in Sessions : session[r].rotatedFrom \in {0} \cup Sessions
  BY DEF ChainInv, TypeInv, TypeOK, SessionRow
<1>6. RotatedIsRevoked'
  BY <1>3, <1>4, <1>5 DEF ChainInv, RotatedIsRevoked
<1>7. InsertsAfterRevoke'
  BY <1>4 DEF ChainInv, InsertsAfterRevoke, TypeInv, Presents
<1>8. QED
  BY <1>6, <1>7 DEF ChainInv

\* Every step keeps the chains: a session is inserted after the one it replaces is revoked.
LEMMA ChainStep == ChainInv /\ [Next]_vars => ChainInv'
<1> SUFFICES ASSUME ChainInv, [Next]_vars PROVE ChainInv'
  OBVIOUS
<1>1. TypeInv /\ TypeInv'
  BY TypeStep DEF ChainInv
<1>2. session \in [Sessions -> SessionRow] /\ refresh \in [Calls -> RefreshState]
  BY <1>1 DEF TypeInv, TypeOK
<1>3. \A s \in Sessions : session[s].state \in {"NONE", "LIVE", "REVOKED"}
  BY <1>2 DEF SessionRow
<1> DEFINE Steady == \A c \in Calls : refresh'[c].at = "insert" =>
                        /\ refresh[c].at = "insert"
                        /\ refresh'[c].presented = refresh[c].presented
<1>4. CASE UNCHANGED session /\ Steady
  BY <1>1, <1>4, RevokingIsSafe
<1>5. CASE session' = Revoked /\ Steady
  <2>1. \A s \in Sessions :
            /\ session'[s].rotatedFrom = session[s].rotatedFrom
            /\ Live(s) \/ session'[s].state = session[s].state
            /\ session'[s].state \in {session[s].state, "REVOKED"}
    BY <1>2, <1>5 DEF Revoked, SessionRow
  <2>2. QED
    BY <1>1, <1>5, <2>1, RevokingIsSafe
<1>6. ASSUME NEW c \in Calls, Retire(c) PROVE ChainInv'
  <2> DEFINE p == refresh[c].presented
  <2>1. p \in Sessions
    BY <1>1, <1>6 DEF TypeInv, Presents, Retire
  <2>2. /\ session'[p].state = "REVOKED"
        /\ session'[p].rotatedFrom = session[p].rotatedFrom
        /\ \A s \in Sessions : s # p => session'[s] = session[s]
    BY <1>2, <1>6, <2>1 DEF Retire, SessionRow
  <2>3. \A s \in Sessions : session[s].rotatedFrom \in {0} \cup Sessions
    BY <1>2 DEF SessionRow
  <2>4. \A s \in Sessions : session[s].state = "REVOKED" => session'[s].state = "REVOKED"
    BY <2>2
  <2>5. RotatedIsRevoked'
    BY <2>2, <2>3, <2>4 DEF ChainInv, RotatedIsRevoked
  <2>6. \A d \in Calls : d # c => refresh'[d] = refresh[d]
    BY <1>2, <1>6 DEF Retire, Advance
  <2>7. refresh'[c].presented = p
    BY <1>2, <1>6 DEF Retire, Advance, RefreshState
  <2>8. InsertsAfterRevoke'
    BY <1>1, <2>2, <2>4, <2>6, <2>7
       DEF ChainInv, InsertsAfterRevoke, TypeInv, Presents
  <2>9. QED
    BY <1>1, <2>5, <2>8 DEF ChainInv
<1>7. ASSUME NEW c \in Calls, Successor(c) PROVE ChainInv'
  <2>1. PICK s \in Sessions :
            /\ IsNextSession(s)
            /\ SessionCreated(s, refresh[c].presented)
            /\ refresh' = [refresh EXCEPT ![c].at = "check", ![c].new = s]
    BY <1>7 DEF Successor
  <2>2. Steady
    BY <1>2, <2>1 DEF RefreshState
  <2>3. /\ refresh[c].presented \in Sessions
        /\ session[refresh[c].presented].state = "REVOKED"
    BY <1>1, <1>7 DEF Successor, TypeInv, Presents, ChainInv, InsertsAfterRevoke
  <2>4. QED
    BY <1>1, <2>1, <2>2, <2>3, CreatingIsSafe
<1>8. ASSUME NEW t \in Tabs, LoginInsert(t) PROVE ChainInv'
  <2>1. PICK s \in Sessions : IsNextSession(s) /\ SessionCreated(s, 0)
    BY <1>8 DEF LoginInsert
  <2>2. Steady
    BY <1>8 DEF LoginInsert
  <2>3. QED
    BY <1>1, <2>1, <2>2, CreatingIsSafe
<1>9. ASSUME NEW t \in Tabs, LogoutRevoke(t) PROVE ChainInv'
  <2>1. Steady
    BY <1>9 DEF LogoutRevoke
  <2>2. form[t].presented \in {0} \cup Sessions
    BY <1>1 DEF TypeInv, TypeOK, FormState
  <2>3. \A s \in Sessions :
            /\ session'[s].rotatedFrom = session[s].rotatedFrom
            /\ Live(s) \/ session'[s].state = session[s].state
            /\ session'[s].state \in {session[s].state, "REVOKED"}
    BY <1>2, <1>9, <2>2 DEF LogoutRevoke, Live, SessionRow
  <2>4. QED
    BY <1>1, <2>1, <2>3, RevokingIsSafe
<1>10. ASSUME NEW c \in Calls, RevokeFamily(c) PROVE ChainInv'
  <2>1. Steady
    BY <1>2, <1>10 DEF RevokeFamily, Advance, RefreshState
  <2>2. QED
    BY <1>5, <1>10, <2>1 DEF RevokeFamily
<1>11. ASSUME NEW c \in Calls,
              RefreshRead(c) \/ RotateRead(c) \/ StaffRead(c) \/ RefreshBreaks(c)
       PROVE  ChainInv'
  <2>1. Steady /\ UNCHANGED session
    BY <1>2, <1>11 DEF RefreshRead, RotateRead, StaffRead, RefreshBreaks, Advance,
                       RefreshState
  <2>2. QED
    BY <1>4, <2>1
<1>12. ASSUME NEW c \in Calls,
              CallRejected(c) \/ TryRefresh(c) \/ Answer(c)
       PROVE  ChainInv'
  <2>1. Steady /\ UNCHANGED session
    BY <1>2, <1>12 DEF CallRejected, TryRefresh, Answer, RefreshGranted,
                       RefreshFailed, RefreshUnheard, NoRefresh, RefreshState
  <2>2. QED
    BY <1>4, <2>1
<1>13. ASSUME NEW t \in Tabs, Reload(t) PROVE ChainInv'
  <2>1. Steady /\ UNCHANGED session
    BY <1>2, <1>13 DEF Reload, RefreshState
  <2>2. QED
    BY <1>4, <2>1
<1>14. ASSUME NEW t \in Tabs,
              \/ AccessExpires(t) \/ Login(t) \/ LoginRead(t) \/ LoginAnswered(t)
              \/ Logout(t) \/ LogoutAnswered(t)
       PROVE  ChainInv'
  <2>1. UNCHANGED <<session, refresh>>
    BY <1>14 DEF AccessExpires, Login, LoginRead, LoginAnswered, Logout,
                 LogoutAnswered
  <2>2. QED
    BY <1>4, <2>1
<1>15. CASE SuspendRevoke
  BY <1>5, <1>15 DEF SuspendRevoke
<1>16. ASSUME \/ SuspendSet \/ Reinstate \/ UNCHANGED vars
              \/ \E s \in Sessions : SessionExpires(s)
       PROVE  ChainInv'
  <2>1. UNCHANGED <<session, refresh>>
    BY <1>16 DEF SuspendSet, Reinstate, SessionExpires, vars
  <2>2. QED
    BY <1>4, <2>1
<1>17. QED
  BY <1>6, <1>7, <1>8, <1>9, <1>10, <1>11, <1>12, <1>13, <1>14, <1>15, <1>16
     DEF Next, SignInOrOut, RefreshHandler

\* A session and the one it was rotated from are never both usable.
THEOREM ChainsHaveOneLiveEnd == Spec => []RotatedIsRevoked
<1>1. Init => ChainInv
  <2>1. Init => RotatedIsRevoked
    BY DEF Init, RotatedIsRevoked, NoSession
  <2>2. Init => InsertsAfterRevoke
    BY DEF Init, InsertsAfterRevoke, NoRefresh
  <2>3. QED
    BY <2>1, <2>2, InitTypeInv DEF ChainInv
<1>2. ChainInv => RotatedIsRevoked
  BY DEF ChainInv
<1>3. QED
  BY <1>1, <1>2, ChainStep, PTL DEF Spec

-------------------------------------------------------------------------------
(* A single tab                                                            *)

\* Tokens that are in use are of sessions that exist.
Exists(s) == session[s].state # "NONE"
TokensExist ==
    /\ cookie # 0 => Exists(cookie)
    /\ \A c \in Calls : /\ refresh[c].presented # 0 => Exists(refresh[c].presented)
                        /\ refresh[c].new # 0 => Exists(refresh[c].new)
    /\ \A t \in Tabs : form[t].new # 0 => Exists(form[t].new)

\* Undisturbed, the tab has one refresh in flight at most, and waits for it.
OneRefresh ==
    /\ active /\ ~suspending
    /\ \A c, d \in InFlight : c = d
    /\ \A c \in InFlight : refresh[c].heard

\* What that refresh found still stands: it meets no token used twice, and the
\* session it has made is live.
RefreshSound ==
    \A c \in Calls :
        /\ refresh[c].at # "revokeAll"
        /\ refresh[c].at \in {"rotate", "retire"} => Live(refresh[c].presented)
        /\ refresh[c].at \in {"check", "granted"} =>
                refresh[c].new \in Sessions /\ Live(refresh[c].new)

\* The session a sign-in has made is live, and nobody but its answer knows it.
SignInSound ==
    \A t \in Tabs : form[t].at = "loginGranted" =>
        /\ form[t].new \in Sessions
        /\ Live(form[t].new)
        /\ cookie # form[t].new
        /\ \A c \in InFlight :
            refresh[c].presented # form[t].new /\ refresh[c].new # form[t].new

\* The cookie is of a live session, or its session is being replaced.
Replaced ==
    \E c \in Calls :
        /\ refresh[c].at \in {"insert", "check", "granted"}
        /\ refresh[c].presented = cookie
CookieSound ==
    cookie # 0 /\ cookie \notin expired /\ (\A t \in Tabs : form[t].at # "logoutDone")
        => Live(cookie) \/ Replaced

Undisturbed == OneRefresh /\ RefreshSound /\ SignInSound /\ CookieSound
SignedInv == TokensExist /\ (disturbed \/ Undisturbed)

\* Nobody is signed in and nothing in flight initially.
LEMMA InitSigned == Init => SignedInv
  BY DEF Init, SignedInv, TokensExist, Undisturbed, OneRefresh, RefreshSound,
         SignInSound, CookieSound, InFlight, NoRefresh, NoForm

\* A refresh that advances changes its own stage and nothing else of any refresh.
LEMMA AdvanceShape ==
    ASSUME TypeInv, NEW c \in Calls,
           NEW to \in {"denied", "rotate", "revokeAll", "retire", "insert", "check",
                       "granted"},
           Advance(c, to)
    PROVE  /\ refresh'[c].at = to
           /\ \A d \in Calls :
                /\ d # c => refresh'[d].at = refresh[d].at
                /\ refresh'[d].presented = refresh[d].presented
                /\ refresh'[d].new = refresh[d].new
                /\ refresh'[d].heard = refresh[d].heard
<1>1. refresh \in [Calls -> RefreshState]
  BY DEF TypeInv, TypeOK
<1>2. refresh' = [refresh EXCEPT ![c] = [refresh[c] EXCEPT !.at = to]]
  BY <1>1 DEF Advance
<1>3. refresh[c] \in RefreshState
  BY <1>1
<1>4. /\ [refresh[c] EXCEPT !.at = to].at = to
      /\ [refresh[c] EXCEPT !.at = to].presented = refresh[c].presented
      /\ [refresh[c] EXCEPT !.at = to].new = refresh[c].new
      /\ [refresh[c] EXCEPT !.at = to].heard = refresh[c].heard
  BY <1>3 DEF RefreshState
<1>5. QED
  BY <1>1, <1>2, <1>4

\* No row of the table ever disappears.
LEMMA ExistsKept ==
    ASSUME TypeInv, [Next]_vars, NEW s \in Sessions, Exists(s)
    PROVE  Exists(s)'
<1> USE DEF TypeInv, TypeOK, Exists
<1>1. session \in [Sessions -> SessionRow] /\ session[s] \in SessionRow
  OBVIOUS
<1>2. CASE UNCHANGED session
  BY <1>2
<1>3. CASE session' = Revoked
  BY <1>1, <1>3 DEF Revoked, Live, SessionRow
<1>4. ASSUME NEW r \in Sessions,
             session' = [session EXCEPT ![r].state = "REVOKED"] PROVE Exists(s)'
  BY <1>1, <1>4 DEF SessionRow
<1>5. ASSUME NEW r \in Sessions, NEW from, SessionCreated(r, from) PROVE Exists(s)'
  BY <1>1, <1>5 DEF SessionCreated
<1>6. CASE \E c \in Calls : Retire(c)
  <2>1. PICK c \in Calls : Retire(c)
    BY <1>6
  <2>2. refresh[c].presented \in Sessions
    BY <2>1 DEF Retire, Presents
  <2>3. QED
    BY <1>4, <2>1, <2>2 DEF Retire
<1>7. CASE \E t \in Tabs : LogoutRevoke(t)
  <2>1. PICK t \in Tabs : LogoutRevoke(t)
    BY <1>7
  <2>2. form[t].presented \in {0} \cup Sessions
    BY DEF FormState
  <2>3. QED
    BY <1>2, <1>4, <2>1, <2>2 DEF LogoutRevoke
<1>8. CASE \E c \in Calls : Successor(c)
  BY <1>5, <1>8 DEF Successor
<1>9. CASE \E t \in Tabs : LoginInsert(t)
  BY <1>5, <1>9 DEF LoginInsert
<1>10. QED
  BY <1>2, <1>3, <1>6, <1>7, <1>8, <1>9
     DEF Next, vars, RefreshHandler, Answer, SignInOrOut, browser, staff, AccessExpires,
         Reload, Login, LoginRead, LoginAnswered, Logout, LogoutAnswered, CallRejected,
         TryRefresh, RefreshRead, RotateRead, RevokeFamily, StaffRead, RefreshBreaks,
         RefreshGranted,
         RefreshFailed, RefreshUnheard, SuspendRevoke, SuspendSet, Reinstate,
         SessionExpires

\* A token that a cookie or a refresh carries is one of a row, after every step.
LEMMA TokensStep == TypeInv /\ TokensExist /\ [Next]_vars => TokensExist'
<1> SUFFICES ASSUME TypeInv, TokensExist, [Next]_vars PROVE TokensExist'
  OBVIOUS
<1>a. /\ session \in [Sessions -> SessionRow] /\ cookie \in {0} \cup Sessions
      /\ refresh \in [Calls -> RefreshState] /\ form \in [Tabs -> FormState]
      /\ \A c \in Calls : /\ refresh[c].presented \in {0} \cup Sessions
                          /\ refresh[c].new \in {0} \cup Sessions
      /\ \A t \in Tabs : form[t].new \in {0} \cup Sessions
  BY DEF TypeInv, TypeOK, RefreshState, FormState
<1>b. \A s \in Sessions : Exists(s) => Exists(s)'
  BY ExistsKept
<1>c. ASSUME NEW s \in Sessions, NEW from, SessionCreated(s, from) PROVE Exists(s)'
  BY <1>a, <1>c DEF SessionCreated, Exists
<1> DEFINE CookieKept == cookie' \in {cookie, 0}
           CallsKept == \A c \in Calls :
                /\ refresh'[c].presented \in {refresh[c].presented, cookie, 0}
                /\ refresh'[c].new \in {refresh[c].new, 0}
           FormsKept == \A t \in Tabs : form'[t].new \in {form[t].new, 0}
<1>1. CASE CookieKept /\ CallsKept /\ FormsKept
  BY <1>1, <1>a, <1>b DEF TokensExist
<1>2. ASSUME NEW c \in Calls,
             \/ RefreshRead(c) \/ RotateRead(c) \/ RevokeFamily(c) \/ Retire(c)
             \/ StaffRead(c) \/ RefreshBreaks(c)
      PROVE  CookieKept /\ CallsKept /\ FormsKept
  <2>1. \E to \in {"denied", "rotate", "revokeAll", "retire", "insert", "granted"} :
            Advance(c, to)
    BY <1>2 DEF RefreshRead, RotateRead, RevokeFamily, Retire, StaffRead, RefreshBreaks
  <2>2. UNCHANGED <<cookie, form>>
    BY <1>2 DEF RefreshRead, RotateRead, RevokeFamily, Retire, StaffRead, RefreshBreaks,
                browser
  <2>3. QED
    BY <2>1, <2>2, AdvanceShape
<1>3. ASSUME NEW c \in Calls, TryRefresh(c) \/ RefreshFailed(c) \/ RefreshUnheard(c)
      PROVE  CookieKept /\ CallsKept /\ FormsKept
  BY <1>3, <1>a DEF TryRefresh, RefreshFailed, RefreshUnheard, browser, NoRefresh
<1>4. ASSUME NEW t \in Tabs, Reload(t) PROVE CookieKept /\ CallsKept /\ FormsKept
  <2>1. \A c \in Calls :
            /\ [refresh[c] EXCEPT !.heard = FALSE].presented = refresh[c].presented
            /\ [refresh[c] EXCEPT !.heard = FALSE].new = refresh[c].new
    BY <1>a DEF RefreshState
  <2>2. QED
    BY <1>4, <2>1 DEF Reload
<1>5. ASSUME NEW t \in Tabs,
             Login(t) \/ LoginRead(t) \/ Logout(t) \/ LogoutRevoke(t) \/ LogoutAnswered(t)
      PROVE  CookieKept /\ CallsKept /\ FormsKept
  <2>1. \E f : SetForm(t, f) /\ f.new \in {form[t].new, 0}
    <3>1. CASE Login(t)
      BY <3>1 DEF Login, NoForm
    <3>2. CASE LoginRead(t)
      BY <3>2 DEF LoginRead, NoForm
    <3>3. CASE Logout(t)
      <4>1. [NoForm EXCEPT !.at = "logout", !.presented = cookie].new = 0
        BY DEF NoForm
      <4>2. QED
        BY <3>3, <4>1 DEF Logout
    <3>4. CASE LogoutRevoke(t)
      <4>1. [form[t] EXCEPT !.at = "logoutDone"].new = form[t].new
        BY <1>a DEF FormState
      <4>2. QED
        BY <3>4, <4>1 DEF LogoutRevoke
    <3>5. CASE LogoutAnswered(t)
      BY <3>5 DEF LogoutAnswered, NoForm
    <3>6. QED
      BY <1>5, <3>1, <3>2, <3>3, <3>4, <3>5
  <2>2. FormsKept
    BY <1>a, <2>1 DEF SetForm
  <2>3. CookieKept /\ UNCHANGED refresh
    BY <1>5 DEF Login, LoginRead, Logout, LogoutRevoke, LogoutAnswered
  <2>4. QED
    BY <2>2, <2>3
<1>6. ASSUME NEW c \in Calls, RefreshGranted(c) PROVE TokensExist'
  BY <1>6, <1>a, <1>b DEF RefreshGranted, TokensExist, NoRefresh
<1>7. ASSUME NEW t \in Tabs, LoginAnswered(t) PROVE TokensExist'
  BY <1>7, <1>a, <1>b DEF LoginAnswered, TokensExist, SetForm, NoForm
<1>8. ASSUME NEW c \in Calls, Successor(c) PROVE TokensExist'
  <2>1. PICK s \in Sessions :
            /\ SessionCreated(s, refresh[c].presented)
            /\ refresh' = [refresh EXCEPT ![c].at = "check", ![c].new = s]
    BY <1>8 DEF Successor
  <2>2. /\ refresh'[c].presented = refresh[c].presented
        /\ refresh'[c].new = s
        /\ \A d \in Calls : d # c => refresh'[d] = refresh[d]
    BY <1>a, <2>1 DEF RefreshState
  <2>3. UNCHANGED <<cookie, form>>
    BY <1>8 DEF Successor, browser
  <2>4. QED
    BY <1>a, <1>b, <1>c, <2>1, <2>2, <2>3 DEF TokensExist
<1>9. ASSUME NEW t \in Tabs, LoginInsert(t) PROVE TokensExist'
  <2>1. PICK s \in Sessions :
            /\ SessionCreated(s, 0)
            /\ SetForm(t, [NoForm EXCEPT !.at = "loginGranted", !.new = s])
    BY <1>9 DEF LoginInsert
  <2>2. form'[t].new = s /\ \A u \in Tabs : u # t => form'[u] = form[u]
    BY <1>a, <2>1 DEF SetForm, NoForm
  <2>3. UNCHANGED <<cookie, refresh>>
    BY <1>9 DEF LoginInsert
  <2>4. QED
    BY <1>a, <1>b, <1>c, <2>1, <2>2, <2>3 DEF TokensExist
<1>10. CASE UNCHANGED <<cookie, refresh, form>>
  BY <1>1, <1>10
<1>11. QED
  BY <1>1, <1>2, <1>3, <1>4, <1>5, <1>6, <1>7, <1>8, <1>9, <1>10
     DEF Next, vars, RefreshHandler, Answer, SignInOrOut, browser, staff, AccessExpires,
         CallRejected, SuspendRevoke, SuspendSet, Reinstate, SessionExpires

\* What has once been disturbed is never called undisturbed again.
LEMMA DisturbedStays ==
    ASSUME TypeInv, [Next]_vars, disturbed PROVE disturbed'
  BY DEF TypeInv, TypeOK, Next, vars, RefreshHandler, Answer, SignInOrOut, browser, staff,
         AccessExpires, CallRejected, TryRefresh, RefreshGranted, RefreshFailed, Reload,
         RefreshUnheard, RefreshRead, RotateRead, RevokeFamily, Retire, Successor,
         StaffRead, RefreshBreaks, Login, LoginRead, LoginInsert, LoginAnswered, Logout,
         LogoutRevoke,
         LogoutAnswered, SuspendRevoke, SuspendSet, Reinstate, SessionExpires

\* The only refresh takes a step of its handler that changes no session.
LEMMA HandlerSigned ==
    ASSUME TypeInv, Undisturbed, NEW c \in Calls, refresh[c].at # "none",
           NEW to \in {"denied", "rotate", "revokeAll", "retire", "insert", "check",
                       "granted"},
           Advance(c, to), UNCHANGED <<session, expired, staff, cookie, form>>,
           to # "revokeAll",
           to \in {"rotate", "retire"} => Live(refresh[c].presented),
           to \in {"check", "granted"} =>
                refresh[c].new \in Sessions /\ Live(refresh[c].new),
           refresh[c].at \in {"insert", "check", "granted"} => to = "granted"
    PROVE  Undisturbed'
<1>1. /\ refresh'[c].at = to
      /\ \A d \in Calls :
            /\ d # c => refresh'[d].at = refresh[d].at
            /\ refresh'[d].presented = refresh[d].presented
            /\ refresh'[d].new = refresh[d].new
            /\ refresh'[d].heard = refresh[d].heard
  BY AdvanceShape
<1>2. InFlight' = InFlight
  BY <1>1 DEF InFlight
<1>3. OneRefresh'
  BY <1>1, <1>2 DEF Undisturbed, OneRefresh, InFlight, staff
<1>4. RefreshSound'
  BY <1>1 DEF Undisturbed, RefreshSound, Live
<1>5. SignInSound'
  BY <1>1, <1>2 DEF Undisturbed, SignInSound, InFlight, Live
<1>6. Replaced => Replaced'
  BY <1>1 DEF Replaced
<1>7. CookieSound'
  BY <1>6 DEF Undisturbed, CookieSound, Live
<1>8. QED
  BY <1>3, <1>4, <1>5, <1>7 DEF Undisturbed

\* The only refresh is over, or none was in flight; no session changes.
LEMMA AnswerSigned ==
    ASSUME TypeInv, Undisturbed, NEW c \in Calls, refresh[c].at \in {"granted", "denied"},
           refresh' = [refresh EXCEPT ![c] = NoRefresh],
           UNCHANGED <<session, expired, staff, form>>,
           \/ refresh[c].at = "granted" /\ cookie' = refresh[c].new
           \/ refresh[c].at = "denied" /\ cookie' = cookie
    PROVE  Undisturbed'
<1>1. refresh \in [Calls -> RefreshState]
  BY DEF TypeInv, TypeOK
<1>2. refresh'[c] = NoRefresh /\ \A d \in Calls : d # c => refresh'[d] = refresh[d]
  BY <1>1
<1>3. c \in InFlight
  BY DEF InFlight
<1>4. InFlight' = {}
  BY <1>2, <1>3 DEF InFlight, NoRefresh, Undisturbed, OneRefresh
<1>5. OneRefresh'
  BY <1>4 DEF Undisturbed, OneRefresh, staff
<1>6. RefreshSound'
  BY <1>2 DEF Undisturbed, RefreshSound, Live, NoRefresh
<1>7. SignInSound'
  BY <1>3, <1>4 DEF Undisturbed, SignInSound, Live
<1>8. CookieSound'
  <2>1. CASE refresh[c].at = "granted" /\ cookie' = refresh[c].new
    BY <2>1 DEF Undisturbed, RefreshSound, CookieSound, Live
  <2>2. CASE refresh[c].at = "denied" /\ cookie' = cookie
    <3>1. ~Replaced
      BY <1>3, <2>2 DEF Replaced, InFlight, Undisturbed, OneRefresh
    <3>2. QED
      BY <2>2, <3>1 DEF Undisturbed, CookieSound, Live
  <2>3. QED
    BY <2>1, <2>2
<1>9. QED
  BY <1>5, <1>6, <1>7, <1>8 DEF Undisturbed

\* The tab sends a refresh: none was in flight.
LEMMA SentSigned ==
    ASSUME TypeInv, TokensExist, Undisturbed, InFlight = {}, NEW c \in Calls,
           refresh' = [refresh EXCEPT ![c] =
                [at |-> "read", presented |-> cookie, new |-> 0, heard |-> TRUE]],
           UNCHANGED <<session, expired, staff, cookie, form>>
    PROVE  Undisturbed'
<1>1. refresh \in [Calls -> RefreshState]
  BY DEF TypeInv, TypeOK
<1>2. /\ refresh'[c].at = "read"
      /\ refresh'[c].presented = cookie
      /\ refresh'[c].new = 0
      /\ refresh'[c].heard
      /\ \A d \in Calls : d # c => refresh'[d] = refresh[d]
  BY <1>1
<1>3. InFlight' = {c}
  BY <1>2 DEF InFlight
<1>4. OneRefresh'
  BY <1>2, <1>3 DEF Undisturbed, OneRefresh, staff
<1>5. RefreshSound'
  BY <1>2 DEF Undisturbed, RefreshSound, Live
<1>6. SignInSound'
  BY <1>2, <1>3 DEF Undisturbed, SignInSound, Live
<1>7. ~Replaced
  BY DEF Replaced, InFlight
<1>8. CookieSound'
  BY <1>7 DEF Undisturbed, CookieSound, Live
<1>9. QED
  BY <1>4, <1>5, <1>6, <1>8 DEF Undisturbed

\* The revocation of the presented session leaves its successor to come.
LEMMA RetireSigned ==
    ASSUME TypeInv, Undisturbed, NEW c \in Calls, Retire(c) PROVE Undisturbed'
<1>1. /\ refresh'[c].at = "insert"
      /\ \A d \in Calls :
            /\ d # c => refresh'[d].at = refresh[d].at
            /\ refresh'[d].presented = refresh[d].presented
            /\ refresh'[d].new = refresh[d].new
            /\ refresh'[d].heard = refresh[d].heard
  BY AdvanceShape DEF Retire
<1>2. c \in InFlight /\ InFlight' = InFlight
  BY <1>1 DEF InFlight, Retire
<1>3. /\ session \in [Sessions -> SessionRow]
      /\ refresh[c].presented \in Sessions
  BY DEF Retire, TypeInv, TypeOK, Presents
<1>4. \A s \in Sessions : s # refresh[c].presented => session'[s] = session[s]
  BY <1>3 DEF Retire
<1>5. UNCHANGED <<cookie, form, expired, active, suspending>>
  BY DEF Retire, browser, staff
<1>6. \A d \in Calls \ {c} : refresh[d].at = "none"
  BY <1>2 DEF InFlight, Undisturbed, OneRefresh
<1>7. OneRefresh'
  BY <1>1, <1>2, <1>5 DEF Undisturbed, OneRefresh, InFlight
<1>8. RefreshSound'
  BY <1>1, <1>6 DEF RefreshSound
<1>9. SignInSound'
  BY <1>1, <1>2, <1>4, <1>5 DEF Undisturbed, SignInSound, Live, InFlight
<1>10. CookieSound'
  <2>1. CASE cookie = refresh[c].presented
    BY <1>1, <1>5, <2>1 DEF CookieSound, Replaced
  <2>2. CASE cookie # refresh[c].presented
    <3>1. ~Replaced
      BY <1>6, <2>2 DEF Replaced, Retire
    <3>2. cookie \in {0} \cup Sessions
      BY DEF TypeInv, TypeOK
    <3>3. QED
      BY <1>4, <1>5, <2>2, <3>1, <3>2 DEF Undisturbed, CookieSound, Live
  <2>3. QED
    BY <2>1, <2>2
<1>11. QED
  BY <1>7, <1>8, <1>9, <1>10 DEF Undisturbed

\* A session nobody knows yet is made: the live ones stay so.
LEMMA LiveKept ==
    ASSUME TypeInv, NEW s \in Sessions, NEW from, IsNextSession(s), SessionCreated(s, from)
    PROVE  /\ Live(s)' /\ ~Exists(s)
           /\ \A r \in Sessions : Live(r) => Live(r)' /\ r # s
  BY DEF TypeInv, TypeOK, IsNextSession, SessionCreated, Live, Exists

\* The insertion of the successor leaves a session the answer will hand out.
LEMMA SuccessorSigned ==
    ASSUME TypeInv, TokensExist, Undisturbed, NEW c \in Calls, Successor(c)
    PROVE  Undisturbed'
<1>1. PICK s \in Sessions :
        /\ IsNextSession(s)
        /\ SessionCreated(s, refresh[c].presented)
        /\ refresh' = [refresh EXCEPT ![c].at = "check", ![c].new = s]
  BY DEF Successor
<1>2. refresh[c] \in RefreshState /\ refresh \in [Calls -> RefreshState]
  BY DEF TypeInv, TypeOK
<1>3. /\ refresh'[c].at = "check"
      /\ refresh'[c].new = s
      /\ refresh'[c].presented = refresh[c].presented
      /\ refresh'[c].heard = refresh[c].heard
      /\ \A d \in Calls : d # c => refresh'[d] = refresh[d]
  BY <1>1, <1>2 DEF RefreshState
<1>4. c \in InFlight /\ InFlight' = InFlight
  BY <1>3 DEF InFlight, Successor
<1>5. UNCHANGED <<cookie, form, expired, active, suspending>>
  BY DEF Successor, browser, staff
<1>6. Live(s)' /\ \A r \in Sessions : Live(r) => Live(r)' /\ r # s
  BY <1>1, LiveKept
<1>7. \A d \in Calls \ {c} : refresh[d].at = "none"
  BY <1>4 DEF InFlight, Undisturbed, OneRefresh
<1>8. OneRefresh'
  BY <1>3, <1>4, <1>5 DEF Undisturbed, OneRefresh, InFlight
<1>9. RefreshSound'
  BY <1>3, <1>6, <1>7 DEF RefreshSound, Live
<1>10. SignInSound'
  <2> SUFFICES ASSUME NEW t \in Tabs, form[t].at = "loginGranted"
               PROVE  /\ form[t].new \in Sessions
                      /\ Live(form[t].new)'
                      /\ cookie # form[t].new
                      /\ \A d \in InFlight : /\ refresh'[d].presented # form[t].new
                                             /\ refresh'[d].new # form[t].new
    BY <1>4, <1>5 DEF SignInSound, Live
  <2>1. /\ form[t].new \in Sessions
        /\ Live(form[t].new)
        /\ cookie # form[t].new
        /\ \A d \in InFlight :
            refresh[d].presented # form[t].new /\ refresh[d].new # form[t].new
    BY DEF Undisturbed, SignInSound
  <2>2. Live(form[t].new)' /\ form[t].new # s
    BY <1>5, <1>6, <2>1 DEF Live
  <2>3. QED
    BY <1>3, <2>1, <2>2 DEF InFlight
<1>11. Replaced => Replaced'
  BY <1>3, <1>5 DEF Replaced
<1>12. cookie \in Sessions /\ Live(cookie) => Live(cookie)'
  BY <1>5, <1>6 DEF Live
<1>13. CookieSound'
  <2>1. cookie \in {0} \cup Sessions
    BY DEF TypeInv, TypeOK
  <2>2. QED
    BY <1>5, <1>11, <1>12, <2>1 DEF Undisturbed, CookieSound
<1>14. QED
  BY <1>8, <1>9, <1>10, <1>13 DEF Undisturbed

\* A sign-in leaves a live session that its answer will hand out.
LEMMA LoginInsertSigned ==
    ASSUME TypeInv, TokensExist, Undisturbed, NEW t, Tabs = {t}, LoginInsert(t)
    PROVE  Undisturbed'
<1>1. PICK s \in Sessions :
        /\ IsNextSession(s)
        /\ SessionCreated(s, 0)
        /\ SetForm(t, [NoForm EXCEPT !.at = "loginGranted", !.new = s])
  BY DEF LoginInsert
<1>2. form'[t].at = "loginGranted" /\ form'[t].new = s
  BY <1>1 DEF SetForm, NoForm, TypeInv, TypeOK
<1>3. UNCHANGED <<refresh, cookie, expired, active, suspending>>
  BY DEF LoginInsert, staff
<1>4. Live(s)' /\ ~Exists(s) /\ \A r \in Sessions : Live(r) => Live(r)' /\ r # s
  BY <1>1, LiveKept
<1>5. OneRefresh'
  BY <1>3 DEF Undisturbed, OneRefresh, InFlight
<1>6. \A r \in Sessions : Live(r) => session'[r].state = "LIVE"
  BY <1>4 DEF Live
<1>7. RefreshSound'
  <2>1. \A c \in Calls : refresh[c].at \in {"rotate", "retire"} =>
                            refresh[c].presented \in Sessions
    BY DEF TypeInv, Presents
  <2>2. QED
    BY <1>3, <1>6, <2>1 DEF Undisturbed, RefreshSound, Live
<1>8. SignInSound'
  <2>1. s # 0 /\ session'[s].state = "LIVE"
    BY <1>4 DEF Live
  <2>2. /\ cookie # s
        /\ \A c \in Calls : refresh[c].presented # s /\ refresh[c].new # s
    BY <1>4, <2>1 DEF TokensExist
  <2>3. QED
    BY <1>2, <1>3, <2>1, <2>2 DEF SignInSound, InFlight, Live
<1>9. CookieSound'
  <2>1. cookie \in {0} \cup Sessions
    BY DEF TypeInv, TypeOK
  <2>2. form[t].at # "logoutDone"
    BY DEF LoginInsert
  <2>3. Replaced' <=> Replaced
    BY <1>3 DEF Replaced
  <2>4. QED
    BY <1>3, <1>6, <2>1, <2>2, <2>3 DEF Undisturbed, CookieSound, Live
<1>10. QED
  BY <1>5, <1>7, <1>8, <1>9 DEF Undisturbed

\* A sign-in or sign-out takes a step that changes no session.
LEMMA FormSigned ==
    ASSUME TypeInv, Undisturbed, NEW t, Tabs = {t},
           UNCHANGED <<session, expired, staff, refresh>>,
           form'[t].at # "loginGranted",
           \/ cookie' = 0
           \/ cookie' = cookie /\ form[t].at # "logoutDone"
           \/ cookie' = form[t].new /\ form[t].at = "loginGranted"
    PROVE  Undisturbed'
<1>1. OneRefresh' /\ RefreshSound' /\ SignInSound'
  BY DEF Undisturbed, OneRefresh, RefreshSound, SignInSound, InFlight, Live, staff
<1>2. CookieSound'
  <2>1. CASE cookie' = 0
    BY <2>1 DEF CookieSound
  <2>2. CASE cookie' = cookie /\ form[t].at # "logoutDone"
    BY <2>2 DEF Undisturbed, CookieSound, Live, Replaced
  <2>3. CASE cookie' = form[t].new /\ form[t].at = "loginGranted"
    BY <2>3 DEF Undisturbed, SignInSound, CookieSound, Live
  <2>4. QED
    BY <2>1, <2>2, <2>3
<1>3. QED
  BY <1>1, <1>2 DEF Undisturbed

\* A sign-out revokes when no refresh is in flight, or it is a disturbance.
LEMMA LogoutSigned ==
    ASSUME TypeInv, Undisturbed, NEW t, Tabs = {t}, LogoutRevoke(t), InFlight = {}
    PROVE  Undisturbed'
<1>1. form'[t].at = "logoutDone"
  BY DEF LogoutRevoke, SetForm, TypeInv, TypeOK, FormState
<1>2. \A c \in Calls : refresh'[c].at = "none"
  BY DEF InFlight, LogoutRevoke
<1>3. OneRefresh' /\ RefreshSound' /\ SignInSound' /\ CookieSound'
  BY <1>1, <1>2
     DEF Undisturbed, OneRefresh, RefreshSound, SignInSound, CookieSound, InFlight,
         LogoutRevoke, staff
<1>4. QED
  BY <1>3 DEF Undisturbed

\* Every step of a single tab that disturbs nothing keeps the member signed in.
LEMMA UndisturbedStep ==
    ASSUME TypeInv, TokensExist, Undisturbed, ~disturbed', NEW t, Tabs = {t}, [Next]_vars
    PROVE  Undisturbed'
<1>a. /\ refresh \in [Calls -> RefreshState]
      /\ form \in [Tabs -> FormState]
      /\ active /\ ~suspending
      /\ \A c \in Calls : TabOf[c] = t
  BY DEF TypeInv, TypeOK, Undisturbed, OneRefresh
<1>1. CASE UNCHANGED <<session, staff, cookie, form, refresh>> /\ expired \subseteq expired'
  BY <1>1 DEF Undisturbed, OneRefresh, RefreshSound, SignInSound, CookieSound, Replaced,
              InFlight, Live, staff
<1>2. ASSUME NEW c \in Calls, TryRefresh(c) PROVE Undisturbed'
  <2>1. UNCHANGED <<session, expired, staff, cookie, form>>
    BY <1>2 DEF TryRefresh
  <2>2. CASE \E d \in Calls : refresh[d].heard
    <3>1. UNCHANGED refresh
      BY <1>2, <1>a, <2>2 DEF TryRefresh, CallsOf
    <3>2. QED
      BY <1>1, <2>1, <3>1
  <2>3. CASE \A d \in Calls : ~refresh[d].heard
    <3>1. InFlight = {}
      BY <2>3 DEF InFlight, Undisturbed, OneRefresh
    <3>2. refresh' = [refresh EXCEPT ![c] =
                [at |-> "read", presented |-> cookie, new |-> 0, heard |-> TRUE]]
      BY <1>2, <2>3 DEF TryRefresh, CallsOf
    <3>3. QED
      BY <2>1, <3>1, <3>2, SentSigned
  <2>4. QED
    BY <2>2, <2>3
<1>3. ASSUME NEW c \in Calls, RefreshGranted(c) \/ RefreshFailed(c) \/ RefreshUnheard(c)
      PROVE  Undisturbed'
  <2>1. c \in InFlight /\ refresh[c].heard
    BY <1>3 DEF RefreshGranted, RefreshFailed, RefreshUnheard, InFlight, Undisturbed,
                OneRefresh
  <2>2. \/ refresh[c].at = "granted" /\ cookie' = refresh[c].new
        \/ refresh[c].at = "denied" /\ cookie' = cookie
    BY <1>3, <2>1 DEF RefreshGranted, RefreshFailed, RefreshUnheard
  <2>3. /\ refresh' = [refresh EXCEPT ![c] = NoRefresh]
        /\ UNCHANGED <<session, expired, staff, form>>
    BY <1>3, <2>1 DEF RefreshGranted, RefreshFailed, RefreshUnheard
  <2>4. QED
    BY <2>2, <2>3, AnswerSigned
<1>4. ASSUME NEW c \in Calls, RefreshRead(c) PROVE Undisturbed'
  <2>1. PICK to \in {"rotate", "denied"} :
            Advance(c, to) /\ (to = "rotate" => Live(refresh[c].presented))
    BY <1>4 DEF RefreshRead
  <2>2. QED
    BY <1>4, <2>1, HandlerSigned DEF RefreshRead, browser
<1>5. ASSUME NEW c \in Calls, RotateRead(c) PROVE Undisturbed'
  <2>1. Live(refresh[c].presented)
    BY <1>5 DEF RotateRead, Undisturbed, RefreshSound
  <2>2. PICK to \in {"retire", "denied"} : Advance(c, to)
    BY <1>5, <2>1 DEF RotateRead
  <2>3. QED
    BY <1>5, <2>1, <2>2, HandlerSigned DEF RotateRead, browser
<1>6. ASSUME NEW c \in Calls, RevokeFamily(c) PROVE Undisturbed'
  BY <1>6 DEF RevokeFamily, Undisturbed, RefreshSound
<1>7. ASSUME NEW c \in Calls, Retire(c) PROVE Undisturbed'
  BY <1>7, RetireSigned
<1>8. ASSUME NEW c \in Calls, Successor(c) PROVE Undisturbed'
  BY <1>8, SuccessorSigned
<1>9. ASSUME NEW c \in Calls, StaffRead(c) PROVE Undisturbed'
  <2>1. refresh[c].new \in Sessions /\ Live(refresh[c].new)
    BY <1>9 DEF StaffRead, Undisturbed, RefreshSound
  <2>2. Advance(c, "granted")
    BY <1>9, <1>a DEF StaffRead
  <2>3. QED
    BY <1>9, <2>1, <2>2, HandlerSigned DEF StaffRead, browser
<1>b. ASSUME NEW c \in Calls, RefreshBreaks(c) PROVE Undisturbed'
  <2>1. refresh[c].at \in {"read", "rotate", "revokeAll", "retire"}
    BY <1>b DEF RefreshBreaks
  <2>2. QED
    BY <1>b, <2>1, HandlerSigned DEF RefreshBreaks, browser
<1>10. CASE Reload(t)
  <2>1. \A c \in Calls : ~refresh[c].heard
    BY <1>10, <1>a DEF Reload, CallsOf
  <2>2. \A c \in Calls : [refresh[c] EXCEPT !.heard = FALSE] = refresh[c]
    BY <1>a, <2>1 DEF RefreshState
  <2>3. \A c \in Calls : refresh'[c] = refresh[c]
    BY <1>10, <1>a, <2>2 DEF Reload
  <2>4. refresh' = refresh
    <3>1. refresh' = [c \in Calls |-> refresh'[c]]
      BY <1>10 DEF Reload
    <3>2. QED
      BY <1>a, <2>3, <3>1
  <2>5. QED
    BY <1>1, <1>10, <2>4 DEF Reload
<1>11. CASE Login(t) \/ LoginRead(t) \/ Logout(t)
  <2>c. /\ form[t].at # "logoutDone"
        /\ UNCHANGED <<session, expired, staff, refresh, cookie>>
    BY <1>11 DEF Login, LoginRead, Logout, NoForm
  <2>1. CASE Login(t) \/ Logout(t)
    <3>1. /\ [NoForm EXCEPT !.at = "login"].at = "login"
          /\ [NoForm EXCEPT !.at = "logout", !.presented = cookie].at = "logout"
      BY DEF NoForm
    <3>2. form'[t].at \in {"login", "logout"}
      BY <2>1, <3>1, <1>a DEF Login, Logout, SetForm
    <3>3. form'[t].at # "loginGranted"
      BY <3>2
    <3>4. QED
      BY <3>3, <2>c, FormSigned
  <2>2. CASE LoginRead(t)
    <3>1. form'[t].at \in {"loginInsert", "loginDenied"}
      BY <2>2, <1>a DEF LoginRead, SetForm, NoForm
    <3>2. form'[t].at # "loginGranted"
      BY <3>1
    <3>3. QED
      BY <3>2, <2>c, FormSigned
  <2>3. QED
    BY <1>11, <2>1, <2>2
<1>12. CASE LoginInsert(t)
  BY <1>12, LoginInsertSigned
<1>13. CASE LoginAnswered(t)
  <2>1. /\ form'[t].at = "none"
        /\ UNCHANGED <<session, expired, staff, refresh>>
        /\ \/ cookie' = cookie /\ form[t].at = "loginDenied"
           \/ cookie' = form[t].new /\ form[t].at = "loginGranted"
    BY <1>13, <1>a DEF LoginAnswered, SetForm, NoForm
  <2>2. QED
    BY <2>1, FormSigned
<1>14. CASE LogoutRevoke(t)
  <2>1. InFlight = {}
    BY <1>14 DEF LogoutRevoke
  <2>2. QED
    BY <1>14, <2>1, LogoutSigned
<1>15. CASE LogoutAnswered(t)
  <2>1. /\ form'[t].at = "none" /\ cookie' = 0
        /\ UNCHANGED <<session, expired, staff, refresh>>
    BY <1>15, <1>a DEF LogoutAnswered, SetForm, NoForm
  <2>2. QED
    BY <2>1, FormSigned
<1>16. CASE AccessExpires(t) \/ UNCHANGED vars \/ \E c \in Calls : CallRejected(c)
  BY <1>1, <1>16 DEF AccessExpires, CallRejected, vars, browser, staff
<1>17. CASE \E s \in Sessions : SessionExpires(s)
  BY <1>1, <1>17 DEF SessionExpires, browser
<1>18. CASE SuspendRevoke \/ SuspendSet \/ Reinstate
  BY <1>18, <1>a DEF SuspendRevoke, SuspendSet, Reinstate
<1>19. QED
  BY <1>2, <1>3, <1>4, <1>5, <1>6, <1>7, <1>8, <1>9, <1>b, <1>10, <1>11, <1>12, <1>13,
     <1>14, <1>15, <1>16, <1>17, <1>18 DEF Next, RefreshHandler, Answer, SignInOrOut

\* In a browser with a single tab, no number of calls that are refused at once, in
\* whatever order their answers come, signs the member of staff out, unless a refresh
\* breaks off with its session revoked or its answer is lost.
THEOREM OneTabStaysSignedIn == Spec => []StaysSignedIn
<1>1. SUFFICES ASSUME NEW t, Tabs = {t} PROVE Spec => []StaysSignedIn
  <2>1. CASE \E t : Tabs = {t}
    BY <2>1
  <2>2. CASE ~\E t : Tabs = {t}
    <3>1. Cardinality(Tabs) # 1
      BY <2>2, FS_Singleton
    <3>2. StaysSignedIn
      BY <3>1 DEF StaysSignedIn
    <3>3. QED
      BY <3>2, PTL
  <2>3. QED
    BY <2>1, <2>2
<1>2. SignedInv /\ TypeInv => StaysSignedIn
  <2> SUFFICES ASSUME SignedInv, TypeInv, Quiet, ~disturbed, cookie # 0,
                      cookie \notin expired
               PROVE  Live(cookie)
    BY DEF StaysSignedIn
  <2>1. ~Replaced /\ \A u \in Tabs : form[u].at # "logoutDone"
    BY DEF Quiet, Replaced, InFlight, NoForm
  <2>2. QED
    BY <2>1 DEF SignedInv, Undisturbed, CookieSound
<1>3. TypeInv /\ SignedInv /\ [Next]_vars => SignedInv'
  <2> SUFFICES ASSUME TypeInv, SignedInv, [Next]_vars PROVE SignedInv'
    OBVIOUS
  <2>1. TokensExist /\ TokensExist'
    BY TokensStep DEF SignedInv
  <2>2. CASE disturbed'
    BY <2>1, <2>2 DEF SignedInv
  <2>3. CASE ~disturbed'
    <3>1. Undisturbed
      BY <2>3, DisturbedStays DEF SignedInv
    <3>2. Undisturbed'
      BY <1>1, <2>1, <2>3, <3>1, UndisturbedStep
    <3>3. QED
      BY <2>1, <3>2 DEF SignedInv
  <2>4. QED
    BY <2>2, <2>3
<1>4. QED
  BY <1>2, <1>3, InitTypeInv, InitSigned, TypeStep, PTL DEF Spec

-------------------------------------------------------------------------------
(* Accounts                                                                *)

WrongBelowBound ==
    \A a \in Attempts :
        /\ attempt[a].at = "wrong" => attempt[a].failed < MaxCount
        /\ attempt[a].at = "confirm" => attempt[a].link \in Links

Used == {l \in Links : link[l].state = "used"}

Alone == \A a, b \in Attempts : a # b => attempt[a] = Free \/ attempt[b] = Free

Current ==
    \A a \in Attempts :
        /\ attempt[a].at = "wrong" => attempt[a].failed = account.failedLoginCount
        /\ attempt[a].at \in {"wrong", "right"} => ~account.locked
        /\ attempt[a].at \in {"right", "session"} => attempt[a].password = account.password
        /\ attempt[a].at = "confirm" => link[attempt[a].link].state = "sent"

Counted ==
    /\ tried <= account.failedLoginCount
    /\ tried <= MAX_FAILED
    /\ ~account.locked => tried < MAX_FAILED

Reset == live \subseteq {account.password} /\ account.password = Cardinality(Used)

AccountsInv ==
    /\ AccountsTypeOK /\ WrongBelowBound
    /\ ~crowded => Alone /\ Current /\ Counted /\ Reset

-------------------------------------------------------------------------------
\* A handler that is done is a handler's state.
LEMMA FreeState == Free \in AttemptState /\ Free.at = "free"
BY AccountsAssumption DEF Free, AttemptState, Passwords

\* The initial state has its types.
LEMMA AccountsTypeInit == AccountsInit => AccountsTypeOK /\ WrongBelowBound
<1> SUFFICES ASSUME AccountsInit PROVE AccountsTypeOK /\ WrongBelowBound
  OBVIOUS
<1>1. account \in AccountRow /\ ~account.locked
  BY AccountsAssumption DEF AccountsInit, AccountRow, Passwords
<1>2. link \in [Links -> LinkRow]
  BY DEF AccountsInit, LinkRow
<1>3. attempt \in [Attempts -> AttemptState] /\ \A a \in Attempts : attempt[a].at = "free"
  BY FreeState DEF AccountsInit
<1> QED
  BY <1>1, <1>2, <1>3 DEF AccountsInit, AccountsTypeOK, WrongBelowBound

\* Every step keeps the types; a wrong password in flight writes a count within the bound.
LEMMA AccountsTypeStep ==
    ASSUME AccountsTypeOK, WrongBelowBound, [AccountsNext]_accountVars
    PROVE  AccountsTypeOK' /\ WrongBelowBound'
<1> USE AccountsAssumption DEF AccountsTypeOK, WrongBelowBound
<1> DEFINE Good == AccountsTypeOK /\ WrongBelowBound
<1>z. 0 \in 0..MaxCount
  OBVIOUS
<1>c. ASSUME AccountsNext PROVE crowded' \in BOOLEAN
  BY <1>c DEF AccountsNext
<1>g. ASSUME NEW a \in Attempts, NEW to \in AttemptState, Goes(a, to),
             to.at = "wrong" => to.failed < MaxCount,
             to.at = "confirm" => to.link \in Links
      PROVE  attempt' \in [Attempts -> AttemptState] /\ WrongBelowBound'
  BY <1>g DEF Goes
<1>1. ASSUME AccountsNext, NEW a \in Attempts, LoginReads(a) PROVE Good'
  <2>1. PICK at \in {"wrong", "right"} :
          /\ at = "wrong" => account.failedLoginCount < MaxCount
          /\ Goes(a, [Free EXCEPT !.at = at, !.password = account.password,
                                  !.failed = account.failedLoginCount])
    BY <1>1 DEF LoginReads
  <2> DEFINE to == [Free EXCEPT !.at = at, !.password = account.password,
                                !.failed = account.failedLoginCount]
  <2>2. to \in AttemptState /\ to.at = at /\ to.failed = account.failedLoginCount
    BY DEF Free, AttemptState, AccountRow
  <2> QED
    BY <1>1, <1>c, <1>g, <2>1, <2>2 DEF LoginReads
<1>2. ASSUME AccountsNext, NEW a \in Attempts, WrongPassword(a) PROVE Good'
  <2>1. attempt[a].failed \in 0..MaxCount /\ attempt[a].failed + 1 <= MaxCount
    BY <1>2 DEF WrongPassword, AttemptState
  <2>2. account' \in AccountRow /\ (account'.locked => account'.failedLoginCount >= MAX_FAILED)
    <3> DEFINE failed == attempt[a].failed + 1
    <3>1. failed \in 0..MaxCount /\ (failed >= MAX_FAILED) \in BOOLEAN
      BY <2>1
    <3>2. account' = [account EXCEPT !.failedLoginCount = failed,
                                     !.locked = (failed >= MAX_FAILED)]
      BY <1>2 DEF WrongPassword
    <3> HIDE DEF failed
    <3> QED
      BY <3>1, <3>2 DEF AccountRow
  <2> QED
    BY <1>2, <1>c, <1>g, <2>2, FreeState DEF WrongPassword
<1>3. ASSUME AccountsNext, NEW a \in Attempts, RightPassword(a) PROVE Good'
  <2>1. account' \in AccountRow /\ ~account'.locked
    BY <1>3, <1>z DEF RightPassword, AccountRow
  <2> DEFINE to == [attempt[a] EXCEPT !.at = "session", !.failed = 0]
  <2>2. to \in AttemptState /\ to.at = "session"
    BY <1>z DEF AttemptState
  <2> QED
    BY <1>3, <1>c, <1>g, <2>1, <2>2 DEF RightPassword
<1>4. ASSUME AccountsNext, NEW a \in Attempts, RotationReads(a) PROVE Good'
  <2>1. PICK password \in live :
          Goes(a, [Free EXCEPT !.at = "session", !.password = password])
    BY <1>4 DEF RotationReads
  <2> DEFINE to == [Free EXCEPT !.at = "session", !.password = password]
  <2>2. to \in AttemptState /\ to.at = "session"
    BY <1>z, FreeState DEF Free, AttemptState
  <2> QED
    BY <1>4, <1>c, <1>g, <2>1, <2>2 DEF RotationReads
<1>5. ASSUME AccountsNext, NEW a \in Attempts, CreateStaffSession(a) PROVE Good'
  <2>1. attempt[a].password \in Passwords
    BY DEF AttemptState
  <2> QED
    BY <1>5, <1>c, <1>g, <2>1, FreeState DEF CreateStaffSession
<1>6. ASSUME AccountsNext, LockLapses \/ SessionsEnd PROVE Good'
  <2>1. account' \in AccountRow /\ (account'.locked => account.locked)
          /\ account'.failedLoginCount = account.failedLoginCount
    BY <1>6 DEF LockLapses, SessionsEnd, AccountRow
  <2> QED
    BY <1>6, <1>c, <2>1 DEF LockLapses, SessionsEnd
<1>7. ASSUME AccountsNext, NEW l \in Links, RequestPasswordReset(l) \/ LinkExpires(l) PROVE Good'
  <2>1. link' \in [Links -> LinkRow]
    <3>1. link \in [Links -> LinkRow] /\ link[l] \in LinkRow
      OBVIOUS
    <3>2. [link[l] EXCEPT !.state = "sent"] \in LinkRow /\ [link[l] EXCEPT !.expired = TRUE] \in LinkRow
      BY <3>1 DEF LinkRow
    <3>3. \/ link' = [link EXCEPT ![l] = [link[l] EXCEPT !.state = "sent"]]
          \/ link' = [link EXCEPT ![l] = [link[l] EXCEPT !.expired = TRUE]]
      BY <1>7, <3>1 DEF RequestPasswordReset, LinkExpires
    <3> QED BY <3>1, <3>2, <3>3
  <2> QED
    BY <1>7, <1>c, <2>1 DEF RequestPasswordReset, LinkExpires
<1>8. ASSUME AccountsNext, NEW a \in Attempts, NEW l \in Links, ConfirmReads(a, l) PROVE Good'
  <2> DEFINE to == [Free EXCEPT !.at = "confirm", !.link = l]
  <2>1. to \in AttemptState /\ to.at = "confirm" /\ to.link = l
    BY <1>z, FreeState DEF Free, AttemptState
  <2> QED
    BY <1>8, <1>c, <1>g, <2>1 DEF ConfirmReads
<1>9. ASSUME AccountsNext, NEW a \in Attempts, ConfirmPasswordReset(a) PROVE Good'
  <2>1. account' \in AccountRow /\ ~account'.locked
    BY <1>9 DEF ConfirmPasswordReset, Opened, AccountRow, Passwords
  <2>2. link' \in [Links -> LinkRow]
    BY <1>9 DEF ConfirmPasswordReset, LinkRow
  <2> QED
    BY <1>9, <1>c, <1>g, <2>1, <2>2, FreeState DEF ConfirmPasswordReset
<1>10. CASE UNCHANGED accountVars
  BY <1>10 DEF accountVars
<1> QED
  BY <1>1, <1>2, <1>3, <1>4, <1>5, <1>6, <1>7, <1>8, <1>9, <1>10 DEF AccountsNext, AccountsStep

\* Rows and handlers stay well formed, and the account is locked only while its
\* count is one that locks it, however handlers overlap.
THEOREM AccountsTypeCorrect == AccountsSpec => []AccountsTypeOK
BY AccountsTypeInit, AccountsTypeStep, PTL DEF AccountsSpec

-------------------------------------------------------------------------------
Unhurried == Current /\ Counted /\ Reset

\* What is claimed of handlers that do not overlap holds initially.
LEMMA UnhurriedInit == AccountsInit => Alone /\ Unhurried
<1> SUFFICES ASSUME AccountsInit PROVE Alone /\ Unhurried
  OBVIOUS
<1>1. Used = {} /\ Cardinality(Used) = 0
  BY FS_EmptySet DEF AccountsInit, Used
<1> QED
  BY <1>1, FreeState, AccountsAssumption DEF AccountsInit, Alone, Unhurried, Current, Counted, Reset

\* Where no two handlers are in flight, the one that writes is the only one.
LEMMA OnlyOne ==
    ASSUME Alone, NEW a \in Attempts, attempt[a].at # "free"
    PROVE  \A b \in Attempts : b # a => attempt[b].at = "free"
BY FreeState DEF Alone

\* A handler that runs alone keeps what it has read current, the wrong passwords
\* counted and every live session one of the row's password.
LEMMA UnhurriedStep ==
    ASSUME AccountsTypeOK, WrongBelowBound, Alone, Unhurried, AccountsStep
    PROVE  Unhurried'
<1> USE AccountsAssumption DEF AccountsTypeOK
<1>n. /\ account.failedLoginCount \in Nat /\ account.password \in Nat /\ tried \in Nat
      /\ account.locked \in BOOLEAN
  BY DEF AccountRow, Passwords
\* A handler that starts has just read what it remembers.
<1>r. ASSUME NEW a \in Attempts, NEW to, Goes(a, to), UNCHANGED <<account, link, live, tried>>,
             to.at = "wrong" => to.failed = account.failedLoginCount,
             to.at \in {"wrong", "right"} => ~account.locked,
             to.at \in {"right", "session"} => to.password = account.password,
             to.at = "confirm" => link[to.link].state = "sent"
      PROVE  Unhurried'
  <2>1. Current'
    BY <1>r DEF Goes, Unhurried, Current
  <2>2. Counted' /\ Reset'
    BY <1>r DEF Unhurried, Counted, Reset, Used
  <2> QED
    BY <2>1, <2>2 DEF Unhurried
<1>1. ASSUME NEW a \in Attempts, LoginReads(a) PROVE Unhurried'
  <2>1. PICK at \in {"wrong", "right"} :
          Goes(a, [Free EXCEPT !.at = at, !.password = account.password,
                               !.failed = account.failedLoginCount])
    BY <1>1 DEF LoginReads
  <2> DEFINE to == [Free EXCEPT !.at = at, !.password = account.password,
                                !.failed = account.failedLoginCount]
  <2>2. to.at = at /\ to.failed = account.failedLoginCount /\ to.password = account.password
    BY DEF Free
  <2> QED
    BY <1>1, <1>r, <2>1, <2>2 DEF LoginReads
<1>2. ASSUME NEW a \in Attempts, WrongPassword(a) PROVE Unhurried'
  <2>1. /\ attempt[a].failed = account.failedLoginCount /\ ~account.locked
        /\ \A b \in Attempts : b # a => attempt[b].at = "free"
    BY <1>2, OnlyOne DEF WrongPassword, Unhurried, Current
  <2>2. Current'
    BY <1>2, <2>1, FreeState DEF WrongPassword, Goes, Current
  <2>3. /\ account'.failedLoginCount = account.failedLoginCount + 1
        /\ account'.locked = (account.failedLoginCount + 1 >= MAX_FAILED)
        /\ account'.password = account.password
        /\ tried' = tried + 1
    BY <1>2, <2>1 DEF WrongPassword, AccountRow
  <2>4. Counted'
    <3>1. tried < MAX_FAILED /\ tried <= account.failedLoginCount
      BY <2>1 DEF Unhurried, Counted
    <3>2. tried + 1 <= MAX_FAILED /\ tried + 1 <= account.failedLoginCount + 1
      BY <1>n, <3>1
    <3>3. ~(account.failedLoginCount + 1 >= MAX_FAILED) => tried + 1 < MAX_FAILED
      BY <1>n, <3>1
    <3> QED
      BY <2>3, <3>2, <3>3 DEF Counted
  <2>5. Reset'
    BY <1>2, <2>3 DEF WrongPassword, Unhurried, Reset, Used
  <2> QED
    BY <2>2, <2>4, <2>5 DEF Unhurried
<1>3. ASSUME NEW a \in Attempts, RightPassword(a) PROVE Unhurried'
  <2>1. /\ attempt[a].password = account.password
        /\ \A b \in Attempts : b # a => attempt[b].at = "free"
    BY <1>3, OnlyOne DEF RightPassword, Unhurried, Current
  <2>2. /\ account'.failedLoginCount = 0 /\ ~account'.locked
        /\ account'.password = account.password
    BY <1>3 DEF RightPassword, AccountRow
  <2>3. [attempt[a] EXCEPT !.at = "session", !.failed = 0].at = "session"
          /\ [attempt[a] EXCEPT !.at = "session", !.failed = 0].password = attempt[a].password
    BY DEF AttemptState
  <2>4. Current'
    BY <1>3, <2>1, <2>2, <2>3 DEF RightPassword, Goes, Current
  <2>5. Counted' /\ Reset'
    BY <1>3, <2>2 DEF RightPassword, Unhurried, Counted, Reset, Used
  <2> QED
    BY <2>4, <2>5 DEF Unhurried
<1>4. ASSUME NEW a \in Attempts, RotationReads(a) PROVE Unhurried'
  <2>1. PICK password \in live :
          Goes(a, [Free EXCEPT !.at = "session", !.password = password])
    BY <1>4 DEF RotationReads
  <2> DEFINE to == [Free EXCEPT !.at = "session", !.password = password]
  <2>2. to.at = "session" /\ to.password = account.password
    BY DEF Free, Unhurried, Reset
  <2> QED
    BY <1>4, <1>r, <2>1, <2>2 DEF RotationReads
<1>5. ASSUME NEW a \in Attempts, CreateStaffSession(a) PROVE Unhurried'
  <2>1. attempt[a].password = account.password
    BY <1>5 DEF CreateStaffSession, Unhurried, Current
  <2>2. Current'
    BY <1>5, FreeState DEF CreateStaffSession, Goes, Unhurried, Current
  <2>3. Counted' /\ Reset'
    BY <1>5, <2>1 DEF CreateStaffSession, Unhurried, Counted, Reset, Used
  <2> QED
    BY <2>2, <2>3 DEF Unhurried
<1>6. ASSUME LockLapses PROVE Unhurried'
  <2>1. /\ account'.failedLoginCount = account.failedLoginCount /\ ~account'.locked
        /\ account'.password = account.password
    BY <1>6 DEF LockLapses, AccountRow
  <2>2. Current'
    BY <1>6, <2>1 DEF LockLapses, Unhurried, Current
  <2>3. Counted' /\ Reset'
    BY <1>6, <1>n, <2>1 DEF LockLapses, Unhurried, Counted, Reset, Used
  <2> QED
    BY <2>2, <2>3 DEF Unhurried
<1>7. ASSUME SessionsEnd PROVE Unhurried'
  BY <1>7 DEF SessionsEnd, Unhurried, Current, Counted, Reset, Used
<1>8. ASSUME NEW l \in Links, RequestPasswordReset(l) \/ LinkExpires(l) PROVE Unhurried'
  <2>1. /\ \A k \in Links : (link'[k].state = "used") <=> (link[k].state = "used")
        /\ \A k \in Links : link[k].state = "sent" => link'[k].state = "sent"
    BY <1>8 DEF RequestPasswordReset, LinkExpires, LinkRow
  <2>2. Used' = Used
    BY <2>1 DEF Used
  <2>3. Current'
    BY <1>8, <2>1 DEF RequestPasswordReset, LinkExpires, Unhurried, Current, WrongBelowBound
  <2>4. Counted' /\ Reset'
    BY <1>8, <2>2 DEF RequestPasswordReset, LinkExpires, Unhurried, Counted, Reset
  <2> QED
    BY <2>3, <2>4 DEF Unhurried
<1>9. ASSUME NEW a \in Attempts, NEW l \in Links, ConfirmReads(a, l) PROVE Unhurried'
  <2> DEFINE to == [Free EXCEPT !.at = "confirm", !.link = l]
  <2>1. to.at = "confirm" /\ to.link = l
    BY DEF Free
  <2> QED
    BY <1>9, <1>r, <2>1 DEF ConfirmReads
<1>10. ASSUME NEW a \in Attempts, ConfirmPasswordReset(a) PROVE Unhurried'
  <2> DEFINE l == attempt[a].link
  <2>1. /\ l \in Links /\ link[l].state = "sent"
        /\ \A b \in Attempts : b # a => attempt[b].at = "free"
    BY <1>10, OnlyOne DEF ConfirmPasswordReset, Unhurried, Current, WrongBelowBound
  <2>2. Used' = Used \cup {l} /\ l \notin Used
    BY <1>10, <2>1 DEF ConfirmPasswordReset, Used, LinkRow
  <2>3. Cardinality(Used') = Cardinality(Used) + 1
    BY <2>2, FS_AddElement, FS_Subset DEF Used
  <2>4. Current'
    BY <1>10, <2>1, FreeState DEF ConfirmPasswordReset, Goes, Current
  <2>5. Counted'
    BY <1>10 DEF ConfirmPasswordReset, Opened, Counted
  <2>6. Reset'
    BY <1>10, <2>3 DEF ConfirmPasswordReset, Opened, Unhurried, Reset
  <2> QED
    BY <2>4, <2>5, <2>6 DEF Unhurried
<1> QED
  BY <1>1, <1>2, <1>3, <1>4, <1>5, <1>6, <1>7, <1>8, <1>9, <1>10 DEF AccountsStep

\* The invariant holds in every reachable state.
LEMMA AccountsInvariant == AccountsSpec => []AccountsInv
<1>1. AccountsInit => AccountsInv
  BY AccountsTypeInit, UnhurriedInit DEF AccountsInv, Unhurried
<1>2. AccountsInv /\ [AccountsNext]_accountVars => AccountsInv'
  <2> SUFFICES ASSUME AccountsInv, [AccountsNext]_accountVars PROVE AccountsInv'
    OBVIOUS
  <2>1. AccountsTypeOK' /\ WrongBelowBound'
    BY AccountsTypeStep DEF AccountsInv
  <2>2. CASE UNCHANGED accountVars
    BY <2>1, <2>2 DEF AccountsInv, accountVars, Alone, Current, Counted, Reset, Used
  <2>3. CASE AccountsNext /\ ~crowded'
    <3>1. ~crowded /\ Alone'
      BY <2>3 DEF AccountsNext, Alone
    <3>2. Unhurried'
      BY <2>3, <3>1, UnhurriedStep DEF AccountsInv, Unhurried, AccountsNext
    <3> QED
      BY <2>1, <3>1, <3>2 DEF AccountsInv, Unhurried
  <2>4. CASE crowded'
    BY <2>1, <2>4 DEF AccountsInv
  <2> QED
    BY <2>2, <2>3, <2>4
<1> QED
  BY <1>1, <1>2, PTL DEF AccountsSpec

\* While sign-ins do not overlap, no more than MAX_FAILED wrong passwords are
\* compared before the account is locked, and none more after a lock has lapsed.
THEOREM GuessesLimited == AccountsSpec => []GuessesAreLimitedUnhurried
<1>1. AccountsInv => GuessesAreLimitedUnhurried
  BY DEF AccountsInv, Counted, GuessesAreLimitedUnhurried
<1> QED
  BY <1>1, AccountsInvariant, PTL

\* Unless handlers overlap, a reset ends every session opened with an earlier
\* password, and each link has set one password.
THEOREM ResetFinal == AccountsSpec => []ResetIsFinalUnhurried
<1>1. AccountsInv => ResetIsFinalUnhurried
  BY DEF AccountsInv, Reset, Used, ResetIsFinalUnhurried
<1> QED
  BY <1>1, AccountsInvariant, PTL

-------------------------------------------------------------------------------
(* Guests                                                                  *)

MayEdit(m) == Can(roleKey[m], "GUEST_EDIT")

\* What a page shows goes with the request it has sent.
Paired(m) ==
    /\ page[m].step = "loading" <=> request[m].op = "get"
    /\ page[m].step = "saving" <=> request[m].op = "patch"

\* Without a change of role, the permission found for a request still stands.
Whole(m) ==
    ~regraded[m] =>
        /\ request[m].permitted /\ request[m].op = "get" => request[m].sees = MayEdit(m)
        /\ request[m].permitted /\ request[m].op = "patch" => MayEdit(m)
        /\ page[m].step \in {"profile", "saving"} => shown[m] = MayEdit(m)

Fresh(m) ==
    ~meddled[m] /\ shown[m] =>
        /\ page[m].step = "profile" => page[m].data = guest
        /\ page[m].step = "saving" =>
             \E f \in Columns : \A g \in Columns \ {f} : request[m].body[g] = guest[g]

GuestsInv == GuestsTypeOK /\ \A m \in Members : Paired(m) /\ Whole(m) /\ Fresh(m)

-------------------------------------------------------------------------------
\* A profile of which one column is replaced is a profile.
LEMMA OneColumn ==
    ASSUME NEW p \in Profiles, NEW f \in Columns, NEW v \in Stored \cup {Markup}
    PROVE  /\ [p EXCEPT ![f] = v] \in [Columns -> Stored \cup {Markup}]
           /\ \A g \in Columns \ {f} : [p EXCEPT ![f] = v][g] = p[g]
BY DEF Profiles

\* What is stored is never markup, and sanitizing leaves what is stored as it is
\* (sanitizeInput).
LEMMA Sanitizing ==
    /\ \A v \in Stored : Sanitized(v) = v
    /\ \A v \in Stored \cup {Markup} : Sanitized(v) \in Stored /\ (Sanitized(v) = Null => v = Null)
BY GuestsAssumption DEF Sanitized, Stored

\* The values a request and a page start from have their types.
LEMMA Constructors ==
    /\ Idle \in Requests /\ Get \in Requests
    /\ Idle.op = "none" /\ Get.op = "get" /\ ~Idle.permitted /\ ~Get.permitted
    /\ Empty \in Profiles
    /\ \A step \in {"loading", "error"} :
         Showing(step) \in Pages /\ Showing(step).step = step
<1>1. Empty \in Profiles /\ Empty \in [Columns -> Stored \cup {Markup}]
  BY DEF Empty, Profiles, Stored
<1> QED
  BY <1>1 DEF Idle, Get, Requests, Pages, Showing

-------------------------------------------------------------------------------
\* The initial state has its types.
LEMMA GuestsTypeInit == GuestsInit => GuestsTypeOK
<1> SUFFICES ASSUME GuestsInit PROVE GuestsTypeOK
  OBVIOUS
<1>1. guest \in Profiles /\ guest.fullName # Null
  <2>1. guest \in [fullName: Texts, address: Texts \cup {Null}, notes: Texts \cup {Null}]
    BY DEF GuestsInit
  <2> QED
    BY <2>1, GuestsAssumption DEF Profiles, Columns, Sensitive, Stored
<1>2. page \in [Members -> Pages] /\ request \in [Members -> Requests]
  BY Constructors DEF GuestsInit
<1> QED
  BY <1>1, <1>2 DEF GuestsInit, GuestsTypeOK

\* Every step keeps the types: what is stored was sanitised first.
LEMMA GuestsTypeStep == GuestsTypeOK /\ [GuestsNext]_guestVars => GuestsTypeOK'
<1> SUFFICES ASSUME GuestsTypeOK, [GuestsNext]_guestVars PROVE GuestsTypeOK'
  OBVIOUS
<1> USE DEF GuestsTypeOK
<1>f. ASSUME NEW m \in Members, Fails(m)
      PROVE  page' \in [Members -> Pages] /\ request' \in [Members -> Requests]
  BY <1>f, Constructors DEF Fails
<1>w. ASSUME NEW m \in Members, Writes(m)
      PROVE  /\ guest' \in Profiles /\ guest'.fullName # Null
             /\ meddled' \in [Members -> BOOLEAN]
  <2>1. request[m].body \in [Columns -> Stored \cup {Markup}]
    BY DEF Requests
  <2>2. guest' = [f \in Columns |-> Sanitized(request[m].body[f])]
    BY <1>w DEF Writes
  <2>3. guest' \in Profiles
    BY <2>1, <2>2, Sanitizing DEF Profiles
  <2>4. guest'.fullName # Null
    BY <1>w, <2>1, <2>2, Sanitizing DEF Writes, Accepted, Columns
  <2> QED
    BY <1>w, <2>3, <2>4 DEF Writes
<1>1. ASSUME NEW m \in Members, FetchProfile(m) PROVE GuestsTypeOK'
  BY <1>1, Constructors DEF FetchProfile, History
<1>2. ASSUME NEW m \in Members, NEW f \in Columns, NEW v \in Stored \cup {Markup},
             HandleSave(m, f, v)
      PROVE  GuestsTypeOK'
  <2>1. page[m].data \in Profiles
    BY DEF Pages
  <2>2. [Idle EXCEPT !.op = "patch", !.body = [page[m].data EXCEPT ![f] = v]] \in Requests
    BY <2>1, OneColumn, Constructors DEF Requests
  <2>3. page' \in [Members -> Pages]
    BY <1>2 DEF HandleSave, Pages
  <2> QED
    BY <1>2, <2>2, <2>3 DEF HandleSave, Change, History
<1>3. ASSUME NEW m \in Members, Permit(m) PROVE GuestsTypeOK'
  <2>1. Can(roleKey[m], "GUEST_EDIT") \in BOOLEAN
    BY DEF Can
  <2>2. request' \in [Members -> Requests]
    BY <1>3, <2>1, ZenonT(40) DEF Permit, Requests
  <2> QED
    BY <1>3, <2>2 DEF Permit
<1>4. ASSUME NEW m \in Members, Forbid(m) \/ RequestFails(m) PROVE GuestsTypeOK'
  BY <1>4, <1>f DEF Forbid, RequestFails, History
<1>5. ASSUME NEW m \in Members, GetGuest(m) PROVE GuestsTypeOK'
  <2> DEFINE data == [f \in Columns |->
                        IF f \in Sensitive /\ ~request[m].sees THEN Null ELSE guest[f]]
  <2>1. data \in Profiles
    BY DEF Profiles, Stored
  <2>2. page' \in [Members -> Pages]
    BY <1>5, <2>1 DEF GetGuest, Pages
  <2>3. request[m].sees \in BOOLEAN
    BY DEF Requests
  <2> QED
    BY <1>5, <2>2, <2>3, Constructors DEF GetGuest
<1>6. ASSUME NEW m \in Members, UpdateGuest(m) PROVE GuestsTypeOK'
  <2>1. page' \in [Members -> Pages] /\ request' \in [Members -> Requests]
    BY <1>6, Constructors DEF UpdateGuest
  <2>2. Writes(m)
    BY <1>6 DEF UpdateGuest
  <2>3. UNCHANGED <<roleKey, changes, shown, regraded>>
    BY <2>2 DEF Writes
  <2> QED
    BY <1>w, <2>1, <2>2, <2>3
<1>7. ASSUME NEW m \in Members, UpdateUnheard(m) PROVE GuestsTypeOK'
  <2>1. Writes(m) /\ Fails(m)
    BY <1>7 DEF UpdateUnheard
  <2>2. UNCHANGED <<roleKey, changes, shown, regraded>>
    BY <2>1 DEF Writes
  <2> QED
    BY <1>w, <1>f, <2>1, <2>2
<1>8. ASSUME NEW m \in Members, NEW role \in Grades, UpdateStaff(m, role)
      PROVE  GuestsTypeOK'
  BY <1>8 DEF UpdateStaff, Change
<1>9. ASSUME NEW name \in Texts, NEW address \in Texts \cup {Null},
             CreateFromHold(name, address)
      PROVE  GuestsTypeOK'
  <2>1. guest' \in Profiles /\ guest'.fullName # Null
    BY <1>9, GuestsAssumption DEF CreateFromHold, Profiles, Columns, Sensitive, Stored
  <2> QED
    BY <1>9, <2>1 DEF CreateFromHold, Change
<1>10. CASE UNCHANGED guestVars
  BY <1>10 DEF guestVars
<1> QED
  BY <1>1, <1>2, <1>3, <1>4, <1>5, <1>6, <1>7, <1>8, <1>9, <1>10 DEF GuestsNext

\* Every row, page and request stays well formed: no markup is stored, and the
\* guest keeps a name, if only a blank one.
THEOREM GuestsTypeCorrect == GuestsSpec => []GuestsTypeOK
BY GuestsTypeInit, GuestsTypeStep, PTL DEF GuestsSpec

-------------------------------------------------------------------------------
\* The step of one member leaves the facts about another's page alone.
LEMMA Others ==
    ASSUME NEW m \in Members, Paired(m) /\ Whole(m) /\ Fresh(m),
           page'[m] = page[m], request'[m] = request[m], shown'[m] = shown[m],
           (regraded'[m] = regraded[m] /\ roleKey'[m] = roleKey[m]) \/ regraded'[m],
           (meddled'[m] = meddled[m] /\ guest' = guest) \/ meddled'[m]
    PROVE  (Paired(m) /\ Whole(m) /\ Fresh(m))'
BY DEF Paired, Whole, Fresh, MayEdit, Can

\* A page that shows no profile leaves nothing to be said of one.
LEMMA NotShown ==
    ASSUME NEW m \in Members, GuestsTypeOK,
           \/ page'[m] = Showing("error") /\ request'[m] = Idle
           \/ page'[m] = Showing("loading") /\ request'[m] = Get
    PROVE  (Paired(m) /\ Whole(m) /\ Fresh(m))'
BY Constructors DEF Paired, Whole, Fresh

\* The invariant holds initially: no page shows a profile yet.
LEMMA GuestsInvInit == GuestsInit => GuestsInv
<1> SUFFICES ASSUME GuestsInit PROVE GuestsInv
  OBVIOUS
<1>1. ASSUME NEW m \in Members PROVE page[m] = Showing("loading") /\ request[m] = Get
  BY DEF GuestsInit
<1>2. ASSUME NEW m \in Members PROVE Paired(m) /\ Whole(m) /\ Fresh(m)
  BY <1>1, Constructors DEF Paired, Whole, Fresh
<1> QED
  BY <1>2, GuestsTypeInit DEF GuestsInv

\* Every step keeps what is known of each member's page and request.
LEMMA GuestsInvStep == GuestsInv /\ [GuestsNext]_guestVars => GuestsInv'
<1> SUFFICES ASSUME GuestsInv, [GuestsNext]_guestVars
             PROVE  (\A n \in Members : Paired(n) /\ Whole(n) /\ Fresh(n))'
  BY GuestsTypeStep DEF GuestsInv
<1> DEFINE Good(n) == Paired(n) /\ Whole(n) /\ Fresh(n)
<1>t. GuestsTypeOK /\ \A n \in Members : Good(n)
  BY DEF GuestsInv
<1> USE <1>t DEF GuestsTypeOK
<1>f. ASSUME NEW m \in Members, NEW n \in Members, Fails(m), UNCHANGED <<guest, roleKey, History>>
      PROVE  Good(n)'
  <2>1. CASE n = m
    BY <1>f, <2>1, NotShown DEF Fails
  <2>2. CASE n # m
    BY <1>f, <2>2, Others DEF Fails, History
  <2> QED BY <2>1, <2>2
<1>1. ASSUME NEW m \in Members, FetchProfile(m), NEW n \in Members PROVE Good(n)'
  <2>1. CASE n = m
    BY <1>1, <2>1, NotShown DEF FetchProfile
  <2>2. CASE n # m
    BY <1>1, <2>2, Others DEF FetchProfile, History
  <2> QED BY <2>1, <2>2
<1>2. ASSUME NEW m \in Members, NEW f \in Columns, NEW v \in Stored \cup {Markup},
             HandleSave(m, f, v), NEW n \in Members
      PROVE  Good(n)'
  <2>1. CASE n = m
    <3> DEFINE body == [page[m].data EXCEPT ![f] = v]
    <3>1. page[m].data \in Profiles
      BY DEF Pages
    <3>2. \A g \in Columns \ {f} : body[g] = page[m].data[g]
      BY <3>1, OneColumn
    <3>3. [Idle EXCEPT !.op = "patch", !.body = body].op = "patch"
             /\ [Idle EXCEPT !.op = "patch", !.body = body].body = body
             /\ ~[Idle EXCEPT !.op = "patch", !.body = body].permitted
      BY DEF Idle
    <3>4. /\ request'[m].op = "patch" /\ request'[m].body = body /\ ~request'[m].permitted
          /\ page'[m].step = "saving" /\ page[m].step = "profile"
          /\ UNCHANGED <<guest, roleKey, History>>
      BY <1>2, <3>3 DEF HandleSave, Pages
    <3>5. Paired(m)'
      BY <3>4 DEF Paired
    <3>6. Whole(m)'
      BY <3>4 DEF Whole, MayEdit, History
    <3>7. Fresh(m)'
      BY <3>2, <3>4 DEF Fresh, History
    <3> QED BY <2>1, <3>5, <3>6, <3>7
  <2>2. CASE n # m
    BY <1>2, <2>2, Others DEF HandleSave, History
  <2> QED BY <2>1, <2>2
<1>3. ASSUME NEW m \in Members, Permit(m), NEW n \in Members PROVE Good(n)'
  <2>1. CASE n = m
    <3>1. /\ request'[m].op = request[m].op /\ request'[m].body = request[m].body
          /\ request'[m].permitted /\ request'[m].sees = MayEdit(m)
          /\ request[m].op # "none"
          /\ request[m].op \in {"none", "get", "patch"}
          /\ UNCHANGED <<guest, roleKey, page, shown, meddled>>
          /\ regraded'[m] = (regraded[m] /\ request[m].op # "get")
          /\ Can(roleKey[m], Needed(request[m].op))
      BY <1>3 DEF Permit, Requests, MayEdit
    <3>2. Paired(m)'
      BY <3>1 DEF Paired
    <3>3. Whole(m)'
      BY <3>1 DEF Whole, Paired, MayEdit, Needed
    <3>4. Fresh(m)'
      BY <3>1 DEF Fresh
    <3> QED BY <2>1, <3>2, <3>3, <3>4
  <2>2. CASE n # m
    BY <1>3, <2>2, Others DEF Permit
  <2> QED BY <2>1, <2>2
<1>4. ASSUME NEW m \in Members, Forbid(m) \/ RequestFails(m), NEW n \in Members PROVE Good(n)'
  BY <1>4, <1>f DEF Forbid, RequestFails
<1>5. ASSUME NEW m \in Members, GetGuest(m), NEW n \in Members PROVE Good(n)'
  <2>1. CASE n = m
    <3>1. /\ request'[m] = Idle /\ page'[m].step = "profile"
          /\ page'[m].data = [f \in Columns |->
                 IF f \in Sensitive /\ ~request[m].sees THEN Null ELSE guest[f]]
          /\ shown'[m] = request[m].sees /\ request[m].sees \in BOOLEAN
          /\ request[m].op = "get" /\ request[m].permitted
          /\ UNCHANGED <<guest, roleKey, regraded>>
      BY <1>5 DEF GetGuest, Requests
    <3>2. Paired(m)'
      BY <3>1, Constructors DEF Paired
    <3>3. Whole(m)'
      BY <3>1, Constructors DEF Whole, MayEdit
    <3>4. Fresh(m)'
      BY <3>1, Constructors DEF Fresh, Profiles
    <3> QED BY <2>1, <3>2, <3>3, <3>4
  <2>2. CASE n # m
    BY <1>5, <2>2, Others DEF GetGuest
  <2> QED BY <2>1, <2>2
<1>w. ASSUME NEW m \in Members, Writes(m), NEW n \in Members, n # m PROVE meddled'[n]
  BY <1>w DEF Writes
<1>6. ASSUME NEW m \in Members, UpdateGuest(m), NEW n \in Members PROVE Good(n)'
  <2>1. CASE n = m
    BY <1>6, <2>1, NotShown DEF UpdateGuest
  <2>2. CASE n # m
    BY <1>6, <1>w, <2>2, Others DEF UpdateGuest, Writes
  <2> QED BY <2>1, <2>2
<1>7. ASSUME NEW m \in Members, UpdateUnheard(m), NEW n \in Members PROVE Good(n)'
  <2>1. CASE n = m
    BY <1>7, <2>1, NotShown DEF UpdateUnheard, Fails
  <2>2. CASE n # m
    BY <1>7, <1>w, <2>2, Others DEF UpdateUnheard, Writes, Fails
  <2> QED BY <2>1, <2>2
<1>8. ASSUME NEW m \in Members, NEW role \in Grades, UpdateStaff(m, role), NEW n \in Members
      PROVE  Good(n)'
  <2>1. \/ regraded'[n]
        \/ regraded'[n] = regraded[n] /\ roleKey'[n] = roleKey[n]
    BY <1>8 DEF UpdateStaff
  <2> QED
    BY <1>8, <2>1, Others DEF UpdateStaff
<1>9. ASSUME NEW name \in Texts, NEW address \in Texts \cup {Null},
             CreateFromHold(name, address), NEW n \in Members
      PROVE  Good(n)'
  BY <1>9, Others DEF CreateFromHold
<1>10. ASSUME UNCHANGED guestVars, NEW n \in Members PROVE Good(n)'
  BY <1>10, Others DEF guestVars
<1> QED
  BY <1>1, <1>2, <1>3, <1>4, <1>5, <1>6, <1>7, <1>8, <1>9, <1>10 DEF GuestsNext

\* What a save does while its member's role is the one that read the profile.
LEMMA WrittenWhole ==
    ASSUME GuestsInv, NEW m \in Members, Writes(m), ~regraded[m]
    PROVE  /\ shown[m]
           /\ ~meddled[m] => \E f \in Columns : ColumnsChanged \subseteq {f}
<1> USE DEF GuestsInv, GuestsTypeOK
<1>1. page[m].step = "saving" /\ MayEdit(m)
  BY DEF Writes, Paired, Whole
<1>2. shown[m]
  BY <1>1 DEF Whole
<1>3. ASSUME ~meddled[m] PROVE \E f \in Columns : ColumnsChanged \subseteq {f}
  <2>1. PICK f \in Columns : \A g \in Columns \ {f} : request[m].body[g] = guest[g]
    BY <1>1, <1>2, <1>3 DEF Fresh
  <2>2. ASSUME NEW g \in Columns \ {f} PROVE guest'[g] = guest[g]
    BY <2>1, Sanitizing DEF Writes, Profiles
  <2> QED
    BY <2>2 DEF ColumnsChanged
<1> QED
  BY <1>2, <1>3

\* No save erases what its form was not shown, unless the role was set in between.
THEOREM MaskIsNeverSaved == GuestsSpec => MaskNeverSaved
<1>1. GuestsInv /\ [GuestsNext]_guestVars =>
        [\A m \in Members : Writes(m) /\ ~shown[m] /\ ~regraded[m] =>
            \A f \in Sensitive : guest'[f] = Null => guest[f] = Null]_guestVars
  BY WrittenWhole
<1> QED
  BY <1>1, GuestsInvInit, GuestsInvStep, PTL DEF GuestsSpec, MaskNeverSaved

\* A member of staff undoes nothing of their own with a later save.
THEOREM OwnWorkIsKept == GuestsSpec => OwnWorkKept
<1>1. GuestsInv /\ [GuestsNext]_guestVars =>
        [\A m \in Members : Writes(m) /\ ~meddled[m] /\ ~regraded[m] =>
            \E f \in Columns : ColumnsChanged \subseteq {f}]_guestVars
  BY WrittenWhole
<1> QED
  BY <1>1, GuestsInvInit, GuestsInvStep, PTL DEF GuestsSpec, OwnWorkKept
================================================================================
