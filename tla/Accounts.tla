------------------------------- MODULE Accounts -------------------------------
(***************************************************************************)
(* The password of one member of staff: sign-ins with the count of wrong   *)
(* ones and the lock it leads to, links that reset the password, and the   *)
(* sessions that these open and end (authService.ts).  How a session is    *)
(* used, and suspension, are the subject of Sessions.tla.                  *)
(*                                                                         *)
(* A handler's statements are separate steps, as bcrypt gives others time  *)
(* between them.  A password is the number of the reset that set it.       *)
(*                                                                         *)
(* A definition whose name starts with "Mutant" is not part of the model:  *)
(* it is a plausible slip in the code that the definition below it models. *)
(***************************************************************************)
EXTENDS Integers, FiniteSets

CONSTANTS
    Attempts,     \* sign-ins, refreshes and resets that can be in flight at once
    Links,        \* bound: reset links that are asked for
    NoLink,       \* no link
    MAX_FAILED,   \* wrong passwords before the account is locked
    MaxCount      \* bound: wrong passwords that are counted

ASSUME AccountsAssumption ==
    /\ MAX_FAILED \in Nat \ {0} /\ MaxCount \in Nat /\ MAX_FAILED <= MaxCount
    /\ IsFiniteSet(Links) /\ NoLink \notin Links

VARIABLES
    account,     \* the Staff row
    link,        \* the PasswordReset table
    attempt,     \* what each handler in flight has read so far
    live,        \* the passwords with which the live sessions were opened
    tried,       \* history: wrong passwords since the account was last opened
    crowded      \* history: whether two handlers were in flight at once

accountVars == <<account, link, attempt, live, tried, crowded>>

Passwords == Nat
AccountRow == [password: Passwords, failedLoginCount: 0..MaxCount, locked: BOOLEAN]
LinkRow == [state: {"none", "sent", "used"}, expired: BOOLEAN]

\* password: the one in the row that was read, or with which a session was opened.
Free == [at |-> "free", password |-> 0, failed |-> 0, link |-> NoLink]
AttemptState ==
    [at: {"free", "wrong", "right", "session", "confirm"}, password: Passwords,
     failed: 0..MaxCount, link: Links \cup {NoLink}]

Goes(a, to) == attempt' = [attempt EXCEPT ![a] = to]

-------------------------------------------------------------------------------
(* login and refresh                                                       *)

\* A locked account is refused before the password is compared.
LoginReads(a) ==
    /\ attempt[a] = Free
    /\ ~account.locked
    /\ \E at \in {"wrong", "right"} :
        /\ at = "wrong" => account.failedLoginCount < MaxCount
        /\ Goes(a, [Free EXCEPT !.at = at, !.password = account.password,
                                !.failed = account.failedLoginCount])
    /\ UNCHANGED <<account, link, live, tried>>

\* The account is locked at one count, which is passed when the lock has lapsed.
MutantWrongPassword(a) ==
    LET failed == attempt[a].failed + 1 IN
    /\ attempt[a].at = "wrong"
    /\ account' = [account EXCEPT !.failedLoginCount = failed,
                                  !.locked = failed = MAX_FAILED]
    /\ tried' = tried + 1
    /\ Goes(a, Free)
    /\ UNCHANGED <<link, live>>

\* lockedUntil is written as well when it is null: a count that was read before
\* the account was locked unlocks it.
WrongPassword(a) ==
    LET failed == attempt[a].failed + 1 IN
    /\ attempt[a].at = "wrong"
    /\ account' = [account EXCEPT !.failedLoginCount = failed,
                                  !.locked = failed >= MAX_FAILED]
    /\ tried' = tried + 1
    /\ Goes(a, Free)
    /\ UNCHANGED <<link, live>>

\* The counters are cleared, whatever they are by now.
RightPassword(a) ==
    /\ attempt[a].at = "right"
    /\ account' = [account EXCEPT !.failedLoginCount = 0, !.locked = FALSE]
    /\ tried' = 0
    /\ Goes(a, [attempt[a] EXCEPT !.at = "session", !.failed = 0])
    /\ UNCHANGED <<link, live>>

\* rotateStaffSession reads a session that is live; its successor is inserted
\* whatever became of it.
RotationReads(a) ==
    /\ attempt[a] = Free
    /\ \E password \in live :
        Goes(a, [Free EXCEPT !.at = "session", !.password = password])
    /\ UNCHANGED <<account, link, live, tried>>

CreateStaffSession(a) ==
    /\ attempt[a].at = "session"
    /\ live' = live \cup {attempt[a].password}
    /\ Goes(a, Free)
    /\ UNCHANGED <<account, link, tried>>

\* The 15 minutes are over; the count stays.
LockLapses ==
    /\ account.locked
    /\ account' = [account EXCEPT !.locked = FALSE]
    /\ tried' = 0
    /\ UNCHANGED <<link, attempt, live>>

-------------------------------------------------------------------------------
(* Password reset                                                          *)

RequestPasswordReset(l) ==
    /\ link[l].state = "none"
    /\ link' = [link EXCEPT ![l].state = "sent"]
    /\ UNCHANGED <<account, attempt, live, tried>>

LinkExpires(l) ==
    /\ link[l].state # "none" /\ ~link[l].expired
    /\ link' = [link EXCEPT ![l].expired = TRUE]
    /\ UNCHANGED <<account, attempt, live, tried>>

ConfirmReads(a, l) ==
    /\ attempt[a] = Free
    /\ link[l].state = "sent" /\ ~link[l].expired
    /\ Goes(a, [Free EXCEPT !.at = "confirm", !.link = l])
    /\ UNCHANGED <<account, link, live, tried>>

Opened == [password |-> account.password + 1, failedLoginCount |-> 0, locked |-> FALSE]

\* The link is not marked.
MutantConfirmPasswordReset(a) ==
    /\ attempt[a].at = "confirm"
    /\ account' = Opened
    /\ live' = {}
    /\ tried' = 0
    /\ Goes(a, Free)
    /\ UNCHANGED link

\* One transaction: the password, the link, and the sessions that are live now.
ConfirmPasswordReset(a) ==
    /\ attempt[a].at = "confirm"
    /\ account' = Opened
    /\ link' = [link EXCEPT ![attempt[a].link].state = "used"]
    /\ live' = {}
    /\ tried' = 0
    /\ Goes(a, Free)

\* A sign-out ends one session, a reused refresh token or a suspension all of them.
SessionsEnd ==
    /\ \E left \in SUBSET live : left # live /\ live' = left
    /\ UNCHANGED <<account, link, attempt, tried>>

-------------------------------------------------------------------------------
AccountsInit ==
    /\ account = [password |-> 0, failedLoginCount |-> 0, locked |-> FALSE]
    /\ link = [l \in Links |-> [state |-> "none", expired |-> FALSE]]
    /\ attempt = [a \in Attempts |-> Free]
    /\ live = {}
    /\ tried = 0
    /\ crowded = FALSE

AccountsStep ==
    \/ \E a \in Attempts :
        \/ LoginReads(a) \/ WrongPassword(a) \/ RightPassword(a)
        \/ RotationReads(a) \/ CreateStaffSession(a)
        \/ ConfirmPasswordReset(a)
        \/ \E l \in Links : ConfirmReads(a, l)
    \/ LockLapses \/ SessionsEnd
    \/ \E l \in Links : RequestPasswordReset(l) \/ LinkExpires(l)

AccountsNext ==
    /\ AccountsStep
    /\ crowded' =
        (crowded \/ \E a, b \in Attempts : a # b /\ attempt'[a] # Free /\ attempt'[b] # Free)

AccountsSpec == AccountsInit /\ [][AccountsNext]_accountVars

-------------------------------------------------------------------------------
(* Properties                                                              *)

\* Every row is well formed, and however sign-ins and resets overlap, an account
\* is locked only while its count says so: none is locked for the 15 minutes
\* with a count that was cleared (login writes both columns).
AccountsTypeOK ==
    /\ account \in AccountRow
    /\ link \in [Links -> LinkRow]
    /\ attempt \in [Attempts -> AttemptState]
    /\ live \subseteq Passwords
    /\ tried \in Nat /\ crowded \in BOOLEAN
    /\ account.locked => account.failedLoginCount >= MAX_FAILED

\* While sign-ins do not overlap, no more than MAX_FAILED wrong passwords are
\* compared before the account is locked, and after a lock has lapsed, whose count
\* is still there, no more than that either (login).
GuessesAreLimitedUnhurried == ~crowded => tried <= MAX_FAILED

\* Unless handlers overlap, a reset leaves no session that was opened with an
\* earlier password, and each reset link has set one password
\* (confirmPasswordReset).
ResetIsFinalUnhurried ==
    ~crowded =>
        /\ live \subseteq {account.password}
        /\ account.password = Cardinality({l \in Links : link[l].state = "used"})

-------------------------------------------------------------------------------
(* Claims of the documentation that the code does not keep                 *)

\* "Account lockout after 5 failed logins" (backend-spec.md:2108).
GuessesAreLimited == tried <= MAX_FAILED

\* "Password reset: 30-min token, single-use" (backend-spec.md:2110).
LinkWorksOnce == account.password <= Cardinality({l \in Links : link[l].state = "used"})

\* "Force re-auth everywhere." (authService.ts:201).
ResetEndsEverySession == live \subseteq {account.password}
================================================================================
