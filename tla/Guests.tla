-------------------------------- MODULE Guests --------------------------------
(***************************************************************************)
(* The profile of one guest: what a member of staff is shown and may save  *)
(* (guestsController.ts, requirePermission.ts and the profile page), the   *)
(* bookings that write the same row (createFromHold) and the change of a   *)
(* member's role in between (updateStaff).                                 *)
(*                                                                         *)
(* A request is permitted in one statement and served in a later one.  The *)
(* page is edited and saved in one step, as nothing changes it in between. *)
(*                                                                         *)
(* A definition whose name starts with "Mutant" is not part of the model:  *)
(* it is a plausible slip in the code that the definition below it models. *)
(***************************************************************************)
EXTENDS Naturals, FiniteSets

CONSTANTS
    Members,      \* members of staff, each with the page open in one tab
    Grades,       \* bound: the roles that members are given
    OwnRoles,     \* the permissions of the roles a resort has defined for itself
    Texts,        \* what can be typed
    Markup,       \* a text of which sanitizeInput leaves nothing
    Blank,        \* the empty text
    Null,         \* no value
    MaxChanges    \* bound: saves, bookings and changes of role

VARIABLES
    guest,      \* the Guest row
    roleKey,    \* Staff.roleKey of each member
    page,       \* what each member's page shows
    request,    \* the request each page has sent, if any
    changes,    \* saves, bookings and changes of role so far
    shown,      \* history: whether the profile on the page has all columns
    meddled,    \* history: whether another has written the row since the page read it
    regraded    \* history: whether the member's role was set since then

guestVars == <<guest, roleKey, page, request, changes, shown, meddled, regraded>>

Sensitive == {"address", "notes"}
Columns == {"fullName"} \cup Sensitive
Stored == Texts \cup {Blank, Null}
Profiles == [Columns -> Stored]
Empty == [f \in Columns |-> Null]

\* A role has the permissions of its template, or of its row when the resort made it.
DefaultRoles == {"OWNER", "MANAGER", "RECEPTION", "MARKETING", "HOUSEKEEPING"}
Permissions(role) ==
    IF role \in DefaultRoles
      THEN IF role \in {"MANAGER", "RECEPTION"} THEN {"GUEST_VIEW", "GUEST_EDIT"} ELSE {}
      ELSE OwnRoles[role]
Can(role, key) == role = "OWNER" \/ key \in Permissions(role)

ASSUME GuestsAssumption ==
    /\ Grades \subseteq DefaultRoles \cup DOMAIN OwnRoles
    /\ MaxChanges \in Nat
    /\ Blank \notin Texts /\ Null \notin Texts \cup {Blank} /\ Markup \notin Stored

Idle == [op |-> "none", permitted |-> FALSE, sees |-> FALSE, body |-> Empty]
Get == [Idle EXCEPT !.op = "get"]
Requests ==
    [op: {"none", "get", "patch"}, permitted: BOOLEAN, sees: BOOLEAN,
     body: [Columns -> Stored \cup {Markup}]]
Pages == [step: {"loading", "profile", "saving", "error"}, data: Profiles]

History == <<shown, meddled, regraded>>
Change == changes < MaxChanges /\ changes' = changes + 1  \* Bound.
\* What a page had is not shown any more.
Showing(step) == [step |-> step, data |-> Empty]
Fails(m) ==
    /\ page' = [page EXCEPT ![m] = Showing("error")]
    /\ request' = [request EXCEPT ![m] = Idle]

-------------------------------------------------------------------------------
(* The page                                                                *)

\* The page has taken the place of its error only when it is opened again.
FetchProfile(m) ==
    /\ page[m].step = "error"
    /\ page' = [page EXCEPT ![m] = Showing("loading")]
    /\ request' = [request EXCEPT ![m] = Get]
    /\ UNCHANGED <<guest, roleKey, changes, History>>

\* One column is edited and all of them are sent; a field that is emptied is sent
\* as null, the name as the empty text.
HandleSave(m, f, v) ==
    /\ page[m].step = "profile"
    /\ Change
    /\ f = "fullName" => v # Null
    /\ page' = [page EXCEPT ![m].step = "saving"]
    /\ request' = [request EXCEPT ![m] = [Idle EXCEPT !.op = "patch",
                                                      !.body = [page[m].data EXCEPT ![f] = v]]]
    /\ UNCHANGED <<guest, roleKey, History>>

-------------------------------------------------------------------------------
(* The requests                                                            *)

MutantNeeded(op) == "GUEST_VIEW"
Needed(op) == IF op = "get" THEN "GUEST_VIEW" ELSE "GUEST_EDIT"

\* requireAuth reads the role as it is now.
Permit(m) ==
    /\ request[m].op # "none" /\ ~request[m].permitted
    /\ Can(roleKey[m], Needed(request[m].op))
    /\ request' = [request EXCEPT ![m].permitted = TRUE,
                                  ![m].sees = Can(roleKey[m], "GUEST_EDIT")]
    /\ regraded' = [regraded EXCEPT ![m] = @ /\ request[m].op # "get"]
    /\ UNCHANGED <<guest, roleKey, page, changes, shown, meddled>>

Forbid(m) ==
    /\ request[m].op # "none" /\ ~request[m].permitted
    /\ ~Can(roleKey[m], Needed(request[m].op))
    /\ Fails(m)
    /\ UNCHANGED <<guest, roleKey, changes, History>>

GetGuest(m) ==
    /\ request[m].op = "get" /\ request[m].permitted
    /\ page' = [page EXCEPT ![m] =
         [step |-> "profile",
          data |-> [f \in Columns |-> IF f \in Sensitive /\ ~request[m].sees THEN Null ELSE guest[f]]]]
    /\ request' = [request EXCEPT ![m] = Idle]
    /\ shown' = [shown EXCEPT ![m] = request[m].sees]
    /\ meddled' = [meddled EXCEPT ![m] = FALSE]
    /\ UNCHANGED <<guest, roleKey, changes, regraded>>

Sanitized(text) == IF text = Markup THEN Blank ELSE text
Accepted(body) == body.fullName \notin {Blank, Null}

Writes(m) ==
    /\ request[m].op = "patch" /\ request[m].permitted
    /\ Accepted(request[m].body)
    /\ guest' = [f \in Columns |-> Sanitized(request[m].body[f])]
    /\ meddled' = [n \in Members |-> meddled[n] \/ n # m]
    /\ UNCHANGED <<roleKey, changes, shown, regraded>>

\* The profile stays on the page as it was.
MutantUpdateGuest(m) ==
    /\ Writes(m)
    /\ page' = [page EXCEPT ![m].step = "profile"]
    /\ request' = [request EXCEPT ![m] = Idle]
\* On the answer the page fetches the profile again.
UpdateGuest(m) ==
    /\ Writes(m)
    /\ page' = [page EXCEPT ![m] = Showing("loading")]
    /\ request' = [request EXCEPT ![m] = Get]
UpdateUnheard(m) == Writes(m) /\ Fails(m)

\* A request is lost or refused, or a statement of its handler fails.
RequestFails(m) ==
    /\ request[m].op # "none"
    /\ Fails(m)
    /\ UNCHANGED <<guest, roleKey, changes, History>>

-------------------------------------------------------------------------------
(* Others                                                                  *)

\* A booking with the guest's phone number; an address that is not given is left.
CreateFromHold(name, address) ==
    /\ Change
    /\ guest' = [guest EXCEPT !.fullName = name,
                              !.address = IF address = Null THEN @ ELSE address]
    /\ meddled' = [m \in Members |-> TRUE]
    /\ UNCHANGED <<roleKey, page, request, shown, regraded>>

UpdateStaff(m, role) ==
    /\ changes < MaxChanges  \* Bound.
    /\ role # roleKey[m]
    /\ changes' = changes + 1
    /\ roleKey' = [roleKey EXCEPT ![m] = role]
    /\ regraded' = [regraded EXCEPT ![m] = TRUE]
    /\ UNCHANGED <<guest, page, request, shown, meddled>>

-------------------------------------------------------------------------------
GuestsInit ==
    /\ guest \in [fullName: Texts, address: Texts \cup {Null}, notes: Texts \cup {Null}]
    /\ roleKey \in [Members -> Grades]
    /\ page = [m \in Members |-> Showing("loading")]
    /\ request = [m \in Members |-> Get]
    /\ changes = 0
    /\ shown = [m \in Members |-> FALSE]
    /\ meddled = [m \in Members |-> FALSE]
    /\ regraded = [m \in Members |-> FALSE]

GuestsNext ==
    \/ \E m \in Members :
        \/ FetchProfile(m)
        \/ \E f \in Columns, v \in Stored \cup {Markup} : HandleSave(m, f, v)
        \/ Permit(m) \/ Forbid(m) \/ GetGuest(m)
        \/ UpdateGuest(m) \/ UpdateUnheard(m) \/ RequestFails(m)
        \/ \E role \in Grades : UpdateStaff(m, role)
    \/ \E name \in Texts, address \in Texts \cup {Null} : CreateFromHold(name, address)

GuestsSpec == GuestsInit /\ [][GuestsNext]_guestVars

-------------------------------------------------------------------------------
(* Properties                                                              *)

\* Rows, pages and requests are well formed: the row always has a name, and no
\* markup is ever stored or shown, though the form sends it (updateGuest's
\* sanitizeInput).
GuestsTypeOK ==
    /\ guest \in Profiles /\ guest.fullName # Null
    /\ roleKey \in [Members -> Grades]
    /\ page \in [Members -> Pages]
    /\ request \in [Members -> Requests]
    /\ changes \in Nat
    /\ shown \in [Members -> BOOLEAN]
    /\ meddled \in [Members -> BOOLEAN]
    /\ regraded \in [Members -> BOOLEAN]

\* A save sends the columns its form was not shown as null; unless the member's
\* role was changed since the profile was read, no save erases a column with
\* them: whoever may save has been shown all (getGuest masks by the permission
\* that the route of updateGuest asks for).
MaskNeverSaved ==
    [][\A m \in Members : Writes(m) /\ ~shown[m] /\ ~regraded[m] =>
            \A f \in Sensitive : guest'[f] = Null => guest[f] = Null]_guestVars

ColumnsChanged == {f \in Columns : guest'[f] # guest[f]}

\* Where nobody else has written the row since the page read it, and the role is
\* the same, a save changes the one column that was edited: nothing of the
\* member's own earlier saves is undone (handleSave fetches the profile again).
OwnWorkKept ==
    [][\A m \in Members : Writes(m) /\ ~meddled[m] /\ ~regraded[m] =>
            \E f \in Columns : ColumnsChanged \subseteq {f}]_guestVars

-------------------------------------------------------------------------------
(* What one might expect and the code does not do                          *)

\* "fullName: z.string().min(1)" (guestsController.ts:159): a guest has a name.
NameNeverBlank == guest.fullName # Blank

\* "Strip sensitive internal fields" (guestsController.ts:126), but do not erase them.
MaskNeverErases ==
    [][\A m \in Members : Writes(m) /\ ~shown[m] =>
            \A f \in Sensitive : guest'[f] = Null => guest[f] = Null]_guestVars

\* A save leaves what a booking has written since the page was opened.
BookingKept ==
    [][\A m \in Members : Writes(m) /\ ~regraded[m] =>
            \E f \in Columns : ColumnsChanged \subseteq {f}]_guestVars
================================================================================
