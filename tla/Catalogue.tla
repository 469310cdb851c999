------------------------------- MODULE Catalogue -------------------------------
(***************************************************************************)
(* What staff publish: room types with their photos and seasonal rates,    *)
(* offers, reviews, the gallery and the settings (configController.ts and  *)
(* the CMS handlers of adminController.ts), the admin pages that edit them *)
(* and the public reads.                                                   *)
(*                                                                         *)
(* A page keeps the list it last fetched and the form of an open dialog, a *)
(* call is a handler between two of its statements.  The sections share no *)
(* row and no page, so a behaviour exercises one of them: the one row that *)
(* is edited (table) or the rows that are added and removed (rows).        *)
(*                                                                         *)
(* A definition whose name starts with "Mutant" is not part of the model:  *)
(* it is a plausible slip in the code that the definition below it models. *)
(***************************************************************************)
EXTENDS Integers, FiniteSets

CONSTANTS
    Editors,   \* browser tabs of staff
    Calls,     \* bound: handler calls in flight at once
    Units,     \* bound: rows of a collection
    MaxBegun,  \* bound: handler calls in all
    Closed,    \* no dialog is open
    NoCall     \* an unused call

VARIABLES
    section,    \* what is being edited
    table,      \* the edited row
    rows,       \* the rows of a collection: photos, rates, gallery images
    page,       \* each tab's list, open form and saving flag
    calls,      \* the handlers that have begun
    begun,      \* how many calls have begun
    authors,    \* history: the tabs whose calls have begun
    overlapped, \* history: whether two changes were under way together or one broke off
    removed,    \* history: whether the offer's deletion was stored
    wanted      \* history: the room types of the offer last saved

catalogueVars == <<section, table, rows, page, calls, begun, authors, overlapped, removed, wanted>>

Sections == {"roomTypes", "offers", "reviews", "settings", "photos", "rates", "gallery"}

Blank == "blank"
Price == {"low", "high"}
TypeSets == {{}, {"deluxe"}, {"suite"}}

\* What the forms offer for the columns they edit; a room type's text may be blank.
RoomTypeColumns == [basePrice |-> Price, view |-> {"sea", "hill", Blank}]
OfferColumns == [status |-> {"DRAFT", "PUBLISHED"}, roomTypes |-> TypeSets]
ReviewColumns == [status |-> {"DRAFT", "PUBLISHED"}, isFeatured |-> BOOLEAN]
SettingColumns == [gstPct |-> Price, minNights |-> Price]
Columns(s) ==
    CASE s = "roomTypes" -> RoomTypeColumns
      [] s = "offers" -> OfferColumns
      [] s = "reviews" -> ReviewColumns
      [] s = "settings" -> SettingColumns
      [] OTHER -> [none |-> {"none"}]
Fields(s) == DOMAIN Columns(s)

\* What a form may hold, and a call.
RoomTypeForm == [basePrice: Price, view: {"sea", "hill", Blank}]
OfferForm == [status: {"DRAFT", "PUBLISHED"}, roomTypes: SUBSET UNION TypeSets]
ReviewForm == [status: {"DRAFT", "PUBLISHED"}, isFeatured: BOOLEAN]
SettingForm == [gstPct: Price, minNights: Price]
Form == RoomTypeForm \cup OfferForm \cup ReviewForm \cup SettingForm
Call ==
    [by: Editors, op: {"create", "update", "toggle", "delete", "add"},
     body: {Closed} \cup BOOLEAN \cup Form, base: {Closed} \cup Form,
     stage: {"sent", "found", "written", "cleared", "reset", "done"}]

ASSUME CatalogueAssumption ==
    /\ IsFiniteSet(Units)
    /\ NoCall \notin Call /\ Closed \notin Form

Starting(s) ==
    CASE s = "roomTypes" -> {[basePrice |-> "low", view |-> "sea"]}
      [] s = "offers" ->
           {[status |-> "ABSENT", roomTypes |-> {}, deletedAt |-> FALSE],
            [status |-> "PUBLISHED", roomTypes |-> {"deluxe"}, deletedAt |-> FALSE]}
      [] s = "reviews" ->
           {[status |-> "ABSENT", isFeatured |-> FALSE], [status |-> "PUBLISHED", isFeatured |-> FALSE]}
      [] s = "settings" -> {[gstPct |-> "low", minNights |-> "low"]}
      [] OTHER -> {[none |-> "none"]}

Edited(row) == [f \in Fields(section) |-> row[f]]
Offered == table.status # "ABSENT" /\ ~table.deletedAt
Reviewed == table.status \notin {"ABSENT", "DELETED"}

-----------------------------------------------------------------------------
(* The pages.                                                               *)

InFlight == {c \in Calls : calls[c] # NoCall}
Begin(c, call) ==
    /\ calls[c] = NoCall
    /\ begun < MaxBegun  \* Bound.
    /\ begun' = begun + 1 /\ authors' = authors \cup {call.by}
    /\ calls' = [calls EXCEPT ![c] = call]
    /\ overlapped' = (overlapped \/ InFlight # {})
Sent(e, op, body, base) == [by |-> e, op |-> op, body |-> body, base |-> base, stage |-> "sent"]
OnlyPage == UNCHANGED <<section, table, rows, calls, begun, authors, overlapped, removed, wanted>>
OnlyCall == UNCHANGED <<section, table, rows, removed, wanted>>

Refresh(e) ==
    /\ section = "roomTypes"
    /\ page' = [page EXCEPT ![e].list = Edited(table)]
    /\ OnlyPage
FetchList(e) ==
    /\ section = "reviews"
    /\ page' = [page EXCEPT ![e].list = Edited(table)]
    /\ OnlyPage

\* A dialog over the row: as the list has it, as it is now, or a new one.
Open(e, form, isNew) ==
    /\ page[e].form = Closed
    /\ page' = [page EXCEPT ![e].form = form, ![e].isNew = isNew]
    /\ OnlyPage
Listed(e) == page[e].list.status \in ReviewColumns.status
FormFromRt(e) == section = "roomTypes" /\ Open(e, page[e].list, FALSE)
ReviewEditor(e) ==
    /\ section = "reviews"
    /\ \/ Listed(e) /\ Open(e, page[e].list, FALSE)
       \/ /\ table.status = "ABSENT"  \* Bound: one review.
          /\ Open(e, [status |-> "DRAFT", isFeatured |-> FALSE], TRUE)
StartEdit(e) == section = "offers" /\ Offered /\ Open(e, Edited(table), FALSE)
StartNew(e) == section = "offers" /\ Open(e, [status |-> "DRAFT", roomTypes |-> {}], TRUE)
\* The settings page is the form itself; it is loaded when the page is opened.
LoadSettings(e) == section = "settings" /\ Open(e, Edited(table), FALSE)

\* Only the review editor can be left while its save is under way.
CloseDialog(e) ==
    /\ page[e].form # Closed
    /\ page[e].saving => section \in {"reviews", "settings"}
    /\ page' = [page EXCEPT ![e].form = Closed, ![e].isNew = FALSE, ![e].saving = FALSE]
    /\ OnlyPage

\* One value is changed and the whole form is sent; no second click while saving.
Save(e, c, f, v) ==
    LET form == [page[e].form EXCEPT ![f] = v] IN
    /\ page[e].form # Closed /\ ~page[e].saving
    /\ Begin(c, Sent(e, IF page[e].isNew THEN "create" ELSE "update", form, page[e].form))
    /\ page' = [page EXCEPT ![e].saving = TRUE, ![e].form = form]
    /\ OnlyCall
SaveEdit(e, c, f, v) == section = "roomTypes" /\ Save(e, c, f, v)
SaveOffer(e, c, f, v) == section = "offers" /\ Save(e, c, f, v)
SaveReview(e, c, f, v) == section = "reviews" /\ Save(e, c, f, v)
SaveSettings(e, c, f, v) == section = "settings" /\ Save(e, c, f, v)

\* Publishing and featuring send the row of the list with one value turned; no
\* flag keeps a second click away.
Toggle(e, c, body) ==
    /\ section = "reviews" /\ Listed(e) /\ page[e].form = Closed
    /\ Begin(c, Sent(e, "toggle", body, page[e].list))
    /\ UNCHANGED page /\ OnlyCall
HandlePublishToggle(e, c) ==
    Toggle(e, c, [page[e].list EXCEPT !.status = IF @ = "PUBLISHED" THEN "DRAFT" ELSE "PUBLISHED"])
HandleFeatureToggle(e, c) == Toggle(e, c, [page[e].list EXCEPT !.isFeatured = ~@])
HandleDelete(e) ==
    /\ section = "reviews" /\ Reviewed /\ Listed(e)
    /\ table' = [table EXCEPT !.status = "DELETED"]
    /\ UNCHANGED <<section, rows, page, calls, begun, authors, overlapped, removed, wanted>>

Remove(e, c) ==
    /\ section = "offers" /\ ~page[e].deleting /\ page[e].form = Closed
    /\ Begin(c, Sent(e, "delete", Closed, Closed))
    /\ page' = [page EXCEPT ![e].deleting = TRUE]
    /\ OnlyCall

\* Photos and rates are added without a saving flag, gallery images with one.  The
\* strip of photos never asks for a cover, a client of the API may.
Add(e, c, cover) ==
    /\ Begin(c, Sent(e, "add", cover, Closed))
    /\ page' = [page EXCEPT ![e].saving = (section = "gallery")]
    /\ OnlyCall
PhotoStrip(e, c) == section = "photos" /\ Add(e, c, FALSE)
AddCover(e, c) == section = "photos" /\ Add(e, c, TRUE)
AddRate(e, c) == section = "rates" /\ Add(e, c, FALSE)
AddImage(e, c) == section = "gallery" /\ ~page[e].saving /\ Add(e, c, FALSE)

-----------------------------------------------------------------------------
(* The handlers.                                                            *)

At(c, op, stage) == calls[c] # NoCall /\ calls[c].op = op /\ calls[c].stage = stage
Proceed(c, stage) == calls' = [calls EXCEPT ![c].stage = stage]
Body(c) == calls[c].body
Untouched == UNCHANGED <<section, rows, page, begun, authors, overlapped>>

\* A blank text is not sent, and what is not sent is not changed.
UpdateRoomType(c) ==
    /\ section = "roomTypes" /\ At(c, "update", "sent")
    /\ table' = [f \in DOMAIN table |-> IF Body(c)[f] = Blank THEN table[f] ELSE Body(c)[f]]
    /\ Proceed(c, "done")
    /\ UNCHANGED <<removed, wanted>> /\ Untouched

CreateReview(c) ==
    /\ section = "reviews" /\ At(c, "create", "sent")
    /\ table.status = "ABSENT"  \* Bound: one review.
    /\ table' = Body(c)
    /\ Proceed(c, "done")
    /\ UNCHANGED <<removed, wanted>> /\ Untouched
UpdateReview(c) ==
    /\ section = "reviews" /\ (At(c, "update", "sent") \/ At(c, "toggle", "sent"))
    /\ Reviewed
    /\ table' = Body(c)
    /\ Proceed(c, "done")
    /\ UNCHANGED <<removed, wanted>> /\ Untouched

\* One upsert per key, in any order; done when every key has the form's value.
UpdateSettings(c, k) ==
    /\ section = "settings" /\ At(c, "update", "sent")
    /\ table' = [table EXCEPT ![k] = Body(c)[k]]
    /\ IF table' = Body(c) THEN Proceed(c, "done") ELSE UNCHANGED calls
    /\ UNCHANGED <<removed, wanted>> /\ Untouched

UpsertFind(c) ==
    /\ section = "offers" /\ At(c, "update", "sent")
    /\ Offered
    /\ Proceed(c, "found")
    /\ UNCHANGED <<table, removed, wanted>> /\ Untouched
UpsertUpdate(c) ==
    /\ section = "offers" /\ At(c, "update", "found")
    /\ table' = [table EXCEPT !.status = Body(c).status]
    /\ Proceed(c, "written")
    /\ UNCHANGED <<removed, wanted>> /\ Untouched
\* Bound: one offer, whose slug is taken once it is made, deleted or not.
UpsertCreate(c) ==
    /\ section = "offers" /\ At(c, "create", "sent")
    /\ table.status = "ABSENT"
    /\ table' = [table EXCEPT !.status = Body(c).status]
    /\ Proceed(c, "written")
    /\ UNCHANGED <<removed, wanted>> /\ Untouched
Stored(c, stage) ==
    section = "offers" /\ (At(c, "update", stage) \/ At(c, "create", stage))
MutantUpsertClear(c) ==
    /\ Stored(c, "written")
    /\ Proceed(c, "cleared")
    /\ UNCHANGED <<table, removed, wanted>> /\ Untouched
UpsertClear(c) ==
    /\ Stored(c, "written")
    /\ table' = [table EXCEPT !.roomTypes = {}]
    /\ Proceed(c, "cleared")
    /\ UNCHANGED <<removed, wanted>> /\ Untouched
UpsertFill(c) ==
    /\ Stored(c, "cleared")
    /\ table.roomTypes \cap Body(c).roomTypes = {}  \* A second row for a pair is refused.
    /\ table' = [table EXCEPT !.roomTypes = @ \cup Body(c).roomTypes]
    /\ wanted' = Body(c).roomTypes
    /\ Proceed(c, "done")
    /\ UNCHANGED removed /\ Untouched

DeleteFind(c) ==
    /\ At(c, "delete", "sent")
    /\ Offered
    /\ Proceed(c, "found")
    /\ UNCHANGED <<table, removed, wanted>> /\ Untouched
DeleteOffer(c) ==
    /\ At(c, "delete", "found")
    /\ table' = [table EXCEPT !.deletedAt = TRUE, !.status = "EXPIRED"]
    /\ removed' = TRUE
    /\ Proceed(c, "done")
    /\ UNCHANGED wanted /\ Untouched

NewRow(cover) == [id |-> CHOOSE i \in Units : \A r \in rows : r.id # i, isCover |-> cover]
Create(c) ==
    /\ Cardinality(rows) < Cardinality(Units)  \* Bound.
    /\ rows' = rows \cup {NewRow(Body(c))}
    /\ Proceed(c, "done")
    /\ UNCHANGED <<section, table, page, begun, authors, overlapped, removed, wanted>>
ResetCovers(c) ==
    /\ At(c, "add", "sent") /\ section = "photos" /\ Body(c)
    /\ rows' = {[r EXCEPT !.isCover = FALSE] : r \in rows}
    /\ Proceed(c, "reset")
    /\ UNCHANGED <<section, table, page, begun, authors, overlapped, removed, wanted>>
AddRoomPhoto(c) ==
    /\ section = "photos"
    /\ At(c, "add", IF Body(c) THEN "reset" ELSE "sent")
    /\ Create(c)
CreateRatePlan(c) == section = "rates" /\ At(c, "add", "sent") /\ Create(c)
AddGalleryImage(c) == section = "gallery" /\ At(c, "add", "sent") /\ Create(c)

Delete(r) ==
    /\ rows' = rows \ {r}
    /\ UNCHANGED <<section, table, page, calls, begun, authors, overlapped, removed, wanted>>
DeleteRoomPhoto(r) == section = "photos" /\ Delete(r)
DeleteRatePlan(r) == section = "rates" /\ Delete(r)
DeleteGalleryImage(r) == section = "gallery" /\ Delete(r)

MutantAnswered(c) ==
    LET was == page[calls[c].by] IN
    [was EXCEPT
       !.form = IF calls[c].op \in {"update", "create"} /\ section # "settings" THEN Closed ELSE @,
       !.isNew = @ /\ calls[c].op \notin {"update", "create"},
       !.saving = IF calls[c].op \in {"toggle", "delete"} THEN @ ELSE FALSE,
       !.deleting = @ /\ calls[c].op # "delete",
       !.list = IF section = "reviews" THEN Edited(table) ELSE @]
\* The answer closes the dialog, whichever is open by now, and the list is
\* fetched again; the settings stay as they are on the screen.
Answered(c) ==
    LET was == page[calls[c].by] IN
    [was EXCEPT
       !.form = IF calls[c].op \in {"update", "create"} /\ section # "settings" THEN Closed ELSE @,
       !.isNew = @ /\ calls[c].op \notin {"update", "create"},
       !.saving = IF calls[c].op \in {"toggle", "delete"} THEN @ ELSE FALSE,
       !.deleting = @ /\ calls[c].op # "delete",
       !.list = IF section \in {"roomTypes", "reviews"} THEN Edited(table) ELSE @]
Answer(c) ==
    /\ calls[c] # NoCall /\ calls[c].stage = "done"
    /\ calls' = [calls EXCEPT ![c] = NoCall]
    /\ page' = [page EXCEPT ![calls[c].by] = Answered(c)]
    /\ UNCHANGED <<section, table, rows, begun, authors, overlapped, removed, wanted>>

\* A statement is refused or fails, or the process stops: what was written stays,
\* and the dialog stays open.
Fail(c) ==
    /\ calls[c] # NoCall /\ calls[c].stage # "done"
    /\ calls' = [calls EXCEPT ![c] = NoCall]
    /\ page' = [page EXCEPT ![calls[c].by].saving = @ /\ calls[c].op \in {"toggle", "delete"},
                            ![calls[c].by].deleting = @ /\ calls[c].op # "delete"]
    /\ overlapped' = TRUE
    /\ UNCHANGED <<section, table, rows, begun, authors, removed, wanted>>

-----------------------------------------------------------------------------
(* The public reads.                                                        *)

GetOffers == section = "offers" /\ table.status = "PUBLISHED" /\ ~table.deletedAt
GetReviews == section = "reviews" /\ table.status = "PUBLISHED"
GetRoomTypes == {r \in rows : r.isCover}
GetGallery == rows
\* The gallery page takes the "items" of an answer that has none, and the public
\* offers page is a list in its source.
GalleryPage == {}
OffersPage == FALSE

-----------------------------------------------------------------------------
CatalogueInit ==
    /\ section \in Sections
    /\ table \in Starting(section)
    /\ rows = {}
    /\ page = [e \in Editors |-> [list |-> Edited(table), form |-> Closed, isNew |-> FALSE,
                                  saving |-> FALSE, deleting |-> FALSE]]
    /\ calls = [c \in Calls |-> NoCall]
    /\ begun = 0 /\ authors = {} /\ overlapped = FALSE /\ removed = FALSE
    /\ wanted = IF section = "offers" THEN table.roomTypes ELSE {}

PageNext ==
    \E e \in Editors :
        \/ Refresh(e) \/ FetchList(e) \/ LoadSettings(e)
        \/ FormFromRt(e) \/ ReviewEditor(e) \/ StartEdit(e) \/ StartNew(e) \/ CloseDialog(e)
        \/ HandleDelete(e)
        \/ \E c \in Calls :
             \/ \E f \in Fields(section) : \E v \in Columns(section)[f] :
                  \/ SaveEdit(e, c, f, v) \/ SaveOffer(e, c, f, v)
                  \/ SaveReview(e, c, f, v) \/ SaveSettings(e, c, f, v)
             \/ HandlePublishToggle(e, c) \/ HandleFeatureToggle(e, c) \/ Remove(e, c)
             \/ PhotoStrip(e, c) \/ AddCover(e, c) \/ AddRate(e, c) \/ AddImage(e, c)
HandlerNext ==
    \/ \E c \in Calls :
         \/ UpdateRoomType(c) \/ CreateReview(c) \/ UpdateReview(c)
         \/ \E k \in DOMAIN table : UpdateSettings(c, k)
         \/ UpsertFind(c) \/ UpsertCreate(c) \/ UpsertUpdate(c) \/ UpsertClear(c) \/ UpsertFill(c)
         \/ DeleteFind(c) \/ DeleteOffer(c)
         \/ ResetCovers(c) \/ AddRoomPhoto(c) \/ CreateRatePlan(c) \/ AddGalleryImage(c)
         \/ Answer(c) \/ Fail(c)
    \/ \E r \in rows : DeleteRoomPhoto(r) \/ DeleteRatePlan(r) \/ DeleteGalleryImage(r)
CatalogueNext == PageNext \/ HandlerNext

CatalogueSpec == CatalogueInit /\ [][CatalogueNext]_catalogueVars

-----------------------------------------------------------------------------
(* Properties.                                                              *)

\* Rows hold values their columns may hold; a text once written is never blank.
CatalogueTypeOK ==
    /\ section \in Sections
    /\ \A f \in Fields(section) :
         \/ f = "status" /\ table.status \in {"ABSENT", "EXPIRED", "DELETED"}
         \/ f = "roomTypes" /\ section = "offers" /\ table.roomTypes \subseteq UNION TypeSets
         \/ table[f] \in Columns(section)[f]
    /\ section = "roomTypes" => table.view # Blank
    /\ \A r \in rows : r.id \in Units /\ r.isCover \in BOOLEAN
    /\ \A e \in Editors : page[e].saving \in BOOLEAN

\* A deleted offer never shows on the public site again, though a save that had
\* found the offer before it was deleted publishes it afterwards (upsertOffer,
\* deleteOffer: "stop showing on the site").
DeletedStaysHidden == removed => ~GetOffers

\* Between saves the offer's room types are those of the save that was last to
\* finish, unless two changes were under way together or one broke off: no type
\* of an earlier save is left (upsertOffer's "Replace room type associations").
LastSaveStands ==
    (section = "offers" /\ ~overlapped /\ InFlight = {}) => table.roomTypes = wanted

\* A room type has at most one cover photo unless two requests overlapped
\* (addRoomPhoto's "Reset other covers").
OneCoverUnhurried == ~overlapped => Cardinality(GetRoomTypes) <= 1

\* What staff have changed stands, in whatever order the calls of two tabs are
\* handled: upsertOffer, deleteOffer and addRoomPhoto together.
ChangesStand == DeletedStaysHidden /\ LastSaveStands /\ OneCoverUnhurried

Changes == Cardinality({f \in Fields(section) : table'[f] # table[f]})

\* A tab that works alone undoes nothing of its own: as long as no save broke off,
\* each save of a room type changes the one value that was edited, whatever was
\* saved before and whichever dialogs were given up in between (saveEdit fetches the
\* list again, formFromRt starts from it).
OneTabKeepsItsWork ==
    [][\A c \in Calls : UpdateRoomType(c) /\ ~overlapped /\ authors = {calls[c].by} => Changes <= 1]_catalogueVars

-----------------------------------------------------------------------------
(* Claims of comments and texts that the code does not keep.                *)

\* "Reset other covers" (configController.ts:98).
OneCover == Cardinality(GetRoomTypes) <= 1

\* "Only approved reviews are shown publicly" (reviews page): a click that does
\* not mean to publish publishes nothing.
RetractedStaysHidden ==
    [][\A c \in Calls : UpdateReview(c) /\ ~GetReviews /\ GetReviews' =>
            calls[c].base.status = "DRAFT"]_catalogueVars

\* A review that is saved keeps what the same tab's earlier click has done to it.
OneTabKeepsItsClicks ==
    [][\A c \in Calls : UpdateReview(c) /\ ~overlapped /\ authors = {calls[c].by} => Changes <= 1]_catalogueVars

\* "Replace room type associations" (configController.ts:318): nothing of another save.
RoomTypesOfOneSave ==
    (section = "offers" /\ InFlight = {}) => table.roomTypes = wanted

\* A setting nobody touched keeps its value.
SettingsKept ==
    [][\A c \in Calls, k \in DOMAIN table :
         UpdateSettings(c, k) /\ table'[k] # table[k] => Body(c)[k] # calls[c].base[k]]_catalogueVars

\* "Edit ... room details" (pricing page): a text that is emptied is empty.
ClearedIsCleared ==
    [][\A c \in Calls : UpdateRoomType(c) => table' = Body(c)]_catalogueVars

\* Offers "Appear on the public offers page" (offers page.tsx:182).
OfferAppears == GetOffers => OffersPage

\* The gallery page lists the images ("returns the visible images", gallery page).
GalleryListsImages == section = "gallery" => GalleryPage = GetGallery
================================================================================
