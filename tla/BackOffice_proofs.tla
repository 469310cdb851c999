--------------------------- MODULE BackOffice_proofs ---------------------------
(***************************************************************************)
(* Theorems about Catalogue.tla and Figures.tla, the back office, for any  *)
(* number of editors, calls, reservations, rooms and days.                 *)
(***************************************************************************)
EXTENDS Figures, Catalogue, Sums

-----------------------------------------------------------------------------
(* Catalogue. *)

\* What the table, a page and a call hold while the section is the offers.
OfferTable ==
    [status: {"ABSENT", "DRAFT", "PUBLISHED", "EXPIRED"}, roomTypes: SUBSET UNION TypeSets, deletedAt: BOOLEAN]
OfferList == [status: {"ABSENT", "DRAFT", "PUBLISHED"}, roomTypes: SUBSET UNION TypeSets]
OfferPage ==
    [list: OfferList, form: {Closed} \cup OfferForm, isNew: BOOLEAN, saving: BOOLEAN, deleting: BOOLEAN]
OfferCall ==
    [by: Editors, op: {"create", "update", "delete"}, body: {Closed} \cup OfferForm,
     base: {Closed} \cup OfferForm,
     stage: {"sent", "found", "written", "cleared", "done"}]

\* The inductive invariant of the offers: while one save is between its two
\* statements the types are empty, and otherwise they are those of the last save.
OffersOK ==
    section = "offers" =>
        /\ table \in OfferTable /\ (table.status = "EXPIRED" => table.deletedAt)
        /\ page \in [Editors -> OfferPage]
        /\ calls \in [Calls -> {NoCall} \cup OfferCall]
        /\ \A c \in InFlight : calls[c].op \in {"create", "update"} => calls[c].body \in OfferForm
        /\ removed \in BOOLEAN /\ overlapped \in BOOLEAN
        /\ removed => table.deletedAt
        /\ ~overlapped =>
             /\ \A c, d \in InFlight : c = d
             /\ (\A c \in InFlight : calls[c].stage # "cleared") => table.roomTypes = wanted
             /\ \A c \in InFlight : calls[c].stage = "cleared" => table.roomTypes = {}

\* A save of an offer is a call, and is not the mark of a free one.
LEMMA OfferCallIs == OfferCall \subseteq Call /\ NoCall \notin OfferCall
  BY CatalogueAssumption DEF OfferCall, Call, Form

\* The fields of the offers form.
LEMMA OfferFields == section = "offers" => Fields(section) = {"status", "roomTypes"}
  BY DEF Fields, Columns, OfferColumns

\* The offers invariant holds when the page is first opened.
LEMMA OffersInit == CatalogueInit => OffersOK
<1> SUFFICES ASSUME CatalogueInit, section = "offers" PROVE OffersOK
  BY DEF OffersOK
<1>1. \/ table = [status |-> "ABSENT", roomTypes |-> {}, deletedAt |-> FALSE]
      \/ table = [status |-> "PUBLISHED", roomTypes |-> {"deluxe"}, deletedAt |-> FALSE]
  <2>1. table \in Starting("offers")
    BY DEF CatalogueInit
  <2> QED BY <2>1 DEF Starting
<1>2. table \in OfferTable /\ table.status # "EXPIRED"
  <2>1. "deluxe" \in UNION TypeSets
    BY DEF TypeSets
  <2> DEFINE Types == UNION TypeSets
  <2>2. {} \in SUBSET Types /\ {"deluxe"} \in SUBSET Types
    BY <2>1
  <2> HIDE DEF Types
  <2>3. table \in [status: {"ABSENT", "DRAFT", "PUBLISHED", "EXPIRED"}, roomTypes: SUBSET Types, deletedAt: BOOLEAN]
    <3>1. CASE table = [status |-> "ABSENT", roomTypes |-> {}, deletedAt |-> FALSE]
      BY <2>2, <3>1
    <3>2. CASE table = [status |-> "PUBLISHED", roomTypes |-> {"deluxe"}, deletedAt |-> FALSE]
      BY <2>2, <3>2
    <3> QED BY <1>1, <3>1, <3>2
  <2> QED BY <1>1, <2>3 DEF OfferTable, Types
<1>3. Edited(table) = [f \in {"status", "roomTypes"} |-> table[f]]
  BY OfferFields DEF Edited
<1>4. Edited(table) \in OfferList
  BY <1>1, <1>2, <1>3 DEF OfferList, OfferTable
<1>5. page \in [Editors -> OfferPage]
  BY <1>4 DEF CatalogueInit, OfferPage
<1>6. InFlight = {} /\ calls \in [Calls -> {NoCall} \cup OfferCall]
  BY DEF CatalogueInit, InFlight
<1> QED
  BY <1>2, <1>5, <1>6 DEF CatalogueInit, OffersOK

\* What stays when a tab only changes its page.
LEMMA OfferPageStep ==
    ASSUME OffersOK, section = "offers", OnlyPage, page' \in [Editors -> OfferPage]
    PROVE  OffersOK'
  BY DEF OffersOK, OnlyPage, InFlight

\* A call that begins.
LEMMA OfferBegin ==
    ASSUME OffersOK, section = "offers", OnlyCall, page' \in [Editors -> OfferPage],
           NEW c \in Calls, NEW call \in OfferCall, Begin(c, call), call.stage = "sent",
           call.op \in {"create", "update"} => call.body \in OfferForm
    PROVE  OffersOK'
<1>1. /\ calls' \in [Calls -> {NoCall} \cup OfferCall] /\ calls'[c] = call /\ c \notin InFlight
      /\ \A d \in Calls : d # c => calls'[d] = calls[d]
  BY DEF OffersOK, Begin, InFlight
<1>2. InFlight' = InFlight \cup {c} /\ section' = "offers"
  BY <1>1, OfferCallIs DEF InFlight, OnlyCall
<1>3. ~overlapped' => ~overlapped /\ InFlight = {}
  BY DEF Begin
<1>4. /\ table' = table /\ removed' = removed /\ wanted' = wanted
      /\ overlapped' \in BOOLEAN
  BY DEF OnlyCall, Begin, OffersOK
<1>5. \A d \in InFlight' : calls'[d].op \in {"create", "update"} => calls'[d].body \in OfferForm
  BY <1>1, <1>2 DEF OffersOK, InFlight
<1>6. ~overlapped' =>
        /\ \A a, b \in InFlight' : a = b
        /\ table'.roomTypes = wanted'
        /\ \A d \in InFlight' : calls'[d].stage # "cleared"
  <2> SUFFICES ASSUME ~overlapped' PROVE /\ \A a, b \in InFlight' : a = b
                                         /\ table'.roomTypes = wanted'
                                         /\ \A d \in InFlight' : calls'[d].stage # "cleared"
    OBVIOUS
  <2>1. InFlight = {} /\ ~overlapped
    BY <1>3
  <2>2. table.roomTypes = wanted
    BY <2>1 DEF OffersOK
  <2> QED BY <1>1, <1>2, <1>4, <2>1, <2>2
<1> QED
  BY <1>1, <1>2, <1>4, <1>5, <1>6 DEF OffersOK

\* A handler's step: what it must keep of the row.
LEMMA OfferProceed ==
    ASSUME OffersOK, section = "offers", Untouched, NEW c \in InFlight,
           NEW stage \in {"found", "written", "cleared", "done"}, Proceed(c, stage),
           table' \in OfferTable, table'.status = "EXPIRED" => table'.deletedAt,
           removed' \in BOOLEAN, removed' => table'.deletedAt,
           ~overlapped => IF stage = "cleared" THEN table'.roomTypes = {} ELSE table'.roomTypes = wanted'
    PROVE  OffersOK'
<1> DEFINE call == [calls[c] EXCEPT !.stage = stage]
<1>1. calls[c] \in OfferCall /\ c \in Calls
  BY DEF OffersOK, InFlight
<1>2. /\ call \in OfferCall /\ call.op = calls[c].op /\ call.body = calls[c].body /\ call.stage = stage
  BY <1>1 DEF OfferCall
<1>3. /\ calls' \in [Calls -> {NoCall} \cup OfferCall] /\ calls'[c] = call
      /\ \A d \in Calls : d # c => calls'[d] = calls[d]
  BY <1>1, <1>2 DEF OffersOK, Proceed
<1> HIDE DEF call
<1>4. InFlight' = InFlight
  BY <1>1, <1>2, <1>3, OfferCallIs DEF InFlight
<1>5. section' = "offers" /\ page' = page /\ overlapped' = overlapped
  BY DEF Untouched
<1>6. \A d \in InFlight' : calls'[d].op \in {"create", "update"} => calls'[d].body \in OfferForm
  BY <1>2, <1>3, <1>4 DEF OffersOK, InFlight
<1>7. ~overlapped' =>
        /\ \A a, b \in InFlight' : a = b
        /\ (\A d \in InFlight' : calls'[d].stage # "cleared") => table'.roomTypes = wanted'
        /\ \A d \in InFlight' : calls'[d].stage = "cleared" => table'.roomTypes = {}
  BY <1>2, <1>3, <1>4, <1>5 DEF OffersOK
<1> QED
  BY <1>3, <1>5, <1>6, <1>7 DEF OffersOK

\* A call that ends.
LEMMA OfferEnd ==
    ASSUME OffersOK, section = "offers", NEW c \in InFlight, calls' = [calls EXCEPT ![c] = NoCall],
           page' \in [Editors -> OfferPage], overlapped' \in BOOLEAN,
           ~overlapped' => ~overlapped /\ calls[c].stage # "cleared",
           UNCHANGED <<section, table, removed, wanted>>
    PROVE  OffersOK'
<1>1. InFlight' = InFlight \ {c} /\ calls' \in [Calls -> {NoCall} \cup OfferCall]
      /\ \A d \in InFlight' : calls'[d] = calls[d]
  BY DEF OffersOK, InFlight
<1>2. ~overlapped' =>
        /\ \A a, b \in InFlight' : a = b
        /\ table'.roomTypes = wanted' /\ InFlight' = {}
  BY <1>1 DEF OffersOK
<1> QED
  BY <1>1, <1>2 DEF OffersOK

\* A tab's own fields.
LEMMA OfferPageField ==
    ASSUME page \in [Editors -> OfferPage], NEW e \in Editors,
           NEW form \in {Closed} \cup OfferForm, NEW isNew \in BOOLEAN, NEW saving \in BOOLEAN,
           NEW deleting \in BOOLEAN
    PROVE  /\ [page EXCEPT ![e].form = form, ![e].isNew = isNew] \in [Editors -> OfferPage]
           /\ [page EXCEPT ![e].form = form, ![e].isNew = isNew, ![e].saving = saving]
                \in [Editors -> OfferPage]
           /\ [page EXCEPT ![e].saving = saving, ![e].form = form] \in [Editors -> OfferPage]
           /\ [page EXCEPT ![e].deleting = deleting] \in [Editors -> OfferPage]
           /\ [page EXCEPT ![e].saving = saving, ![e].deleting = deleting] \in [Editors -> OfferPage]
<1> DEFINE row == page[e]
<1>1. row \in OfferPage
  OBVIOUS
<1>2. [page EXCEPT ![e].form = form, ![e].isNew = isNew] \in [Editors -> OfferPage]
  BY <1>1 DEF OfferPage
<1>3. [page EXCEPT ![e].form = form, ![e].isNew = isNew, ![e].saving = saving] \in [Editors -> OfferPage]
  BY <1>1 DEF OfferPage
<1>4. [page EXCEPT ![e].saving = saving, ![e].form = form] \in [Editors -> OfferPage]
  BY <1>1 DEF OfferPage
<1>5. [page EXCEPT ![e].deleting = deleting] \in [Editors -> OfferPage]
  BY <1>1 DEF OfferPage
<1>6. [page EXCEPT ![e].saving = saving, ![e].deleting = deleting] \in [Editors -> OfferPage]
  BY <1>1 DEF OfferPage
<1> QED
  BY <1>2, <1>3, <1>4, <1>5, <1>6

\* A form sent with one value changed.
LEMMA OfferFormStep ==
    ASSUME section = "offers", NEW form \in OfferForm, NEW f \in Fields(section), NEW v \in Columns(section)[f]
    PROVE  [form EXCEPT ![f] = v] \in OfferForm
<1>1. f \in {"status", "roomTypes"}
  BY OfferFields
<1>2. CASE f = "status"
  <2>1. v \in {"DRAFT", "PUBLISHED"}
    BY <1>2 DEF Columns, OfferColumns
  <2> QED BY <1>2, <2>1 DEF OfferForm
<1>3. CASE f = "roomTypes"
  <2>1. v \in TypeSets
    BY <1>3 DEF Columns, OfferColumns
  <2>2. v \in SUBSET UNION TypeSets
    BY <2>1
  <2> QED BY <1>3, <2>2 DEF OfferForm
<1> QED BY <1>1, <1>2, <1>3

\* The actions of the other sections.
LEMMA OffersOnly ==
    ASSUME section = "offers", CatalogueNext
    PROVE  \/ \E e \in Editors :
                \/ StartEdit(e) \/ StartNew(e) \/ CloseDialog(e)
                \/ \E c \in Calls :
                     \/ \E f \in Fields(section) : \E v \in Columns(section)[f] : SaveOffer(e, c, f, v)
                     \/ Remove(e, c)
           \/ \E c \in Calls :
                \/ UpsertFind(c) \/ UpsertCreate(c) \/ UpsertUpdate(c) \/ UpsertClear(c) \/ UpsertFill(c)
                \/ DeleteFind(c) \/ DeleteOffer(c) \/ Answer(c) \/ Fail(c)
                \/ ResetCovers(c)
<1>1. CASE PageNext
  BY <1>1 DEF PageNext, Refresh, FetchList, LoadSettings, FormFromRt, ReviewEditor, HandleDelete,
              SaveEdit, SaveReview, SaveSettings, HandlePublishToggle, HandleFeatureToggle, Toggle,
              PhotoStrip, AddCover, AddRate, AddImage
<1>2. CASE HandlerNext
  BY <1>2 DEF HandlerNext, UpdateRoomType, CreateReview, UpdateReview, UpdateSettings,
              AddRoomPhoto, CreateRatePlan, AddGalleryImage, DeleteRoomPhoto, DeleteRatePlan, DeleteGalleryImage
<1> QED BY <1>1, <1>2 DEF CatalogueNext

\* Nothing moves a behaviour to another section.
LEMMA SectionStays == [CatalogueNext]_catalogueVars => section' = section
<1>1. ASSUME NEW e \in Editors,
             \/ Refresh(e) \/ FetchList(e) \/ LoadSettings(e)
             \/ FormFromRt(e) \/ ReviewEditor(e) \/ StartEdit(e) \/ StartNew(e) \/ CloseDialog(e)
             \/ HandleDelete(e)
      PROVE  section' = section
  BY <1>1 DEF Refresh, FetchList, LoadSettings, FormFromRt, ReviewEditor, StartEdit, StartNew, Open,
              CloseDialog, HandleDelete, OnlyPage
<1>2. ASSUME NEW e \in Editors, NEW c \in Calls, NEW f, NEW v,
             SaveEdit(e, c, f, v) \/ SaveOffer(e, c, f, v) \/ SaveReview(e, c, f, v) \/ SaveSettings(e, c, f, v)
      PROVE  section' = section
  BY <1>2 DEF SaveEdit, SaveOffer, SaveReview, SaveSettings, Save, OnlyCall
<1>3. ASSUME NEW e \in Editors, NEW c \in Calls,
             \/ HandlePublishToggle(e, c) \/ HandleFeatureToggle(e, c) \/ Remove(e, c)
             \/ PhotoStrip(e, c) \/ AddCover(e, c) \/ AddRate(e, c) \/ AddImage(e, c)
      PROVE  section' = section
  BY <1>3 DEF HandlePublishToggle, HandleFeatureToggle, Toggle, Remove, PhotoStrip, AddCover, AddRate,
              AddImage, Add, OnlyCall
<1>4. CASE PageNext
  BY <1>1, <1>2, <1>3, <1>4 DEF PageNext
<1>5. ASSUME NEW c \in Calls, NEW k,
             \/ UpdateRoomType(c) \/ CreateReview(c) \/ UpdateReview(c) \/ UpdateSettings(c, k)
             \/ UpsertFind(c) \/ UpsertCreate(c) \/ UpsertUpdate(c) \/ UpsertClear(c) \/ UpsertFill(c)
             \/ DeleteFind(c) \/ DeleteOffer(c)
      PROVE  section' = section
  BY <1>5 DEF UpdateRoomType, CreateReview, UpdateReview, UpdateSettings, UpsertFind, UpsertCreate,
              UpsertUpdate, UpsertClear, UpsertFill, DeleteFind, DeleteOffer, Untouched
<1>6. ASSUME NEW c \in Calls,
             \/ ResetCovers(c) \/ AddRoomPhoto(c) \/ CreateRatePlan(c) \/ AddGalleryImage(c)
             \/ Answer(c) \/ Fail(c)
      PROVE  section' = section
  BY <1>6 DEF ResetCovers, AddRoomPhoto, CreateRatePlan, AddGalleryImage, Create, Answer, Fail
<1>7. ASSUME NEW r, DeleteRoomPhoto(r) \/ DeleteRatePlan(r) \/ DeleteGalleryImage(r)
      PROVE  section' = section
  BY <1>7 DEF DeleteRoomPhoto, DeleteRatePlan, DeleteGalleryImage, Delete
<1>8. CASE HandlerNext
  BY <1>5, <1>6, <1>7, <1>8 DEF HandlerNext
<1> QED BY <1>4, <1>8 DEF CatalogueNext, catalogueVars

\* Every step of the catalogue pages keeps the offers invariant.
LEMMA OffersStep == OffersOK /\ [CatalogueNext]_catalogueVars => OffersOK'
<1> SUFFICES ASSUME OffersOK, [CatalogueNext]_catalogueVars, section = "offers" PROVE OffersOK'
  <2> QED BY SectionStays DEF OffersOK
<1>a. /\ page \in [Editors -> OfferPage] /\ table \in OfferTable
      /\ calls \in [Calls -> {NoCall} \cup OfferCall] /\ overlapped \in BOOLEAN /\ removed \in BOOLEAN
      /\ table.status = "EXPIRED" => table.deletedAt
      /\ removed => table.deletedAt
  BY DEF OffersOK
<1>b. \A c \in InFlight : c \in Calls /\ calls[c] \in OfferCall
  BY <1>a DEF InFlight
<1>c. \A c \in InFlight : calls[c].op \in {"create", "update"} => calls[c].body \in OfferForm
  BY DEF OffersOK
<1>1. ASSUME NEW e \in Editors, NEW form \in OfferForm, NEW isNew \in BOOLEAN, Open(e, form, isNew)
      PROVE  OffersOK'
  <2>1. page' \in [Editors -> OfferPage]
    BY <1>1, <1>a, OfferPageField DEF Open
  <2> QED BY <1>1, <2>1, OfferPageStep DEF Open
<1>2. ASSUME NEW e \in Editors, StartEdit(e) PROVE OffersOK'
  <2>1. table.status \in {"DRAFT", "PUBLISHED"} /\ table.roomTypes \in SUBSET UNION TypeSets
    BY <1>2, <1>a DEF StartEdit, Offered, OfferTable
  <2>2. Edited(table) = [f \in {"status", "roomTypes"} |-> table[f]]
    BY OfferFields DEF Edited
  <2>3. Edited(table) \in OfferForm
    BY <2>1, <2>2 DEF OfferForm
  <2> QED BY <1>1, <1>2, <2>3 DEF StartEdit
<1>3. ASSUME NEW e \in Editors, StartNew(e) PROVE OffersOK'
  <2>1. [status |-> "DRAFT", roomTypes |-> {}] \in OfferForm
    BY DEF OfferForm
  <2> QED BY <1>1, <1>3, <2>1 DEF StartNew
<1>4. ASSUME NEW e \in Editors, CloseDialog(e) PROVE OffersOK'
  <2>1. page' \in [Editors -> OfferPage]
    BY <1>4, <1>a, OfferPageField DEF CloseDialog
  <2> QED BY <1>4, <2>1, OfferPageStep DEF CloseDialog
<1>5. ASSUME NEW e \in Editors, NEW c \in Calls, NEW f \in Fields(section), NEW v \in Columns(section)[f],
             SaveOffer(e, c, f, v)
      PROVE  OffersOK'
  <2> DEFINE form == [page[e].form EXCEPT ![f] = v]
             call == Sent(e, IF page[e].isNew THEN "create" ELSE "update", form, page[e].form)
  <2>1. page[e].form \in OfferForm
    BY <1>5, <1>a DEF SaveOffer, Save, OfferPage
  <2>2. form \in OfferForm
    BY <2>1, OfferFormStep
  <2>3. /\ Begin(c, call) /\ page' = [page EXCEPT ![e].saving = TRUE, ![e].form = form] /\ OnlyCall
    BY <1>5 DEF SaveOffer, Save
  <2> HIDE DEF form
  <2>4. call \in OfferCall /\ call.stage = "sent" /\ call.body \in OfferForm
    BY <2>1, <2>2 DEF Sent, OfferCall
  <2>5. page' \in [Editors -> OfferPage]
    BY <1>a, <2>2, <2>3, OfferPageField
  <2> HIDE DEF call
  <2> QED BY <2>3, <2>4, <2>5, OfferBegin
<1>6. ASSUME NEW e \in Editors, NEW c \in Calls, Remove(e, c) PROVE OffersOK'
  <2> DEFINE call == Sent(e, "delete", Closed, Closed)
  <2>1. Begin(c, call) /\ page' = [page EXCEPT ![e].deleting = TRUE] /\ OnlyCall
    BY <1>6 DEF Remove
  <2>2. call \in OfferCall /\ call.stage = "sent" /\ call.op = "delete"
    BY DEF Sent, OfferCall
  <2>3. page' \in [Editors -> OfferPage]
    BY <1>a, <2>1, OfferPageField
  <2> HIDE DEF call
  <2> QED BY <2>1, <2>2, <2>3, OfferBegin
<1>7. ASSUME NEW c \in Calls, UpsertFind(c) \/ DeleteFind(c) PROVE OffersOK'
  <2>1. /\ c \in InFlight /\ Proceed(c, "found") /\ Untouched /\ UNCHANGED <<table, removed, wanted>>
        /\ calls[c].stage = "sent"
    BY <1>7 DEF UpsertFind, DeleteFind, At, InFlight
  <2>2. ~overlapped => table.roomTypes = wanted
    BY <2>1 DEF OffersOK
  <2> QED BY <1>a, <2>1, <2>2, OfferProceed
<1>8. ASSUME NEW c \in Calls, UpsertUpdate(c) \/ UpsertCreate(c) PROVE OffersOK'
  <2>1. /\ c \in InFlight /\ Proceed(c, "written") /\ Untouched /\ UNCHANGED <<removed, wanted>>
        /\ calls[c].stage # "cleared" /\ calls[c].op \in {"create", "update"}
        /\ table' = [table EXCEPT !.status = calls[c].body.status]
    BY <1>8 DEF UpsertUpdate, UpsertCreate, At, InFlight, Body
  <2>2. ~overlapped => table.roomTypes = wanted
    BY <2>1 DEF OffersOK
  <2>3. calls[c].body \in OfferForm
    BY <1>c, <2>1
  <2>4. /\ table' \in OfferTable /\ table'.status # "EXPIRED" /\ table'.roomTypes = table.roomTypes
        /\ table'.deletedAt = table.deletedAt
    BY <1>a, <2>1, <2>3 DEF OfferTable, OfferForm
  <2> QED BY <1>a, <2>1, <2>2, <2>4, OfferProceed
<1>9. ASSUME NEW c \in Calls, UpsertClear(c) PROVE OffersOK'
  <2>1. /\ c \in InFlight /\ Proceed(c, "cleared") /\ Untouched /\ UNCHANGED <<removed, wanted>>
        /\ table' = [table EXCEPT !.roomTypes = {}]
    BY <1>9 DEF UpsertClear, Stored, At, InFlight
  <2>4. /\ table' \in OfferTable /\ table'.status = table.status /\ table'.roomTypes = {}
        /\ table'.deletedAt = table.deletedAt
    BY <1>a, <2>1 DEF OfferTable
  <2> QED BY <1>a, <2>1, <2>4, OfferProceed
<1>10. ASSUME NEW c \in Calls, UpsertFill(c) PROVE OffersOK'
  <2>1. /\ c \in InFlight /\ Proceed(c, "done") /\ Untouched /\ UNCHANGED removed
        /\ calls[c].stage = "cleared" /\ calls[c].op \in {"create", "update"}
        /\ table' = [table EXCEPT !.roomTypes = @ \cup calls[c].body.roomTypes]
        /\ wanted' = calls[c].body.roomTypes
    BY <1>10 DEF UpsertFill, Stored, At, InFlight, Body
  <2>2. ~overlapped => table.roomTypes = {}
    BY <2>1 DEF OffersOK
  <2>3. calls[c].body.roomTypes \in SUBSET UNION TypeSets
    BY <1>c, <2>1 DEF OfferForm
  <2>4. /\ table' \in OfferTable /\ table'.status = table.status
        /\ table'.roomTypes = table.roomTypes \cup wanted'
        /\ table'.deletedAt = table.deletedAt
    BY <1>a, <2>1, <2>3 DEF OfferTable
  <2>5. ~overlapped => table'.roomTypes = wanted'
    BY <2>2, <2>4
  <2> QED BY <1>a, <2>1, <2>4, <2>5, OfferProceed
<1>11. ASSUME NEW c \in Calls, DeleteOffer(c) PROVE OffersOK'
  <2>1. /\ c \in InFlight /\ Proceed(c, "done") /\ Untouched /\ UNCHANGED wanted
        /\ calls[c].stage = "found" /\ removed' = TRUE
        /\ table' = [table EXCEPT !.deletedAt = TRUE, !.status = "EXPIRED"]
    BY <1>11 DEF DeleteOffer, At, InFlight
  <2>2. ~overlapped => table.roomTypes = wanted
    BY <2>1 DEF OffersOK
  <2>4. table' \in OfferTable /\ table'.roomTypes = table.roomTypes /\ table'.deletedAt = TRUE
    BY <1>a, <2>1 DEF OfferTable
  <2> QED BY <1>a, <2>1, <2>2, <2>4, OfferProceed
<1>12. ASSUME NEW c \in Calls, Answer(c) PROVE OffersOK'
  <2>1. /\ c \in InFlight /\ calls' = [calls EXCEPT ![c] = NoCall] /\ calls[c].stage = "done"
        /\ UNCHANGED <<section, table, removed, wanted>> /\ overlapped' = overlapped
        /\ page' = [page EXCEPT ![calls[c].by] = Answered(c)]
    BY <1>12 DEF Answer, InFlight
  <2>2. calls[c].by \in Editors
    BY <1>b, <2>1 DEF OfferCall
  <2>3. Answered(c) \in OfferPage
    <3>1. page[calls[c].by] \in OfferPage
      BY <1>a, <2>2
    <3> QED BY <3>1 DEF Answered, OfferPage
  <2>4. page' \in [Editors -> OfferPage]
    BY <1>a, <2>1, <2>2, <2>3
  <2> QED BY <1>a, <2>1, <2>4, OfferEnd
<1>13. ASSUME NEW c \in Calls, Fail(c) PROVE OffersOK'
  <2>1. /\ c \in InFlight /\ calls' = [calls EXCEPT ![c] = NoCall]
        /\ UNCHANGED <<section, table, removed, wanted>> /\ overlapped' = TRUE
        /\ page' = [page EXCEPT ![calls[c].by].saving = @ /\ calls[c].op \in {"toggle", "delete"},
                                ![calls[c].by].deleting = @ /\ calls[c].op # "delete"]
    BY <1>13 DEF Fail, InFlight
  <2>2. calls[c].by \in Editors
    BY <1>b, <2>1 DEF OfferCall
  <2>3. page' \in [Editors -> OfferPage]
    <3> DEFINE e == calls[c].by
               saving == page[e].saving /\ calls[c].op \in {"toggle", "delete"}
               deleting == page[e].deleting /\ calls[c].op # "delete"
    <3>1. page' = [page EXCEPT ![e].saving = saving, ![e].deleting = deleting]
      BY <1>a, <2>1, <2>2 DEF OfferPage
    <3>2. saving \in BOOLEAN /\ deleting \in BOOLEAN
      OBVIOUS
    <3> HIDE DEF saving, deleting
    <3> QED BY <1>a, <2>2, <3>1, <3>2, OfferPageField
  <2> QED BY <2>1, <2>3, OfferEnd
<1>14. ASSUME NEW c \in Calls, ResetCovers(c) PROVE OffersOK'
  BY <1>14 DEF ResetCovers
<1>15. CASE UNCHANGED catalogueVars
  BY <1>15 DEF catalogueVars, OffersOK, InFlight
<1> QED
  BY <1>2, <1>3, <1>4, <1>5, <1>6, <1>7, <1>8, <1>9, <1>10, <1>11, <1>12, <1>13, <1>14, <1>15, OffersOnly

-----------------------------------------------------------------------------
\* The sections of rows that are added and deleted, and the calls that add one.
Collections == {"photos", "rates", "gallery"}
AddCall ==
    [by: Editors, op: {"add"}, body: BOOLEAN, base: {Closed}, stage: {"sent", "reset", "done"}]

\* The inductive invariant of the photos: while one request is between its two
\* statements there is no cover.
CoversOK ==
    /\ section \notin Collections => rows = {}
    /\ section \in Collections =>
         /\ calls \in [Calls -> {NoCall} \cup AddCall]
         /\ overlapped \in BOOLEAN
         /\ \A r \in rows : r \in [id: {r.id}, isCover: BOOLEAN]
         /\ \A c \in InFlight : /\ calls[c].body => section = "photos"
                                /\ calls[c].stage = "reset" => calls[c].body
         /\ ~overlapped =>
              /\ \A c, d \in InFlight : c = d
              /\ \A c \in InFlight : calls[c].stage = "reset" => GetRoomTypes = {}
              /\ \A a, b \in GetRoomTypes : a = b

\* A call that adds a row is a call, and is not the mark of a free one.
LEMMA AddCallIs == AddCall \subseteq Call /\ NoCall \notin AddCall
  BY CatalogueAssumption DEF AddCall, Call

\* The actions of the other sections.
LEMMA CollectionsOnly ==
    ASSUME section \in Collections, CoversOK, CatalogueNext
    PROVE  \/ \E e \in Editors : CloseDialog(e)
           \/ \E e \in Editors, c \in Calls :
                AddCover(e, c) \/ PhotoStrip(e, c) \/ AddRate(e, c) \/ AddImage(e, c)
           \/ \E c \in Calls : \/ ResetCovers(c) \/ AddRoomPhoto(c) \/ CreateRatePlan(c)
                               \/ AddGalleryImage(c) \/ Answer(c) \/ Fail(c)
           \/ \E r \in rows : DeleteRoomPhoto(r) \/ DeleteRatePlan(r) \/ DeleteGalleryImage(r)
<1>1. section \notin {"roomTypes", "offers", "reviews", "settings"}
  BY DEF Collections
<1>2. \A c \in Calls, stage \in {"sent", "found"} : ~At(c, "delete", stage)
  BY DEF At, CoversOK, AddCall
<1>3. CASE PageNext
  <2>1. ASSUME NEW e \in Editors,
               \/ Refresh(e) \/ FetchList(e) \/ LoadSettings(e) \/ FormFromRt(e) \/ ReviewEditor(e)
               \/ StartEdit(e) \/ StartNew(e) \/ HandleDelete(e)
        PROVE  FALSE
    BY <1>1, <2>1 DEF Refresh, FetchList, LoadSettings, FormFromRt, ReviewEditor, StartEdit, StartNew,
                      HandleDelete
  <2>2. ASSUME NEW e \in Editors, NEW c \in Calls, NEW f, NEW v,
               SaveEdit(e, c, f, v) \/ SaveOffer(e, c, f, v) \/ SaveReview(e, c, f, v) \/ SaveSettings(e, c, f, v)
        PROVE  FALSE
    BY <1>1, <2>2 DEF SaveEdit, SaveOffer, SaveReview, SaveSettings
  <2>3. ASSUME NEW e \in Editors, NEW c \in Calls,
               HandlePublishToggle(e, c) \/ HandleFeatureToggle(e, c) \/ Remove(e, c)
        PROVE  FALSE
    BY <1>1, <2>3 DEF HandlePublishToggle, HandleFeatureToggle, Toggle, Remove
  <2> QED BY <1>3, <2>1, <2>2, <2>3 DEF PageNext
<1>4. CASE HandlerNext
  BY <1>1, <1>2, <1>4 DEF HandlerNext, UpdateRoomType, CreateReview, UpdateReview, UpdateSettings,
              UpsertFind, UpsertCreate, UpsertUpdate, UpsertClear, UpsertFill, Stored, DeleteFind, DeleteOffer
<1> QED BY <1>3, <1>4 DEF CatalogueNext

\* Rows are written in the collections only.
LEMMA NoRowsElsewhere ==
    ASSUME section \notin Collections, rows = {}, [CatalogueNext]_catalogueVars
    PROVE  rows' = {}
<1>1. ASSUME NEW e \in Editors,
             \/ Refresh(e) \/ FetchList(e) \/ LoadSettings(e)
             \/ FormFromRt(e) \/ ReviewEditor(e) \/ StartEdit(e) \/ StartNew(e) \/ CloseDialog(e)
             \/ HandleDelete(e)
      PROVE  rows' = rows
  BY <1>1 DEF Refresh, FetchList, LoadSettings, FormFromRt, ReviewEditor, StartEdit, StartNew, Open,
              CloseDialog, HandleDelete, OnlyPage
<1>2. ASSUME NEW e \in Editors, NEW c \in Calls, NEW f, NEW v,
             SaveEdit(e, c, f, v) \/ SaveOffer(e, c, f, v) \/ SaveReview(e, c, f, v) \/ SaveSettings(e, c, f, v)
      PROVE  rows' = rows
  BY <1>2 DEF SaveEdit, SaveOffer, SaveReview, SaveSettings, Save, OnlyCall
<1>3. ASSUME NEW e \in Editors, NEW c \in Calls,
             \/ HandlePublishToggle(e, c) \/ HandleFeatureToggle(e, c) \/ Remove(e, c)
             \/ PhotoStrip(e, c) \/ AddCover(e, c) \/ AddRate(e, c) \/ AddImage(e, c)
      PROVE  rows' = rows
  BY <1>3 DEF HandlePublishToggle, HandleFeatureToggle, Toggle, Remove, PhotoStrip, AddCover, AddRate,
              AddImage, Add, OnlyCall
<1>4. CASE PageNext
  BY <1>1, <1>2, <1>3, <1>4 DEF PageNext
<1>5. ASSUME NEW c \in Calls, NEW k,
             \/ UpdateRoomType(c) \/ CreateReview(c) \/ UpdateReview(c) \/ UpdateSettings(c, k)
             \/ UpsertFind(c) \/ UpsertCreate(c) \/ UpsertUpdate(c) \/ UpsertClear(c) \/ UpsertFill(c)
             \/ DeleteFind(c) \/ DeleteOffer(c) \/ Answer(c) \/ Fail(c)
      PROVE  rows' = rows
  BY <1>5 DEF UpdateRoomType, CreateReview, UpdateReview, UpdateSettings, UpsertFind, UpsertCreate,
              UpsertUpdate, UpsertClear, UpsertFill, DeleteFind, DeleteOffer, Untouched, Answer, Fail
<1>6. ASSUME NEW c \in Calls, ResetCovers(c) \/ AddRoomPhoto(c) \/ CreateRatePlan(c) \/ AddGalleryImage(c)
      PROVE  FALSE
  BY <1>6 DEF Collections, ResetCovers, AddRoomPhoto, CreateRatePlan, AddGalleryImage
<1>7. CASE HandlerNext
  BY <1>5, <1>6, <1>7 DEF HandlerNext
<1> QED BY <1>4, <1>7 DEF CatalogueNext, catalogueVars

\* The covers invariant holds when the page is first opened.
LEMMA CoversInit == CatalogueInit => CoversOK
  BY DEF CatalogueInit, CoversOK, InFlight, GetRoomTypes

\* Every step of the catalogue pages keeps the covers invariant.
LEMMA CoversStep == CoversOK /\ [CatalogueNext]_catalogueVars => CoversOK'
<1> SUFFICES ASSUME CoversOK, [CatalogueNext]_catalogueVars, section \in Collections, section' = section
             PROVE  CoversOK'
  BY SectionStays, NoRowsElsewhere DEF CoversOK
<1>a. /\ calls \in [Calls -> {NoCall} \cup AddCall] /\ overlapped \in BOOLEAN
      /\ \A r \in rows : r \in [id: {r.id}, isCover: BOOLEAN]
      /\ \A c \in InFlight : /\ calls[c].body => section = "photos"
                             /\ calls[c].stage = "reset" => calls[c].body
      /\ ~overlapped =>
           /\ \A c, d \in InFlight : c = d
           /\ \A c \in InFlight : calls[c].stage = "reset" => GetRoomTypes = {}
           /\ \A a, b \in GetRoomTypes : a = b
  BY DEF CoversOK
<1>b. \A c \in InFlight : c \in Calls /\ calls[c] \in AddCall
  BY <1>a DEF InFlight
<1>1. ASSUME NEW e \in Editors, CloseDialog(e) PROVE CoversOK'
  BY <1>1 DEF CloseDialog, OnlyPage, CoversOK, InFlight, GetRoomTypes
<1>2. ASSUME NEW e \in Editors, NEW c \in Calls, NEW cover \in BOOLEAN, cover => section = "photos",
             Add(e, c, cover)
      PROVE  CoversOK'
  <2> DEFINE call == Sent(e, "add", cover, Closed)
  <2>1. /\ call \in AddCall /\ call.stage = "sent" /\ call.body = cover
    BY DEF Sent, AddCall
  <2>2. /\ calls[c] = NoCall /\ calls' = [calls EXCEPT ![c] = call] /\ rows' = rows
        /\ overlapped' = (overlapped \/ InFlight # {})
    BY <1>2 DEF Add, Begin, OnlyCall
  <2> HIDE DEF call
  <2>3. /\ calls' \in [Calls -> {NoCall} \cup AddCall] /\ calls'[c] = call
        /\ \A d \in Calls : d # c => calls'[d] = calls[d]
    BY <1>a, <2>1, <2>2
  <2>4. InFlight' = InFlight \cup {c} /\ GetRoomTypes' = GetRoomTypes
    BY <2>1, <2>2, <2>3, AddCallIs DEF InFlight, GetRoomTypes
  <2>5. \A d \in InFlight' : /\ calls'[d].body => section = "photos"
                             /\ calls'[d].stage = "reset" => calls'[d].body
    BY <1>2, <1>a, <1>b, <2>1, <2>3, <2>4
  <2>6. ~overlapped' => /\ \A a, d \in InFlight' : a = d
                        /\ \A d \in InFlight' : calls'[d].stage # "reset"
                        /\ \A a, b \in GetRoomTypes' : a = b
    BY <1>a, <2>1, <2>2, <2>3, <2>4
  <2>7. overlapped' \in BOOLEAN /\ \A r \in rows' : r \in [id: {r.id}, isCover: BOOLEAN]
    BY <1>a, <2>2
  <2> QED BY <2>3, <2>5, <2>6, <2>7 DEF CoversOK
<1>3. ASSUME NEW c \in InFlight, NEW stage \in {"reset", "done"}, Proceed(c, stage), overlapped' = overlapped,
             stage = "reset" => calls[c].body,
             \A r \in rows' : r \in [id: {r.id}, isCover: BOOLEAN],
             ~overlapped => /\ stage = "reset" => GetRoomTypes' = {}
                            /\ \A a, b \in GetRoomTypes' : a = b
      PROVE  CoversOK'
  <2> DEFINE call == [calls[c] EXCEPT !.stage = stage]
  <2>1. call \in AddCall /\ call.body = calls[c].body /\ call.stage = stage
    BY <1>b DEF AddCall
  <2>2. /\ calls' \in [Calls -> {NoCall} \cup AddCall] /\ calls'[c] = call
        /\ \A d \in Calls : d # c => calls'[d] = calls[d]
    BY <1>3, <1>a, <1>b, <2>1 DEF Proceed
  <2> HIDE DEF call
  <2>3. InFlight' = InFlight
    BY <1>b, <2>1, <2>2, AddCallIs DEF InFlight
  <2>4. \A d \in InFlight' : /\ calls'[d].body => section = "photos"
                             /\ calls'[d].stage = "reset" => calls'[d].body
    BY <1>3, <1>a, <1>b, <2>1, <2>2, <2>3
  <2>5. ~overlapped' => /\ \A a, d \in InFlight' : a = d
                        /\ \A d \in InFlight' : calls'[d].stage = "reset" => GetRoomTypes' = {}
                        /\ \A a, b \in GetRoomTypes' : a = b
    <3> SUFFICES ASSUME ~overlapped'
                 PROVE  /\ \A a, d \in InFlight' : a = d
                        /\ \A d \in InFlight' : calls'[d].stage = "reset" => GetRoomTypes' = {}
                        /\ \A a, b \in GetRoomTypes' : a = b
      OBVIOUS
    <3>1. \A d \in InFlight' : d = c
      BY <1>3, <1>a, <2>3
    <3> QED BY <1>3, <2>1, <2>2, <3>1
  <2> QED BY <1>3, <1>a, <2>2, <2>4, <2>5 DEF CoversOK
<1>4. ASSUME NEW c \in Calls, ResetCovers(c) PROVE CoversOK'
  <2>1. /\ c \in InFlight /\ calls[c].body /\ Proceed(c, "reset") /\ overlapped' = overlapped
        /\ rows' = {[r EXCEPT !.isCover = FALSE] : r \in rows}
    BY <1>4 DEF ResetCovers, At, Body, InFlight
  <2>2. \A r \in rows' : r \in [id: {r.id}, isCover: BOOLEAN] /\ ~r.isCover
    BY <1>a, <2>1, ZenonT(40)
  <2>3. GetRoomTypes' = {}
    BY <2>2 DEF GetRoomTypes
  <2> QED BY <1>3, <2>1, <2>2, <2>3
<1>5. ASSUME NEW c \in InFlight, Create(c), calls[c].body => calls[c].stage = "reset" PROVE CoversOK'
  <2> DEFINE new == NewRow(calls[c].body)
  <2>1. /\ Proceed(c, "done") /\ overlapped' = overlapped /\ rows' = rows \cup {new}
    BY <1>5 DEF Create, Body
  <2>2. calls[c].body \in BOOLEAN
    BY <1>b DEF AddCall
  <2>3. new \in [id: {new.id}, isCover: BOOLEAN] /\ new.isCover = calls[c].body
    BY <2>2 DEF NewRow
  <2> HIDE DEF new
  <2>4. \A r \in rows' : r \in [id: {r.id}, isCover: BOOLEAN]
    BY <1>a, <2>1, <2>3
  <2>5. ~overlapped => \A a, b \in GetRoomTypes' : a = b
    <3>1. CASE calls[c].body
      BY <1>5, <1>a, <2>1, <2>3, <3>1 DEF GetRoomTypes
    <3>2. CASE ~calls[c].body
      BY <1>a, <2>1, <2>3, <3>2 DEF GetRoomTypes
    <3> QED BY <3>1, <3>2
  <2> QED BY <1>3, <2>1, <2>4, <2>5
<1>6. ASSUME NEW c \in Calls, AddRoomPhoto(c) PROVE CoversOK'
  BY <1>5, <1>6 DEF AddRoomPhoto, At, Body, InFlight
<1>7. ASSUME NEW c \in Calls, CreateRatePlan(c) \/ AddGalleryImage(c) PROVE CoversOK'
  <2>1. c \in InFlight /\ Create(c) /\ section # "photos"
    BY <1>7 DEF CreateRatePlan, AddGalleryImage, At, InFlight
  <2>2. ~calls[c].body
    BY <1>a, <2>1
  <2> QED BY <1>5, <2>1, <2>2
<1>8. ASSUME NEW c \in Calls, Answer(c) \/ Fail(c) PROVE CoversOK'
  <2>1. /\ c \in InFlight /\ calls' = [calls EXCEPT ![c] = NoCall] /\ rows' = rows
        /\ overlapped' \in BOOLEAN /\ (~overlapped' => ~overlapped)
    BY <1>8, <1>a DEF Answer, Fail, InFlight
  <2>2. InFlight' = InFlight \ {c} /\ calls' \in [Calls -> {NoCall} \cup AddCall]
        /\ \A d \in InFlight' : calls'[d] = calls[d]
    BY <1>a, <1>b, <2>1 DEF InFlight
  <2>3. GetRoomTypes' = GetRoomTypes
    BY <2>1 DEF GetRoomTypes
  <2> QED BY <1>a, <2>1, <2>2, <2>3 DEF CoversOK
<1>9. ASSUME NEW r \in rows, Delete(r) PROVE CoversOK'
  <2>1. rows' \subseteq rows /\ UNCHANGED <<calls, overlapped>>
    BY <1>9 DEF Delete
  <2>2. GetRoomTypes' \subseteq GetRoomTypes /\ InFlight' = InFlight
    BY <2>1 DEF GetRoomTypes, InFlight
  <2> QED BY <1>a, <2>1, <2>2 DEF CoversOK
<1>10. CASE UNCHANGED catalogueVars
  BY <1>10 DEF catalogueVars, CoversOK, InFlight, GetRoomTypes
<1> QED
  BY <1>1, <1>2, <1>4, <1>6, <1>7, <1>8, <1>9, <1>10, CollectionsOnly
     DEF PhotoStrip, AddCover, AddRate, AddImage, DeleteRoomPhoto, DeleteRatePlan, DeleteGalleryImage

\* Whatever the order in which the calls of the tabs are handled, what staff have
\* changed stands.
THEOREM StaffChangesStand == CatalogueSpec => []ChangesStand
<1>1. OffersOK /\ CoversOK => ChangesStand
  <2> SUFFICES ASSUME OffersOK, CoversOK PROVE DeletedStaysHidden /\ LastSaveStands /\ OneCoverUnhurried
    BY DEF ChangesStand
  <2>1. DeletedStaysHidden
    BY DEF OffersOK, DeletedStaysHidden, GetOffers
  <2>2. LastSaveStands
    BY DEF OffersOK, LastSaveStands
  <2>3. ASSUME ~overlapped PROVE Cardinality(GetRoomTypes) <= 1
    <3>1. \A a, b \in GetRoomTypes : a = b
      BY <2>3 DEF CoversOK, GetRoomTypes
    <3>2. CASE GetRoomTypes = {}
      BY <3>2, FS_EmptySet
    <3>3. CASE GetRoomTypes # {}
      <4>1. PICK r \in GetRoomTypes : TRUE
        BY <3>3
      <4>2. GetRoomTypes = {r}
        BY <3>1
      <4>3. Cardinality({r}) = 1
        BY FS_Singleton
      <4> QED BY <4>2, <4>3
    <3> QED BY <3>2, <3>3
  <2> QED BY <2>1, <2>2, <2>3 DEF OneCoverUnhurried
<1> QED
  BY <1>1, OffersInit, OffersStep, CoversInit, CoversStep, PTL DEF CatalogueSpec

-----------------------------------------------------------------------------
\* What the table, a page and a call hold while the section is the room types.
RoomTypeRow == [basePrice: Price, view: {"sea", "hill"}]
RoomTypePage ==
    [list: RoomTypeRow, form: {Closed} \cup RoomTypeForm, isNew: {FALSE}, saving: BOOLEAN, deleting: BOOLEAN]
RoomTypeCall ==
    [by: Editors, op: {"update"}, body: RoomTypeForm, base: RoomTypeForm, stage: {"sent", "done"}]

\* A body that differs from the row in one value.
OneValue(body) == \E f \in Fields("roomTypes") : \A g \in Fields("roomTypes") \ {f} : body[g] = table[g]

\* The inductive invariant of a tab that works alone: between its saves the list
\* and the open form are the row, and the save under way differs from the row in
\* one value.
AloneOK(e) ==
    /\ InFlight = {} => page[e].list = table /\ page[e].form \in {Closed, table}
    /\ \A c \in InFlight :
         /\ page[e].form # Closed /\ page[e].saving
         /\ calls[c].stage = "sent" => OneValue(calls[c].body)

\* The inductive invariant of the room types: the saves of a tab that works alone
\* follow each other.
WorkOK ==
    section = "roomTypes" =>
        /\ table \in RoomTypeRow
        /\ page \in [Editors -> RoomTypePage]
        /\ calls \in [Calls -> {NoCall} \cup RoomTypeCall]
        /\ authors \subseteq Editors /\ overlapped \in BOOLEAN
        /\ \A c \in InFlight : calls[c].by \in authors
        /\ ~overlapped => \A c, d \in InFlight : c = d
        /\ ~overlapped => \A e \in Editors : authors \subseteq {e} => AloneOK(e)

\* A room type as it is edited is not the closed form, and a save of one is not the
\* mark of a free call.
LEMMA RoomTypeCallIs ==
    /\ NoCall \notin RoomTypeCall /\ Closed \notin RoomTypeForm
    /\ RoomTypeRow \subseteq RoomTypeForm
<1>1. RoomTypeCall \subseteq Call /\ RoomTypeForm \subseteq Form
  BY DEF RoomTypeCall, Call, Form
<1>2. RoomTypeRow \subseteq RoomTypeForm
  BY DEF RoomTypeRow, RoomTypeForm
<1> QED BY <1>1, <1>2, CatalogueAssumption

\* The fields of the room type form.
LEMMA RoomTypeFields == Fields("roomTypes") = {"basePrice", "view"}
  BY DEF Fields, Columns, RoomTypeColumns

\* The page's copy of the row is the row.
LEMMA EditedIs == ASSUME section = "roomTypes", table \in RoomTypeRow PROVE Edited(table) = table
<1>1. Edited(table) = [f \in {"basePrice", "view"} |-> table[f]]
  BY RoomTypeFields DEF Edited
<1> QED BY <1>1 DEF RoomTypeRow

\* The room types invariant holds when the page is first opened.
LEMMA WorkInit == CatalogueInit => WorkOK
<1> SUFFICES ASSUME CatalogueInit, section = "roomTypes" PROVE WorkOK
  BY DEF WorkOK
<1>1. table = [basePrice |-> "low", view |-> "sea"]
  BY DEF CatalogueInit, Starting
<1>2. table \in RoomTypeRow
  BY <1>1 DEF RoomTypeRow, Price
<1>3. page = [e \in Editors |-> [list |-> table, form |-> Closed, isNew |-> FALSE,
                                 saving |-> FALSE, deleting |-> FALSE]]
  BY <1>2, EditedIs DEF CatalogueInit
<1>4. InFlight = {} /\ calls \in [Calls -> {NoCall} \cup RoomTypeCall] /\ page \in [Editors -> RoomTypePage]
  BY <1>2, <1>3 DEF CatalogueInit, InFlight, RoomTypePage
<1>5. \A e \in Editors : AloneOK(e)
  BY <1>3, <1>4 DEF AloneOK
<1> QED
  BY <1>2, <1>4, <1>5 DEF CatalogueInit, WorkOK

\* The actions of the other sections.
LEMMA WorkOnly ==
    ASSUME section = "roomTypes", WorkOK, CatalogueNext
    PROVE  \/ \E e \in Editors :
                \/ Refresh(e) \/ FormFromRt(e) \/ CloseDialog(e)
                \/ \E c \in Calls : \E f \in Fields(section) : \E v \in Columns(section)[f] : SaveEdit(e, c, f, v)
           \/ \E c \in Calls : UpdateRoomType(c) \/ Answer(c) \/ Fail(c)
<1>1. \A c \in Calls, stage \in {"sent", "found"} : ~At(c, "delete", stage)
  BY DEF At, WorkOK, RoomTypeCall
<1>2. CASE PageNext
  <2>1. ASSUME NEW e \in Editors,
               \/ FetchList(e) \/ LoadSettings(e) \/ ReviewEditor(e)
               \/ StartEdit(e) \/ StartNew(e) \/ HandleDelete(e)
        PROVE  FALSE
    BY <2>1 DEF FetchList, LoadSettings, ReviewEditor, StartEdit, StartNew, HandleDelete
  <2>2. ASSUME NEW e \in Editors, NEW c \in Calls, NEW f, NEW v,
               SaveOffer(e, c, f, v) \/ SaveReview(e, c, f, v) \/ SaveSettings(e, c, f, v)
        PROVE  FALSE
    BY <2>2 DEF SaveOffer, SaveReview, SaveSettings
  <2>3. ASSUME NEW e \in Editors, NEW c \in Calls,
               \/ HandlePublishToggle(e, c) \/ HandleFeatureToggle(e, c) \/ Remove(e, c)
               \/ PhotoStrip(e, c) \/ AddCover(e, c) \/ AddRate(e, c) \/ AddImage(e, c)
        PROVE  FALSE
    BY <2>3 DEF HandlePublishToggle, HandleFeatureToggle, Toggle, Remove, PhotoStrip, AddCover, AddRate, AddImage
  <2> QED BY <1>2, <2>1, <2>2, <2>3 DEF PageNext
<1>3. CASE HandlerNext
  <2>1. ASSUME NEW c \in Calls, NEW k,
               \/ CreateReview(c) \/ UpdateReview(c) \/ UpdateSettings(c, k)
               \/ UpsertFind(c) \/ UpsertCreate(c) \/ UpsertUpdate(c) \/ UpsertClear(c) \/ UpsertFill(c)
               \/ DeleteFind(c) \/ DeleteOffer(c)
               \/ ResetCovers(c) \/ AddRoomPhoto(c) \/ CreateRatePlan(c) \/ AddGalleryImage(c)
        PROVE  FALSE
    BY <1>1, <2>1 DEF CreateReview, UpdateReview, UpdateSettings, UpsertFind, UpsertCreate, UpsertUpdate,
           UpsertClear, UpsertFill, Stored, DeleteFind, DeleteOffer, ResetCovers, AddRoomPhoto,
           CreateRatePlan, AddGalleryImage
  <2>2. ASSUME NEW r \in rows, DeleteRoomPhoto(r) \/ DeleteRatePlan(r) \/ DeleteGalleryImage(r) PROVE FALSE
    BY <2>2 DEF DeleteRoomPhoto, DeleteRatePlan, DeleteGalleryImage
  <2> QED BY <1>3, <2>1, <2>2 DEF HandlerNext
<1> QED BY <1>2, <1>3 DEF CatalogueNext

\* Every step of the catalogue pages keeps the room types invariant.
LEMMA WorkStep == WorkOK /\ [CatalogueNext]_catalogueVars => WorkOK'
<1> SUFFICES ASSUME WorkOK, [CatalogueNext]_catalogueVars, section = "roomTypes", section' = section
             PROVE  WorkOK'
  BY SectionStays DEF WorkOK
<1>a. /\ table \in RoomTypeRow /\ page \in [Editors -> RoomTypePage]
      /\ calls \in [Calls -> {NoCall} \cup RoomTypeCall]
      /\ authors \subseteq Editors /\ overlapped \in BOOLEAN
      /\ \A c \in InFlight : calls[c].by \in authors
      /\ ~overlapped => \A c, d \in InFlight : c = d
      /\ ~overlapped => \A e \in Editors : authors \subseteq {e} => AloneOK(e)
  BY DEF WorkOK
<1>b. \A c \in InFlight : c \in Calls /\ calls[c] \in RoomTypeCall
  BY <1>a DEF InFlight
<1>1. ASSUME NEW e \in Editors, Refresh(e) \/ FormFromRt(e) \/ CloseDialog(e) PROVE WorkOK'
  <2>1. OnlyPage /\ InFlight' = InFlight
    BY <1>1 DEF Refresh, FormFromRt, Open, CloseDialog, OnlyPage, InFlight
  <2>2. \/ page' = [page EXCEPT ![e].list = table]
        \/ page[e].form = Closed /\ page' = [page EXCEPT ![e].form = page[e].list, ![e].isNew = FALSE]
        \/ /\ ~page[e].saving
           /\ page' = [page EXCEPT ![e].form = Closed, ![e].isNew = FALSE, ![e].saving = FALSE]
    BY <1>1, <1>a, EditedIs DEF Refresh, FormFromRt, Open, CloseDialog
  <2>3. page[e] \in RoomTypePage /\ page[e].list \in RoomTypeForm
    BY <1>a, RoomTypeCallIs DEF RoomTypePage
  <2>4. /\ page'[e] \in RoomTypePage /\ \A d \in Editors : d # e => page'[d] = page[d]
        /\ page' = [d \in Editors |-> page'[d]]
        /\ \/ page'[e].list = table /\ page'[e].form = page[e].form /\ page'[e].saving = page[e].saving
           \/ /\ page[e].form = Closed /\ page'[e].form = page[e].list
              /\ page'[e].list = page[e].list /\ page'[e].saving = page[e].saving
           \/ ~page[e].saving /\ page'[e].form = Closed /\ page'[e].list = page[e].list
    <3>1. CASE page' = [page EXCEPT ![e].list = table]
      BY <1>a, <2>3, <3>1 DEF RoomTypePage
    <3>2. CASE page[e].form = Closed /\ page' = [page EXCEPT ![e].form = page[e].list, ![e].isNew = FALSE]
      BY <1>a, <2>3, <3>2 DEF RoomTypePage
    <3>3. CASE /\ ~page[e].saving
               /\ page' = [page EXCEPT ![e].form = Closed, ![e].isNew = FALSE, ![e].saving = FALSE]
      BY <1>a, <2>3, <3>3 DEF RoomTypePage
    <3> QED BY <2>2, <3>1, <3>2, <3>3
  <2>5. ASSUME NEW d \in Editors, AloneOK(d) PROVE AloneOK(d)'
    BY <2>1, <2>4, <2>5 DEF AloneOK, OnlyPage, OneValue
  <2>6. page' \in [Editors -> RoomTypePage]
    BY <1>a, <2>4
  <2> QED BY <1>a, <2>1, <2>5, <2>6 DEF WorkOK, OnlyPage
<1>2. ASSUME NEW e \in Editors, NEW c \in Calls, NEW f \in Fields(section), NEW v \in Columns(section)[f],
             SaveEdit(e, c, f, v)
      PROVE  WorkOK'
  <2> DEFINE form == [page[e].form EXCEPT ![f] = v]
             call == Sent(e, "update", form, page[e].form)
  <2>1. page[e] \in RoomTypePage /\ page[e].form \in RoomTypeForm /\ ~page[e].isNew
    BY <1>2, <1>a DEF SaveEdit, Save, RoomTypePage
  <2>2. form \in RoomTypeForm /\ \A g \in Fields("roomTypes") \ {f} : form[g] = page[e].form[g]
    <3>1. f \in {"basePrice", "view"}
      BY RoomTypeFields
    <3>2. CASE f = "basePrice"
      <4>1. v \in Price
        BY <3>2 DEF Columns, RoomTypeColumns
      <4> QED BY <2>1, <3>2, <4>1, RoomTypeFields DEF RoomTypeForm
    <3>3. CASE f = "view"
      <4>1. v \in {"sea", "hill", Blank}
        BY <3>3 DEF Columns, RoomTypeColumns
      <4> QED BY <2>1, <3>3, <4>1, RoomTypeFields DEF RoomTypeForm
    <3> QED BY <3>1, <3>2, <3>3
  <2>3. /\ Begin(c, call) /\ page' = [page EXCEPT ![e].saving = TRUE, ![e].form = form] /\ OnlyCall
    BY <1>2, <2>1 DEF SaveEdit, Save
  <2> HIDE DEF form
  <2>4. call \in RoomTypeCall /\ call.by = e /\ call.body = form /\ call.stage = "sent"
    BY <2>1, <2>2 DEF Sent, RoomTypeCall
  <2>5. /\ page' \in [Editors -> RoomTypePage] /\ page'[e].form = form /\ page'[e].saving
    BY <1>a, <2>1, <2>2, <2>3 DEF RoomTypePage
  <2> HIDE DEF call
  <2>6. /\ calls' \in [Calls -> {NoCall} \cup RoomTypeCall] /\ calls'[c] = call /\ c \notin InFlight
        /\ \A d \in Calls : d # c => calls'[d] = calls[d]
        /\ authors' = authors \cup {e} /\ overlapped' = (overlapped \/ InFlight # {})
    BY <1>a, <2>3, <2>4 DEF Begin, InFlight
  <2>7. InFlight' = InFlight \cup {c} /\ table' = table
    BY <2>3, <2>4, <2>6, RoomTypeCallIs DEF InFlight, OnlyCall
  <2>8. ASSUME ~overlapped', NEW d \in Editors, authors' \subseteq {d} PROVE AloneOK(d)'
    <3>1. d = e /\ authors \subseteq {e} /\ ~overlapped /\ InFlight = {}
      BY <2>6, <2>8
    <3>2. page[e].form = table
      BY <1>a, <2>1, <3>1, RoomTypeCallIs DEF AloneOK
    <3>3. f \in Fields("roomTypes") /\ \A g \in Fields("roomTypes") \ {f} : call.body[g] = table[g]
      BY <2>2, <2>4, <3>2
    <3>4. OneValue(calls[c].body)'
      BY <2>6, <2>7, <3>3 DEF OneValue
    <3>5. page'[d].form # Closed /\ page'[d].saving
      BY <2>2, <2>5, <3>1, RoomTypeCallIs
    <3>6. InFlight' = {c}
      BY <2>7, <3>1
    <3> QED BY <3>4, <3>5, <3>6 DEF AloneOK
  <2>9. \A d \in InFlight' : calls'[d].by \in authors'
    BY <1>a, <1>b, <2>4, <2>6, <2>7
  <2>10. ~overlapped' => \A a, d \in InFlight' : a = d
    BY <2>6, <2>7
  <2>11. authors' \subseteq Editors /\ overlapped' \in BOOLEAN
    BY <1>a, <2>6
  <2> QED BY <1>a, <2>5, <2>6, <2>7, <2>8, <2>9, <2>10, <2>11 DEF WorkOK
<1>3. ASSUME NEW c \in Calls, UpdateRoomType(c) PROVE WorkOK'
  <2>1. /\ c \in InFlight /\ calls[c].stage = "sent" /\ calls' = [calls EXCEPT ![c].stage = "done"]
        /\ page' = page /\ authors' = authors /\ overlapped' = overlapped
        /\ table' = [f \in DOMAIN table |-> IF calls[c].body[f] = Blank THEN table[f] ELSE calls[c].body[f]]
    BY <1>3 DEF UpdateRoomType, At, InFlight, Proceed, Body, Untouched
  <2>2. table' \in RoomTypeRow
    BY <1>a, <1>b, <2>1 DEF RoomTypeRow, RoomTypeCall, RoomTypeForm, Price, Blank
  <2> DEFINE call == [calls[c] EXCEPT !.stage = "done"]
  <2>3. call \in RoomTypeCall /\ call.stage = "done" /\ call.by = calls[c].by
    BY <1>b, <2>1 DEF RoomTypeCall
  <2>4. /\ calls' \in [Calls -> {NoCall} \cup RoomTypeCall] /\ calls'[c] = call
        /\ \A d \in Calls : d # c => calls'[d] = calls[d]
    BY <1>a, <1>b, <2>1, <2>3
  <2> HIDE DEF call
  <2>5. InFlight' = InFlight
    BY <1>b, <2>1, <2>3, <2>4, RoomTypeCallIs DEF InFlight
  <2>6. ASSUME ~overlapped', NEW d \in Editors, authors' \subseteq {d} PROVE AloneOK(d)'
    <3>1. AloneOK(d) /\ \A a \in InFlight : a = c
      BY <1>a, <2>1, <2>6
    <3>2. page'[d].form # Closed /\ page'[d].saving
      BY <2>1, <3>1 DEF AloneOK
    <3>3. \A a \in InFlight' : calls'[a].stage = "done"
      BY <2>3, <2>4, <2>5, <3>1
    <3>4. InFlight' # {}
      BY <2>1, <2>5
    <3> QED BY <3>2, <3>3, <3>4 DEF AloneOK
  <2>7. \A d \in InFlight' : calls'[d].by \in authors'
    BY <1>a, <1>b, <2>1, <2>3, <2>4, <2>5
  <2> QED BY <1>a, <2>1, <2>2, <2>4, <2>5, <2>6, <2>7 DEF WorkOK
<1>4. ASSUME NEW c \in Calls, Answer(c) PROVE WorkOK'
  <2>1. /\ c \in InFlight /\ calls' = [calls EXCEPT ![c] = NoCall] /\ table' = table
        /\ authors' = authors /\ overlapped' = overlapped
        /\ page' = [page EXCEPT ![calls[c].by] = Answered(c)]
    BY <1>4 DEF Answer, InFlight
  <2>2. calls[c].by \in Editors /\ calls[c].by \in authors /\ calls[c].op = "update"
    BY <1>a, <1>b, <2>1 DEF RoomTypeCall
  <2>3. Answered(c) \in RoomTypePage /\ Answered(c).form = Closed /\ Answered(c).list = table
    <3>1. page[calls[c].by] \in RoomTypePage
      BY <1>a, <2>2
    <3>2. Edited(table) = table
      BY <1>a, EditedIs
    <3> QED BY <1>a, <2>2, <3>1, <3>2 DEF Answered, RoomTypePage
  <2>4. page' \in [Editors -> RoomTypePage] /\ page'[calls[c].by] = Answered(c)
    BY <1>a, <2>1, <2>2, <2>3
  <2>5. /\ InFlight' = InFlight \ {c} /\ calls' \in [Calls -> {NoCall} \cup RoomTypeCall]
        /\ \A d \in InFlight' : calls'[d] = calls[d]
    BY <1>a, <1>b, <2>1 DEF InFlight
  <2>6. ASSUME ~overlapped', NEW d \in Editors, authors' \subseteq {d} PROVE AloneOK(d)'
    <3>1. d = calls[c].by /\ InFlight' = {}
      BY <1>a, <2>1, <2>2, <2>5, <2>6
    <3> QED BY <2>1, <2>3, <2>4, <3>1 DEF AloneOK
  <2> QED BY <1>a, <2>1, <2>4, <2>5, <2>6 DEF WorkOK
<1>5. ASSUME NEW c \in Calls, Fail(c) PROVE WorkOK'
  <2>1. /\ c \in InFlight /\ calls' = [calls EXCEPT ![c] = NoCall] /\ table' = table
        /\ authors' = authors /\ overlapped' = TRUE
        /\ page' = [page EXCEPT ![calls[c].by].saving = @ /\ calls[c].op \in {"toggle", "delete"},
                                ![calls[c].by].deleting = @ /\ calls[c].op # "delete"]
    BY <1>5 DEF Fail, InFlight
  <2>2. page' \in [Editors -> RoomTypePage]
    <3> DEFINE e == calls[c].by
               saving == page[e].saving /\ calls[c].op \in {"toggle", "delete"}
               deleting == page[e].deleting /\ calls[c].op # "delete"
    <3>0. e \in Editors /\ page[e] \in RoomTypePage
      BY <1>a, <1>b, <2>1 DEF RoomTypeCall
    <3>1. page' = [page EXCEPT ![e].saving = saving, ![e].deleting = deleting]
      BY <1>a, <2>1, <3>0 DEF RoomTypePage
    <3>2. saving \in BOOLEAN /\ deleting \in BOOLEAN
      OBVIOUS
    <3> HIDE DEF saving, deleting, e
    <3> QED BY <1>a, <3>0, <3>1, <3>2 DEF RoomTypePage
  <2>3. /\ InFlight' = InFlight \ {c} /\ calls' \in [Calls -> {NoCall} \cup RoomTypeCall]
        /\ \A d \in InFlight' : calls'[d] = calls[d]
    BY <1>a, <1>b, <2>1 DEF InFlight
  <2> QED BY <1>a, <2>1, <2>2, <2>3 DEF WorkOK
<1>6. CASE UNCHANGED catalogueVars
  <2>1. /\ UNCHANGED <<table, page, calls, authors, overlapped>> /\ InFlight' = InFlight
    BY <1>6 DEF catalogueVars, InFlight
  <2>2. \A e \in Editors : AloneOK(e) => AloneOK(e)'
    BY <2>1 DEF AloneOK, OneValue
  <2> QED BY <1>a, <2>1, <2>2 DEF WorkOK
<1> QED
  BY <1>1, <1>2, <1>3, <1>4, <1>5, <1>6, WorkOnly

\* A tab that works alone never undoes its own work.
THEOREM OneTabUndoesNothing == CatalogueSpec => OneTabKeepsItsWork
<1>1. ASSUME WorkOK, NEW c \in Calls, UpdateRoomType(c), ~overlapped, authors = {calls[c].by}
      PROVE  Changes <= 1
  <2>1. /\ section = "roomTypes" /\ c \in InFlight /\ calls[c].stage = "sent"
        /\ table' = [f \in DOMAIN table |-> IF calls[c].body[f] = Blank THEN table[f] ELSE calls[c].body[f]]
    BY <1>1 DEF UpdateRoomType, At, InFlight, Body
  <2>2. calls[c].by \in Editors /\ AloneOK(calls[c].by) /\ table \in RoomTypeRow
    BY <1>1, <2>1 DEF WorkOK, InFlight, RoomTypeCall
  <2>3. PICK f \in Fields("roomTypes") : \A g \in Fields("roomTypes") \ {f} : calls[c].body[g] = table[g]
    BY <2>1, <2>2 DEF AloneOK, OneValue
  <2>4. DOMAIN table = Fields("roomTypes")
    BY <2>2, RoomTypeFields DEF RoomTypeRow
  <2> DEFINE changed == {g \in Fields(section) : table'[g] # table[g]}
  <2>5. changed \subseteq {f}
    BY <2>1, <2>3, <2>4
  <2>6. Cardinality({f}) = 1 /\ IsFiniteSet({f})
    BY FS_Singleton
  <2> HIDE DEF changed
  <2>7. Cardinality(changed) <= Cardinality({f})
    BY <2>5, <2>6, FS_Subset
  <2> QED BY <2>6, <2>7 DEF Changes, changed
<1>2. WorkOK /\ [CatalogueNext]_catalogueVars =>
        [\A c \in Calls : UpdateRoomType(c) /\ ~overlapped /\ authors = {calls[c].by} => Changes <= 1]_catalogueVars
  BY <1>1
<1> QED
  BY <1>2, WorkInit, WorkStep, PTL DEF CatalogueSpec, OneTabKeepsItsWork

-----------------------------------------------------------------------------
\* What the table, a page and a call hold while the section is the reviews.
ReviewRow == [status: {"ABSENT", "DRAFT", "PUBLISHED", "DELETED"}, isFeatured: BOOLEAN]
ReviewPage ==
    [list: ReviewRow, form: {Closed} \cup ReviewForm, isNew: BOOLEAN, saving: BOOLEAN, deleting: BOOLEAN]
ReviewCall ==
    [by: Editors, op: {"create", "update", "toggle"}, body: ReviewForm, base: ReviewForm,
     stage: {"sent", "done"}]
ReviewsOK ==
    section = "reviews" =>
        table \in ReviewRow /\ page \in [Editors -> ReviewPage] /\ calls \in [Calls -> {NoCall} \cup ReviewCall]

\* And while it is the settings.
SettingPage ==
    [list: SettingForm, form: {Closed} \cup SettingForm, isNew: {FALSE}, saving: BOOLEAN, deleting: BOOLEAN]
SettingCall ==
    [by: Editors, op: {"update"}, body: SettingForm, base: SettingForm, stage: {"sent", "done"}]
SettingsOK ==
    section = "settings" =>
        table \in SettingForm /\ page \in [Editors -> SettingPage] /\ calls \in [Calls -> {NoCall} \cup SettingCall]

\* And while it is one of rows that are added and deleted.
ShelfPage ==
    [list: [none: {"none"}], form: {Closed}, isNew: {FALSE}, saving: BOOLEAN, deleting: {FALSE}]
ShelfOK ==
    /\ section \in Sections
    /\ IsFiniteSet(rows) /\ \A r \in rows : r.id \in Units
    /\ section \in Collections => table \in [none: {"none"}] /\ page \in [Editors -> ShelfPage]

\* A new call is one of its section, and so is one that proceeds.
LEMMA CallsStep ==
    ASSUME NEW X, calls \in [Calls -> {NoCall} \cup X], NEW c \in Calls
    PROVE  /\ \A call \in X : Begin(c, call) => calls' \in [Calls -> {NoCall} \cup X]
           /\ \A stage : calls[c] # NoCall /\ Proceed(c, stage) /\ [calls[c] EXCEPT !.stage = stage] \in X
                => calls' \in [Calls -> {NoCall} \cup X]
           /\ calls' = [calls EXCEPT ![c] = NoCall] => calls' \in [Calls -> {NoCall} \cup X]
  BY DEF Begin, Proceed

\* The fields of the forms.
LEMMA OtherFields ==
    /\ Fields("reviews") = {"status", "isFeatured"}
    /\ Fields("settings") = {"gstPct", "minNights"}
    /\ \A s \in Collections : Fields(s) = {"none"}
  BY DEF Fields, Columns, ReviewColumns, SettingColumns, Collections

\* The actions of the reviews page and its handlers.
LEMMA ReviewsOnly ==
    ASSUME section = "reviews", ReviewsOK, CatalogueNext
    PROVE  \/ \E e \in Editors :
                \/ FetchList(e) \/ ReviewEditor(e) \/ CloseDialog(e) \/ HandleDelete(e)
                \/ \E c \in Calls :
                     \/ \E f \in Fields(section) : \E v \in Columns(section)[f] : SaveReview(e, c, f, v)
                     \/ HandlePublishToggle(e, c) \/ HandleFeatureToggle(e, c)
           \/ \E c \in Calls : CreateReview(c) \/ UpdateReview(c) \/ Answer(c) \/ Fail(c)
<1>1. \A c \in Calls, stage \in {"sent", "found"} : ~At(c, "delete", stage)
  BY DEF At, ReviewsOK, ReviewCall
<1>2. CASE PageNext
  <2>1. ASSUME NEW e \in Editors,
               Refresh(e) \/ LoadSettings(e) \/ FormFromRt(e) \/ StartEdit(e) \/ StartNew(e)
        PROVE  FALSE
    BY <2>1 DEF Refresh, LoadSettings, FormFromRt, StartEdit, StartNew
  <2>2. ASSUME NEW e \in Editors, NEW c \in Calls, NEW f, NEW v,
               SaveEdit(e, c, f, v) \/ SaveOffer(e, c, f, v) \/ SaveSettings(e, c, f, v)
        PROVE  FALSE
    BY <2>2 DEF SaveEdit, SaveOffer, SaveSettings
  <2>3. ASSUME NEW e \in Editors, NEW c \in Calls,
               Remove(e, c) \/ PhotoStrip(e, c) \/ AddCover(e, c) \/ AddRate(e, c) \/ AddImage(e, c)
        PROVE  FALSE
    BY <2>3 DEF Remove, PhotoStrip, AddCover, AddRate, AddImage
  <2> QED BY <1>2, <2>1, <2>2, <2>3 DEF PageNext
<1>3. CASE HandlerNext
  <2>1. ASSUME NEW c \in Calls, NEW k,
               \/ UpdateRoomType(c) \/ UpdateSettings(c, k)
               \/ UpsertFind(c) \/ UpsertCreate(c) \/ UpsertUpdate(c) \/ UpsertClear(c) \/ UpsertFill(c)
               \/ DeleteFind(c) \/ DeleteOffer(c)
               \/ ResetCovers(c) \/ AddRoomPhoto(c) \/ CreateRatePlan(c) \/ AddGalleryImage(c)
        PROVE  FALSE
    BY <1>1, <2>1 DEF UpdateRoomType, UpdateSettings, UpsertFind, UpsertCreate, UpsertUpdate,
           UpsertClear, UpsertFill, Stored, DeleteFind, DeleteOffer, ResetCovers, AddRoomPhoto,
           CreateRatePlan, AddGalleryImage
  <2>2. ASSUME NEW r \in rows, DeleteRoomPhoto(r) \/ DeleteRatePlan(r) \/ DeleteGalleryImage(r) PROVE FALSE
    BY <2>2 DEF DeleteRoomPhoto, DeleteRatePlan, DeleteGalleryImage
  <2> QED BY <1>3, <2>1, <2>2 DEF HandlerNext
<1> QED BY <1>2, <1>3 DEF CatalogueNext

\* Every step keeps the rows, pages and calls of the reviews well formed.
LEMMA ReviewsStep == ReviewsOK /\ [CatalogueNext]_catalogueVars => ReviewsOK'
<1> SUFFICES ASSUME ReviewsOK, [CatalogueNext]_catalogueVars, section = "reviews", section' = section
             PROVE  ReviewsOK'
  BY SectionStays DEF ReviewsOK
<1>a. /\ table \in ReviewRow /\ page \in [Editors -> ReviewPage]
      /\ calls \in [Calls -> {NoCall} \cup ReviewCall]
  BY DEF ReviewsOK
<1>b. Edited(table) \in ReviewRow
  <2>1. Edited(table) = [f \in {"status", "isFeatured"} |-> table[f]]
    BY OtherFields DEF Edited
  <2> QED BY <1>a, <2>1 DEF ReviewRow
<1>c. \A e \in Editors : Listed(e) => page[e].list \in ReviewForm
  <2> TAKE e \in Editors
  <2>1. page[e].list \in ReviewRow
    BY <1>a DEF ReviewPage
  <2> QED BY <2>1 DEF Listed, ReviewColumns, ReviewRow, ReviewForm
<1>1. ASSUME NEW e \in Editors, FetchList(e) \/ ReviewEditor(e) \/ CloseDialog(e) PROVE ReviewsOK'
  <2>1. /\ OnlyPage
        /\ \/ page' = [page EXCEPT ![e].list = Edited(table)]
           \/ \E form \in ReviewForm, isNew \in BOOLEAN :
                page' = [page EXCEPT ![e].form = form, ![e].isNew = isNew]
           \/ page' = [page EXCEPT ![e].form = Closed, ![e].isNew = FALSE, ![e].saving = FALSE]
    BY <1>1, <1>c DEF FetchList, ReviewEditor, Open, CloseDialog, OnlyPage, ReviewForm
  <2>2. page[e] \in ReviewPage
    BY <1>a
  <2>3. page' \in [Editors -> ReviewPage]
    <3>1. CASE page' = [page EXCEPT ![e].list = Edited(table)]
      BY <1>a, <1>b, <2>2, <3>1 DEF ReviewPage
    <3>2. ASSUME NEW form \in ReviewForm, NEW isNew \in BOOLEAN,
                 page' = [page EXCEPT ![e].form = form, ![e].isNew = isNew]
          PROVE  page' \in [Editors -> ReviewPage]
      BY <1>a, <2>2, <3>2 DEF ReviewPage
    <3>3. CASE page' = [page EXCEPT ![e].form = Closed, ![e].isNew = FALSE, ![e].saving = FALSE]
      BY <1>a, <2>2, <3>3 DEF ReviewPage
    <3> QED BY <2>1, <3>1, <3>2, <3>3
  <2> QED BY <1>a, <2>1, <2>3 DEF ReviewsOK, OnlyPage
<1>2. ASSUME NEW e \in Editors, HandleDelete(e) PROVE ReviewsOK'
  BY <1>2, <1>a DEF HandleDelete, ReviewsOK, ReviewRow
<1>3. ASSUME NEW e \in Editors, NEW c \in Calls, NEW f \in Fields(section), NEW v \in Columns(section)[f],
             SaveReview(e, c, f, v)
      PROVE  ReviewsOK'
  <2> DEFINE form == [page[e].form EXCEPT ![f] = v]
             call == Sent(e, IF page[e].isNew THEN "create" ELSE "update", form, page[e].form)
  <2>1. page[e] \in ReviewPage /\ page[e].form \in ReviewForm
    BY <1>3, <1>a DEF SaveReview, Save, ReviewPage
  <2>2. form \in ReviewForm
    <3>1. f \in {"status", "isFeatured"}
      BY OtherFields
    <3>2. CASE f = "status"
      <4>1. v \in {"DRAFT", "PUBLISHED"}
        BY <3>2 DEF Columns, ReviewColumns
      <4> QED BY <2>1, <3>2, <4>1 DEF ReviewForm
    <3>3. CASE f = "isFeatured"
      <4>1. v \in BOOLEAN
        BY <3>3 DEF Columns, ReviewColumns
      <4> QED BY <2>1, <3>3, <4>1 DEF ReviewForm
    <3> QED BY <3>1, <3>2, <3>3
  <2>3. Begin(c, call) /\ page' = [page EXCEPT ![e].saving = TRUE, ![e].form = form] /\ OnlyCall
    BY <1>3 DEF SaveReview, Save
  <2> HIDE DEF form
  <2>4. call \in ReviewCall
    BY <2>1, <2>2 DEF Sent, ReviewCall
  <2>5. page' \in [Editors -> ReviewPage]
    BY <1>a, <2>1, <2>2, <2>3 DEF ReviewPage
  <2> HIDE DEF call
  <2> QED BY <1>a, <2>3, <2>4, <2>5, CallsStep DEF ReviewsOK, OnlyCall
<1>4. ASSUME NEW e \in Editors, NEW c \in Calls, HandlePublishToggle(e, c) \/ HandleFeatureToggle(e, c)
      PROVE  ReviewsOK'
  <2>1. PICK body \in ReviewForm : Toggle(e, c, body)
    <3>1. page[e].list \in ReviewForm
      BY <1>4, <1>c DEF HandlePublishToggle, HandleFeatureToggle, Toggle
    <3>2. /\ [page[e].list EXCEPT !.status = IF @ = "PUBLISHED" THEN "DRAFT" ELSE "PUBLISHED"] \in ReviewForm
          /\ [page[e].list EXCEPT !.isFeatured = ~@] \in ReviewForm
      BY <3>1 DEF ReviewForm
    <3> QED BY <1>4, <3>2 DEF HandlePublishToggle, HandleFeatureToggle
  <2>2. Sent(e, "toggle", body, page[e].list) \in ReviewCall
    BY <1>c, <2>1 DEF Toggle, Sent, ReviewCall
  <2> QED BY <1>a, <2>1, <2>2, CallsStep DEF Toggle, ReviewsOK, OnlyCall
<1>5. ASSUME NEW c \in Calls, CreateReview(c) \/ UpdateReview(c) PROVE ReviewsOK'
  <2>1. /\ calls[c] # NoCall /\ Proceed(c, "done") /\ table' = calls[c].body /\ page' = page
    BY <1>5 DEF CreateReview, UpdateReview, At, Body, Untouched
  <2>2. calls[c] \in ReviewCall
    BY <1>a, <2>1
  <2>3. [calls[c] EXCEPT !.stage = "done"] \in ReviewCall
    BY <2>2 DEF ReviewCall
  <2>4. table' \in ReviewRow
    BY <2>1, <2>2 DEF ReviewCall, ReviewForm, ReviewRow
  <2> QED BY <1>a, <2>1, <2>3, <2>4, CallsStep DEF ReviewsOK
<1>6. ASSUME NEW c \in Calls, Answer(c) \/ Fail(c) PROVE ReviewsOK'
  <2> DEFINE e == calls[c].by
  <2>1. calls[c] # NoCall /\ calls' = [calls EXCEPT ![c] = NoCall] /\ table' = table
    BY <1>6 DEF Answer, Fail
  <2>2. calls[c] \in ReviewCall /\ e \in Editors /\ page[e] \in ReviewPage
    BY <1>a, <2>1 DEF ReviewCall
  <2>3. Answered(c) \in ReviewPage
    BY <1>b, <2>2 DEF Answered, ReviewPage
  <2>4. CASE Answer(c)
    <3>1. page' \in [Editors -> ReviewPage]
      BY <1>a, <2>2, <2>3, <2>4 DEF Answer
    <3> QED BY <1>a, <2>1, <3>1, CallsStep DEF ReviewsOK
  <2>5. CASE Fail(c)
    <3> DEFINE saving == page[e].saving /\ calls[c].op \in {"toggle", "delete"}
               deleting == page[e].deleting /\ calls[c].op # "delete"
    <3>1. page' = [page EXCEPT ![e].saving = saving, ![e].deleting = deleting]
      BY <1>a, <2>2, <2>5 DEF Fail, ReviewPage
    <3>2. saving \in BOOLEAN /\ deleting \in BOOLEAN
      OBVIOUS
    <3> HIDE DEF saving, deleting, e
    <3>3. page' \in [Editors -> ReviewPage]
      BY <1>a, <2>2, <3>1, <3>2 DEF ReviewPage
    <3> QED BY <1>a, <2>1, <3>3, CallsStep DEF ReviewsOK
  <2> QED BY <1>6, <2>4, <2>5
<1>7. CASE UNCHANGED catalogueVars
  BY <1>7, <1>a DEF catalogueVars, ReviewsOK
<1> QED
  BY <1>1, <1>2, <1>3, <1>4, <1>5, <1>6, <1>7, ReviewsOnly

\* The actions of the settings page and its handler.
LEMMA SettingsOnly ==
    ASSUME section = "settings", SettingsOK, CatalogueNext
    PROVE  \/ \E e \in Editors :
                \/ LoadSettings(e) \/ CloseDialog(e)
                \/ \E c \in Calls : \E f \in Fields(section) : \E v \in Columns(section)[f] : SaveSettings(e, c, f, v)
           \/ \E c \in Calls : \/ \E k \in DOMAIN table : UpdateSettings(c, k)
                               \/ Answer(c) \/ Fail(c)
<1>1. \A c \in Calls, stage \in {"sent", "found"} : ~At(c, "delete", stage)
  BY DEF At, SettingsOK, SettingCall
<1>2. CASE PageNext
  <2>1. ASSUME NEW e \in Editors,
               \/ Refresh(e) \/ FetchList(e) \/ FormFromRt(e) \/ ReviewEditor(e) \/ StartEdit(e) \/ StartNew(e)
               \/ HandleDelete(e)
        PROVE  FALSE
    BY <2>1 DEF Refresh, FetchList, FormFromRt, ReviewEditor, StartEdit, StartNew, HandleDelete
  <2>2. ASSUME NEW e \in Editors, NEW c \in Calls, NEW f, NEW v,
               SaveEdit(e, c, f, v) \/ SaveOffer(e, c, f, v) \/ SaveReview(e, c, f, v)
        PROVE  FALSE
    BY <2>2 DEF SaveEdit, SaveOffer, SaveReview
  <2>3. ASSUME NEW e \in Editors, NEW c \in Calls,
               \/ HandlePublishToggle(e, c) \/ HandleFeatureToggle(e, c) \/ Remove(e, c)
               \/ PhotoStrip(e, c) \/ AddCover(e, c) \/ AddRate(e, c) \/ AddImage(e, c)
        PROVE  FALSE
    BY <2>3 DEF HandlePublishToggle, HandleFeatureToggle, Toggle, Remove, PhotoStrip, AddCover, AddRate, AddImage
  <2> QED BY <1>2, <2>1, <2>2, <2>3 DEF PageNext
<1>3. CASE HandlerNext
  <2>1. ASSUME NEW c \in Calls,
               \/ UpdateRoomType(c) \/ CreateReview(c) \/ UpdateReview(c)
               \/ UpsertFind(c) \/ UpsertCreate(c) \/ UpsertUpdate(c) \/ UpsertClear(c) \/ UpsertFill(c)
               \/ DeleteFind(c) \/ DeleteOffer(c)
               \/ ResetCovers(c) \/ AddRoomPhoto(c) \/ CreateRatePlan(c) \/ AddGalleryImage(c)
        PROVE  FALSE
    BY <1>1, <2>1 DEF UpdateRoomType, CreateReview, UpdateReview, UpsertFind, UpsertCreate, UpsertUpdate,
           UpsertClear, UpsertFill, Stored, DeleteFind, DeleteOffer, ResetCovers, AddRoomPhoto,
           CreateRatePlan, AddGalleryImage
  <2>2. ASSUME NEW r \in rows, DeleteRoomPhoto(r) \/ DeleteRatePlan(r) \/ DeleteGalleryImage(r) PROVE FALSE
    BY <2>2 DEF DeleteRoomPhoto, DeleteRatePlan, DeleteGalleryImage
  <2> QED BY <1>3, <2>1, <2>2 DEF HandlerNext
<1> QED BY <1>2, <1>3 DEF CatalogueNext

\* Every step keeps the values, pages and calls of the settings well formed, whatever
\* mixture of two saves the keys hold.
LEMMA SettingsStep == SettingsOK /\ [CatalogueNext]_catalogueVars => SettingsOK'
<1> SUFFICES ASSUME SettingsOK, [CatalogueNext]_catalogueVars, section = "settings", section' = section
             PROVE  SettingsOK'
  BY SectionStays DEF SettingsOK
<1>a. /\ table \in SettingForm /\ page \in [Editors -> SettingPage]
      /\ calls \in [Calls -> {NoCall} \cup SettingCall]
  BY DEF SettingsOK
<1>b. Edited(table) \in SettingForm
  <2>1. Edited(table) = [f \in {"gstPct", "minNights"} |-> table[f]]
    BY OtherFields DEF Edited
  <2> QED BY <1>a, <2>1 DEF SettingForm
<1>1. ASSUME NEW e \in Editors, LoadSettings(e) \/ CloseDialog(e) PROVE SettingsOK'
  <2>1. /\ OnlyPage
        /\ \/ page' = [page EXCEPT ![e].form = Edited(table), ![e].isNew = FALSE]
           \/ page' = [page EXCEPT ![e].form = Closed, ![e].isNew = FALSE, ![e].saving = FALSE]
    BY <1>1 DEF LoadSettings, Open, CloseDialog, OnlyPage
  <2>2. page[e] \in SettingPage
    BY <1>a
  <2>3. page' \in [Editors -> SettingPage]
    <3>1. CASE page' = [page EXCEPT ![e].form = Edited(table), ![e].isNew = FALSE]
      BY <1>a, <1>b, <2>2, <3>1 DEF SettingPage
    <3>2. CASE page' = [page EXCEPT ![e].form = Closed, ![e].isNew = FALSE, ![e].saving = FALSE]
      BY <1>a, <2>2, <3>2 DEF SettingPage
    <3> QED BY <2>1, <3>1, <3>2
  <2> QED BY <1>a, <2>1, <2>3 DEF SettingsOK, OnlyPage
<1>2. ASSUME NEW e \in Editors, NEW c \in Calls, NEW f \in Fields(section), NEW v \in Columns(section)[f],
             SaveSettings(e, c, f, v)
      PROVE  SettingsOK'
  <2> DEFINE form == [page[e].form EXCEPT ![f] = v]
             call == Sent(e, "update", form, page[e].form)
  <2>1. page[e] \in SettingPage /\ page[e].form \in SettingForm /\ ~page[e].isNew
    BY <1>2, <1>a DEF SaveSettings, Save, SettingPage
  <2>2. form \in SettingForm
    <3>1. f \in {"gstPct", "minNights"} /\ v \in Price
      BY OtherFields DEF Columns, SettingColumns
    <3> QED BY <2>1, <3>1 DEF SettingForm
  <2>3. Begin(c, call) /\ page' = [page EXCEPT ![e].saving = TRUE, ![e].form = form] /\ OnlyCall
    BY <1>2, <2>1 DEF SaveSettings, Save
  <2> HIDE DEF form
  <2>4. call \in SettingCall
    BY <2>1, <2>2 DEF Sent, SettingCall
  <2>5. page' \in [Editors -> SettingPage]
    BY <1>a, <2>1, <2>2, <2>3 DEF SettingPage
  <2> HIDE DEF call
  <2> QED BY <1>a, <2>3, <2>4, <2>5, CallsStep DEF SettingsOK, OnlyCall
<1>3. ASSUME NEW c \in Calls, NEW k \in DOMAIN table, UpdateSettings(c, k) PROVE SettingsOK'
  <2>1. /\ calls[c] # NoCall /\ table' = [table EXCEPT ![k] = calls[c].body[k]] /\ page' = page
        /\ Proceed(c, "done") \/ UNCHANGED calls
    BY <1>3 DEF UpdateSettings, At, Body, Untouched
  <2>2. calls[c] \in SettingCall
    BY <1>a, <2>1
  <2>3. [calls[c] EXCEPT !.stage = "done"] \in SettingCall
    BY <2>2 DEF SettingCall
  <2>4. table' \in SettingForm
    BY <1>a, <2>1, <2>2 DEF SettingCall, SettingForm
  <2> QED BY <1>a, <2>1, <2>3, <2>4, CallsStep DEF SettingsOK
<1>4. ASSUME NEW c \in Calls, Answer(c) \/ Fail(c) PROVE SettingsOK'
  <2> DEFINE e == calls[c].by
  <2>1. calls[c] # NoCall /\ calls' = [calls EXCEPT ![c] = NoCall] /\ table' = table
    BY <1>4 DEF Answer, Fail
  <2>2. calls[c] \in SettingCall /\ e \in Editors /\ page[e] \in SettingPage
    BY <1>a, <2>1 DEF SettingCall
  <2>3. Answered(c) \in SettingPage
    BY <1>b, <2>2 DEF Answered, SettingPage
  <2>4. CASE Answer(c)
    <3>1. page' \in [Editors -> SettingPage]
      BY <1>a, <2>2, <2>3, <2>4 DEF Answer
    <3> QED BY <1>a, <2>1, <3>1, CallsStep DEF SettingsOK
  <2>5. CASE Fail(c)
    <3> DEFINE saving == page[e].saving /\ calls[c].op \in {"toggle", "delete"}
               deleting == page[e].deleting /\ calls[c].op # "delete"
    <3>1. page' = [page EXCEPT ![e].saving = saving, ![e].deleting = deleting]
      BY <1>a, <2>2, <2>5 DEF Fail, SettingPage
    <3>2. saving \in BOOLEAN /\ deleting \in BOOLEAN
      OBVIOUS
    <3> HIDE DEF saving, deleting, e
    <3>3. page' \in [Editors -> SettingPage]
      BY <1>a, <2>2, <3>1, <3>2 DEF SettingPage
    <3> QED BY <1>a, <2>1, <3>3, CallsStep DEF SettingsOK
  <2> QED BY <1>4, <2>4, <2>5
<1>5. CASE UNCHANGED catalogueVars
  BY <1>5, <1>a DEF catalogueVars, SettingsOK
<1> QED
  BY <1>1, <1>2, <1>3, <1>4, <1>5, SettingsOnly

\* As long as there are fewer rows than ids, a new row gets an id of its own.
LEMMA NewIdIs ==
    ASSUME IsFiniteSet(rows), \A r \in rows : r.id \in Units, Cardinality(rows) < Cardinality(Units), NEW cover
    PROVE  NewRow(cover).id \in Units
<1>1. \E i \in Units : \A r \in rows : r.id # i
  <2> SUFFICES ASSUME \A i \in Units : \E r \in rows : r.id = i PROVE FALSE
    OBVIOUS
  <2> DEFINE f == [r \in rows |-> r.id]
  <2>1. f \in Surjection(rows, Units)
    BY DEF Surjection
  <2>2. Cardinality(Units) <= Cardinality(rows)
    <3> HIDE DEF f
    <3> QED BY <2>1, FS_Surjection
  <2>3. Cardinality(rows) \in Nat /\ Cardinality(Units) \in Nat
    BY CatalogueAssumption, FS_CardinalityType
  <2> QED BY <2>2, <2>3
<1> QED BY <1>1 DEF NewRow

\* Every step keeps the rows' ids, and the pages of the collections, well formed.
LEMMA ShelfStep == ShelfOK /\ CoversOK /\ [CatalogueNext]_catalogueVars => ShelfOK'
<1> SUFFICES ASSUME ShelfOK, CoversOK, [CatalogueNext]_catalogueVars PROVE ShelfOK'
  OBVIOUS
<1>a. section' = section
  BY SectionStays
<1>1. CASE section \notin Collections
  <2>1. rows = {} /\ rows' = {}
    BY <1>1, NoRowsElsewhere DEF CoversOK
  <2> QED BY <1>1, <1>a, <2>1, FS_EmptySet DEF ShelfOK
<1>2. CASE section \in Collections
  <2>a. /\ section \in Sections /\ IsFiniteSet(rows) /\ \A r \in rows : r.id \in Units
        /\ table \in [none: {"none"}] /\ page \in [Editors -> ShelfPage]
    BY <1>2 DEF ShelfOK
  <2>b. /\ calls \in [Calls -> {NoCall} \cup AddCall]
        /\ \A r \in rows : r \in [id: {r.id}, isCover: BOOLEAN]
    BY <1>2 DEF CoversOK
  <2>1. ASSUME NEW e \in Editors, CloseDialog(e) PROVE ShelfOK'
    BY <2>1, <2>a DEF CloseDialog, ShelfPage
  <2>2. ASSUME NEW e \in Editors, NEW c \in Calls,
               AddCover(e, c) \/ PhotoStrip(e, c) \/ AddRate(e, c) \/ AddImage(e, c)
        PROVE  ShelfOK'
    <3>1. page' = [page EXCEPT ![e].saving = (section = "gallery")] /\ OnlyCall
      BY <2>2 DEF AddCover, PhotoStrip, AddRate, AddImage, Add
    <3>2. page[e] \in ShelfPage
      BY <2>a
    <3>3. page' \in [Editors -> ShelfPage]
      BY <2>a, <3>1, <3>2 DEF ShelfPage
    <3> QED BY <2>a, <3>1, <3>3 DEF ShelfOK, OnlyCall
  <2>3. ASSUME NEW c \in Calls, ResetCovers(c) PROVE ShelfOK'
    <3> DEFINE f == [r \in rows |-> [r EXCEPT !.isCover = FALSE]]
    <3>1. rows' = {f[r] : r \in rows} /\ UNCHANGED <<table, page>>
      BY <2>3 DEF ResetCovers
    <3>2. f \in Surjection(rows, rows')
      BY <3>1 DEF Surjection
    <3>3. \A r \in rows : f[r].id = r.id
      BY <2>b
    <3> HIDE DEF f
    <3>4. IsFiniteSet(rows')
      BY <2>a, <3>2, FS_Surjection
    <3>5. \A r \in rows' : r.id \in Units
      BY <2>a, <3>1, <3>3
    <3> QED BY <1>a, <2>a, <3>1, <3>4, <3>5 DEF ShelfOK
  <2>4. ASSUME NEW c \in Calls, AddRoomPhoto(c) \/ CreateRatePlan(c) \/ AddGalleryImage(c) PROVE ShelfOK'
    <3>1. /\ Cardinality(rows) < Cardinality(Units) /\ rows' = rows \cup {NewRow(calls[c].body)}
          /\ UNCHANGED <<table, page>>
      BY <2>4 DEF AddRoomPhoto, CreateRatePlan, AddGalleryImage, Create, Body
    <3>2. NewRow(calls[c].body).id \in Units
      BY <2>a, <3>1, NewIdIs
    <3>3. IsFiniteSet(rows')
      BY <2>a, <3>1, FS_AddElement
    <3> QED BY <1>a, <2>a, <3>1, <3>2, <3>3 DEF ShelfOK
  <2>5. ASSUME NEW c \in Calls, Answer(c) \/ Fail(c) PROVE ShelfOK'
    <3> DEFINE e == calls[c].by
    <3>1. calls[c] # NoCall /\ UNCHANGED <<table, rows>>
      BY <2>5 DEF Answer, Fail
    <3>2. calls[c].op = "add" /\ e \in Editors
      BY <2>b, <3>1 DEF AddCall
    <3>3. page[e] \in ShelfPage
      BY <2>a, <3>2
    <3>4. Answered(c) \in ShelfPage
      BY <1>2, <3>2, <3>3 DEF Answered, ShelfPage, Collections
    <3>5. page' \in [Editors -> ShelfPage]
      <4>1. CASE Answer(c)
        BY <2>a, <3>2, <3>4, <4>1 DEF Answer
      <4>2. CASE Fail(c)
        <5>1. page' = [page EXCEPT ![e].saving = FALSE, ![e].deleting = FALSE]
          BY <2>a, <3>2, <3>3, <4>2 DEF Fail, ShelfPage
        <5> HIDE DEF e
        <5> QED BY <2>a, <3>2, <3>3, <5>1 DEF ShelfPage
      <4> QED BY <2>5, <4>1, <4>2
    <3> QED BY <1>a, <2>a, <3>1, <3>5 DEF ShelfOK
  <2>6. ASSUME NEW r \in rows, DeleteRoomPhoto(r) \/ DeleteRatePlan(r) \/ DeleteGalleryImage(r) PROVE ShelfOK'
    <3>1. rows' = rows \ {r} /\ UNCHANGED <<table, page>>
      BY <2>6 DEF DeleteRoomPhoto, DeleteRatePlan, DeleteGalleryImage, Delete
    <3>2. IsFiniteSet(rows')
      BY <2>a, <3>1, FS_RemoveElement
    <3> QED BY <1>a, <2>a, <3>1, <3>2 DEF ShelfOK
  <2>7. CASE UNCHANGED catalogueVars
    BY <2>7, <2>a DEF catalogueVars, ShelfOK
  <2> QED BY <1>2, <2>1, <2>2, <2>3, <2>4, <2>5, <2>6, <2>7, CollectionsOnly
<1> QED BY <1>1, <1>2

\* The three hold when the page is first opened.
LEMMA RestInit == CatalogueInit => ReviewsOK /\ SettingsOK /\ ShelfOK
<1> SUFFICES ASSUME CatalogueInit PROVE ReviewsOK /\ SettingsOK /\ ShelfOK
  OBVIOUS
<1>1. /\ section \in Sections /\ rows = {} /\ table \in Starting(section)
      /\ page = [e \in Editors |-> [list |-> Edited(table), form |-> Closed, isNew |-> FALSE,
                                    saving |-> FALSE, deleting |-> FALSE]]
      /\ calls = [c \in Calls |-> NoCall]
  BY DEF CatalogueInit
<1>2. ReviewsOK
  <2> SUFFICES ASSUME section = "reviews"
               PROVE  table \in ReviewRow /\ page \in [Editors -> ReviewPage]
                      /\ calls \in [Calls -> {NoCall} \cup ReviewCall]
    BY DEF ReviewsOK
  <2>1. table \in ReviewRow
    <3>1. \/ table = [status |-> "ABSENT", isFeatured |-> FALSE]
          \/ table = [status |-> "PUBLISHED", isFeatured |-> FALSE]
      <4>1. table \in Starting("reviews")
        BY <1>1
      <4> QED BY <4>1 DEF Starting
    <3>2. /\ [status |-> "ABSENT", isFeatured |-> FALSE] \in ReviewRow
          /\ [status |-> "PUBLISHED", isFeatured |-> FALSE] \in ReviewRow
      BY DEF ReviewRow
    <3> QED BY <3>1, <3>2
  <2>2. Edited(table) = [f \in {"status", "isFeatured"} |-> table[f]]
    BY OtherFields DEF Edited
  <2>3. Edited(table) \in ReviewRow
    BY <2>1, <2>2 DEF ReviewRow
  <2> QED BY <1>1, <2>1, <2>3 DEF ReviewPage
<1>3. SettingsOK
  <2> SUFFICES ASSUME section = "settings"
               PROVE  table \in SettingForm /\ page \in [Editors -> SettingPage]
                      /\ calls \in [Calls -> {NoCall} \cup SettingCall]
    BY DEF SettingsOK
  <2>1. table \in SettingForm
    BY <1>1 DEF Starting, SettingForm, Price
  <2>2. Edited(table) = [f \in {"gstPct", "minNights"} |-> table[f]]
    BY OtherFields DEF Edited
  <2>3. Edited(table) \in SettingForm
    BY <2>1, <2>2 DEF SettingForm
  <2> QED BY <1>1, <2>1, <2>3 DEF SettingPage
<1>4. section \in Collections => table \in [none: {"none"}] /\ page \in [Editors -> ShelfPage]
  <2> SUFFICES ASSUME section \in Collections
               PROVE  table \in [none: {"none"}] /\ page \in [Editors -> ShelfPage]
    OBVIOUS
  <2>1. table = [none |-> "none"]
    BY <1>1 DEF Starting, Collections
  <2>2. Edited(table) = [f \in {"none"} |-> table[f]]
    BY OtherFields DEF Edited
  <2>3. table \in [none: {"none"}] /\ Edited(table) \in [none: {"none"}]
    BY <2>1, <2>2
  <2> QED BY <1>1, <2>3 DEF ShelfPage
<1> QED
  BY <1>1, <1>2, <1>3, <1>4, FS_EmptySet DEF ShelfOK

\* Whichever of the seven sections staff edit, every reachable row holds values its
\* columns may hold, and a room type's text is never blanked.
THEOREM CatalogueTypeCorrect == CatalogueSpec => []CatalogueTypeOK
<1>1. ASSUME OffersOK, WorkOK, CoversOK, ReviewsOK, SettingsOK, ShelfOK PROVE CatalogueTypeOK
  <2>1. /\ section \in Sections /\ \A r \in rows : r.id \in Units
        /\ \A r \in rows : r.isCover \in BOOLEAN
    <3>1. rows = {} \/ \A r \in rows : r \in [id: {r.id}, isCover: BOOLEAN]
      BY <1>1 DEF CoversOK
    <3> QED BY <1>1, <3>1 DEF ShelfOK
  <2> DEFINE Column(f) ==
                 \/ f = "status" /\ table.status \in {"ABSENT", "EXPIRED", "DELETED"}
                 \/ f = "roomTypes" /\ section = "offers" /\ table.roomTypes \subseteq UNION TypeSets
                 \/ table[f] \in Columns(section)[f]
             Goal == /\ \A f \in Fields(section) : Column(f)
                     /\ section = "roomTypes" => table.view # Blank
                     /\ \A e \in Editors : page[e].saving \in BOOLEAN
  <2> SUFFICES Goal
    BY <2>1 DEF CatalogueTypeOK
  <2>2. CASE section = "offers"
    <3>1. table \in OfferTable /\ page \in [Editors -> OfferPage]
      BY <1>1, <2>2 DEF OffersOK
    <3>2. table.status \in {"ABSENT", "EXPIRED"} \/ table.status \in Columns(section)["status"]
      BY <2>2, <3>1 DEF OfferTable, Columns, OfferColumns
    <3>3. table.roomTypes \subseteq UNION TypeSets
      BY <3>1 DEF OfferTable
    <3>4. \A e \in Editors : page[e].saving \in BOOLEAN
      BY <3>1 DEF OfferPage
    <3> QED BY <2>2, <3>2, <3>3, <3>4, OfferFields
  <2>3. CASE section = "roomTypes"
    <3>1. table \in RoomTypeRow /\ page \in [Editors -> RoomTypePage]
      BY <1>1, <2>3 DEF WorkOK
    <3>2. table.basePrice \in Columns(section)["basePrice"] /\ table.view \in Columns(section)["view"]
      BY <2>3, <3>1 DEF RoomTypeRow, Columns, RoomTypeColumns
    <3>3. table.view # Blank
      BY <3>1 DEF RoomTypeRow, Blank
    <3>4. \A e \in Editors : page[e].saving \in BOOLEAN
      BY <3>1 DEF RoomTypePage
    <3> QED BY <2>3, <3>2, <3>3, <3>4, RoomTypeFields
  <2>4. CASE section = "reviews"
    <3>1. table \in ReviewRow /\ page \in [Editors -> ReviewPage]
      BY <1>1, <2>4 DEF ReviewsOK
    <3>2. /\ table.status \in {"ABSENT", "DELETED"} \/ table.status \in Columns(section)["status"]
          /\ table.isFeatured \in Columns(section)["isFeatured"]
      BY <2>4, <3>1 DEF ReviewRow, Columns, ReviewColumns
    <3>3. \A e \in Editors : page[e].saving \in BOOLEAN
      BY <3>1 DEF ReviewPage
    <3> QED BY <2>4, <3>2, <3>3, OtherFields
  <2>5. CASE section = "settings"
    <3>1. table \in SettingForm /\ page \in [Editors -> SettingPage]
      BY <1>1, <2>5 DEF SettingsOK
    <3>2. table.gstPct \in Columns(section)["gstPct"] /\ table.minNights \in Columns(section)["minNights"]
      BY <2>5, <3>1 DEF SettingForm, Columns, SettingColumns
    <3>3. \A e \in Editors : page[e].saving \in BOOLEAN
      BY <3>1 DEF SettingPage
    <3> QED BY <2>5, <3>2, <3>3, OtherFields
  <2>6. CASE section \in Collections
    <3>1. table \in [none: {"none"}] /\ page \in [Editors -> ShelfPage]
      BY <1>1, <2>6 DEF ShelfOK
    <3>2. table.none \in Columns(section)["none"] /\ section # "roomTypes"
      BY <2>6, <3>1 DEF Columns, Collections
    <3>3. \A e \in Editors : page[e].saving \in BOOLEAN
      BY <3>1 DEF ShelfPage
    <3> QED BY <2>6, <3>2, <3>3, OtherFields
  <2> HIDE DEF Goal
  <2> QED BY <2>1, <2>2, <2>3, <2>4, <2>5, <2>6 DEF Sections, Collections
<1> QED
  BY <1>1, OffersInit, OffersStep, WorkInit, WorkStep, CoversInit, CoversStep,
     RestInit, ReviewsStep, SettingsStep, ShelfStep, PTL DEF CatalogueSpec

-----------------------------------------------------------------------------
(* Figures. *)

USE FiguresAssumption DEF Days, clock

\* A row of the reservations and of its payment.
Row ==
    [status: Statuses, checkIn: Days, checkOut: Days, roomType: RoomTypes, roomCount: Nat,
     source: STRING, totalAmount: Nat, amountPaid: Nat, captured: Nat, payment: PaymentStatus,
     refundedOn: Instants, room: Rooms \cup {NoRoom}, createdAt: Instants]

\* The inductive invariant of the tables: nights in order, no more paid than is to
\* pay, and a room for whoever is or was in the house.
RowsOK ==
    /\ now \in Instants /\ zone \in Zones /\ activeTypes \subseteq RoomTypes
    /\ rooms \in [Rooms -> RoomStatus]
    /\ enquiries \in [Enquiries -> {NoRow} \cup [status: EnquiryStatus, createdAt: Instants]]
    /\ reservations \in [Reservations -> {NoRow} \cup Row]
    /\ \A r \in Booked :
         /\ reservations[r].checkIn < reservations[r].checkOut
         /\ reservations[r].amountPaid <= reservations[r].totalAmount
         /\ reservations[r].status \in {"CHECKED_IN", "CHECKED_OUT"} => reservations[r].room \in Rooms

\* A row that exists is a row of the table.
LEMMA BookedRow ==
    ASSUME RowsOK, NEW r \in Booked
    PROVE  r \in Reservations /\ reservations[r] \in Row
  BY DEF RowsOK, Booked, NoRow

\* A row that is written again.
LEMMA RowStep ==
    ASSUME RowsOK, NEW r \in Reservations, NEW row \in Row,
           row.checkIn < row.checkOut, row.amountPaid <= row.totalAmount,
           row.status \in {"CHECKED_IN", "CHECKED_OUT"} => row.room \in Rooms,
           reservations' = [reservations EXCEPT ![r] = row],
           rooms' \in [Rooms -> RoomStatus], UNCHANGED <<enquiries, activeTypes, clock>>
    PROVE  RowsOK'
<1>1. reservations' \in [Reservations -> {NoRow} \cup Row]
  BY DEF RowsOK
<1>2. ASSUME NEW q \in Booked'
      PROVE  /\ reservations'[q].checkIn < reservations'[q].checkOut
             /\ reservations'[q].amountPaid <= reservations'[q].totalAmount
             /\ reservations'[q].status \in {"CHECKED_IN", "CHECKED_OUT"} => reservations'[q].room \in Rooms
  <2>1. CASE q = r
    BY <2>1 DEF RowsOK
  <2>2. CASE q # r
    <3>1. reservations'[q] = reservations[q] /\ q \in Booked
      BY <1>2, <2>2 DEF RowsOK, Booked
    <3> QED BY <3>1 DEF RowsOK
  <2> QED BY <2>1, <2>2
<1> QED
  BY <1>1, <1>2 DEF RowsOK

\* The empty tables are tables.
LEMMA RowsInit == FiguresInit => RowsOK
  BY DEF FiguresInit, RowsOK, Booked, RoomStatus, NoRow, Instants

\* Every step of the house keeps the rows well formed.
LEMMA RowsStep == RowsOK /\ [FiguresNext]_figureVars => RowsOK'
<1> SUFFICES ASSUME RowsOK, [FiguresNext]_figureVars PROVE RowsOK'
  OBVIOUS
<1>a. /\ now \in Instants /\ rooms \in [Rooms -> RoomStatus]
      /\ reservations \in [Reservations -> {NoRow} \cup Row]
  BY DEF RowsOK
<1>1. ASSUME NEW r \in Reservations, NEW b \in Bookings, Book(r, b) PROVE RowsOK'
  <2> DEFINE row == [status |-> "PENDING_PAYMENT", checkIn |-> b.checkIn, checkOut |-> b.checkOut,
          roomType |-> b.roomType, roomCount |-> b.roomCount, source |-> b.source,
          totalAmount |-> b.totalAmount, amountPaid |-> 0, captured |-> 0, payment |-> "NONE",
          refundedOn |-> now, room |-> NoRoom, createdAt |-> now]
  <2>1. b \in BookingRequest /\ b.checkIn < b.checkOut
    OBVIOUS
  <2>2. row \in Row
    BY <1>a, <2>1 DEF Row, BookingRequest, Statuses, PaymentStatus
  <2>3. /\ row.checkIn < row.checkOut /\ row.amountPaid <= row.totalAmount
        /\ row.status \notin {"CHECKED_IN", "CHECKED_OUT"}
    BY <2>1 DEF BookingRequest
  <2>4. reservations' = [reservations EXCEPT ![r] = row] /\ UNCHANGED <<rooms, enquiries, activeTypes, clock>>
    BY <1>1 DEF Book
  <2> HIDE DEF row
  <2> QED BY <1>a, <2>2, <2>3, <2>4, RowStep
<1>2. ASSUME NEW r \in Reservations, Capture(r) PROVE RowsOK'
  <2>1. r \in Booked /\ UNCHANGED <<rooms, enquiries, activeTypes, clock>>
    BY <1>2 DEF Capture, With
  <2>2. reservations[r] \in Row
    BY <2>1, BookedRow
  <2> DEFINE total == reservations[r].totalAmount
             row == [reservations[r] EXCEPT !.status = "CONFIRMED", !.payment = "CAPTURED",
                                            !.amountPaid = total, !.captured = total]
  <2>5. reservations[r].checkIn < reservations[r].checkOut
    BY <2>1 DEF RowsOK
  <2>3. /\ row \in Row /\ row.checkIn < row.checkOut /\ row.amountPaid <= row.totalAmount
        /\ row.status \notin {"CHECKED_IN", "CHECKED_OUT"}
    <3>1. total \in Nat /\ total <= total
      BY <2>2 DEF Row
    <3>2. row \in Row
      BY <2>2, <3>1 DEF Row, Statuses, PaymentStatus
    <3>3. /\ row.checkIn = reservations[r].checkIn /\ row.checkOut = reservations[r].checkOut
          /\ row.amountPaid = total /\ row.totalAmount = total /\ row.status = "CONFIRMED"
      BY <2>2 DEF Row
    <3> QED
      BY <2>5, <3>1, <3>2, <3>3
  <2>4. reservations' = [reservations EXCEPT ![r] = row]
    BY <1>2, <1>a, <2>2 DEF Capture, Row
  <2> HIDE DEF row
  <2> QED BY <1>a, <2>1, <2>3, <2>4, RowStep
<1>3. ASSUME NEW r \in Reservations, NEW status \in Statuses, r \in Booked, SetStatus(r, status),
             status \in {"CHECKED_IN", "CHECKED_OUT"} => reservations[r].room \in Rooms,
             rooms' \in [Rooms -> RoomStatus], UNCHANGED <<enquiries, activeTypes, clock>>
      PROVE  RowsOK'
  <2>2. reservations[r] \in Row
    BY <1>3, BookedRow
  <2> DEFINE row == [reservations[r] EXCEPT !.status = status]
  <2>3. /\ row \in Row /\ row.checkIn < row.checkOut /\ row.amountPaid <= row.totalAmount
        /\ row.status \in {"CHECKED_IN", "CHECKED_OUT"} => row.room \in Rooms
    BY <1>3, <2>2 DEF Row, RowsOK
  <2>4. reservations' = [reservations EXCEPT ![r] = row]
    BY <1>3 DEF SetStatus
  <2> HIDE DEF row
  <2> QED BY <1>a, <1>3, <2>3, <2>4, RowStep
<1>4. ASSUME NEW r \in Reservations, Expire(r) \/ Cancel(r) PROVE RowsOK'
  BY <1>4, <1>3, <1>a DEF Expire, Cancel, With, Statuses
<1>5. ASSUME NEW r \in Reservations, CheckIn(r) PROVE RowsOK'
  <2>1. r \in Booked /\ reservations[r].room # NoRoom
    BY <1>5 DEF CheckIn, With
  <2>2. reservations[r].room \in Rooms
    BY <2>1, BookedRow DEF Row
  <2>3. rooms' \in [Rooms -> RoomStatus]
    BY <1>5, <1>a, <2>2 DEF CheckIn, RoomStatus
  <2> QED BY <1>5, <1>3, <2>1, <2>2, <2>3 DEF CheckIn, Statuses
<1>6. ASSUME NEW r \in Reservations, CheckOut(r) PROVE RowsOK'
  <2>1. r \in Booked /\ reservations[r].status = "CHECKED_IN"
    BY <1>6 DEF CheckOut, With
  <2>2. reservations[r].room \in Rooms
    BY <2>1 DEF RowsOK
  <2>3. rooms' \in [Rooms -> RoomStatus]
    BY <1>6, <1>a, <2>2 DEF CheckOut, RoomStatus
  <2> QED BY <1>6, <1>3, <2>1, <2>2, <2>3 DEF CheckOut, Statuses
<1>7. ASSUME NEW r \in Reservations, NEW amount \in 1..2, Refund(r, amount) PROVE RowsOK'
  <2>1. /\ r \in Booked /\ amount <= reservations[r].amountPaid
        /\ UNCHANGED <<rooms, enquiries, activeTypes, clock>>
    BY <1>7 DEF Refund
  <2>2. reservations[r] \in Row
    BY <2>1, BookedRow
  <2> DEFINE paid == reservations[r].amountPaid - amount
             payment == IF amount = reservations[r].captured THEN "REFUNDED" ELSE "PARTIALLY_REFUNDED"
             row == [reservations[r] EXCEPT !.amountPaid = paid, !.refundedOn = now, !.payment = payment]
  <2>6. /\ reservations[r].amountPaid <= reservations[r].totalAmount
        /\ reservations[r].checkIn < reservations[r].checkOut
        /\ reservations[r].status \in {"CHECKED_IN", "CHECKED_OUT"} => reservations[r].room \in Rooms
    BY <2>1 DEF RowsOK
  <2>7. reservations[r].amountPaid \in Nat /\ reservations[r].totalAmount \in Nat
    BY <2>2 DEF Row
  <2>8. paid \in Nat /\ paid <= reservations[r].totalAmount
    BY <2>1, <2>6, <2>7
  <2>3. /\ paid \in Nat /\ paid <= reservations[r].totalAmount /\ payment \in PaymentStatus
        /\ reservations[r].checkIn < reservations[r].checkOut
        /\ reservations[r].status \in {"CHECKED_IN", "CHECKED_OUT"} => reservations[r].room \in Rooms
    BY <2>6, <2>8 DEF PaymentStatus
  <2>4. reservations' = [reservations EXCEPT ![r] = row]
    BY <1>7, <1>a, <2>2 DEF Refund, Row
  <2> HIDE DEF paid, payment
  <2>5. /\ row \in Row /\ row.checkIn < row.checkOut /\ row.amountPaid <= row.totalAmount
        /\ row.status \in {"CHECKED_IN", "CHECKED_OUT"} => row.room \in Rooms
    BY <1>a, <2>2, <2>3 DEF Row
  <2> HIDE DEF row
  <2> QED BY <1>a, <2>1, <2>4, <2>5, RowStep
<1>8. ASSUME NEW r \in Reservations, NEW room \in Rooms, AssignRoom(r, room) PROVE RowsOK'
  <2>1. /\ r \in Booked /\ reservations[r].status = "CONFIRMED"
        /\ UNCHANGED <<rooms, enquiries, activeTypes, clock>>
    BY <1>8 DEF AssignRoom, With
  <2>2. reservations[r] \in Row
    BY <2>1, BookedRow
  <2> DEFINE row == [reservations[r] EXCEPT !.room = room]
  <2>3. /\ row \in Row /\ row.checkIn < row.checkOut /\ row.amountPaid <= row.totalAmount
        /\ row.status \in {"CHECKED_IN", "CHECKED_OUT"} => row.room \in Rooms
    BY <2>1, <2>2 DEF Row, RowsOK
  <2>4. reservations' = [reservations EXCEPT ![r] = row]
    BY <1>8 DEF AssignRoom
  <2> HIDE DEF row
  <2> QED BY <1>a, <2>1, <2>3, <2>4, RowStep
<1>9. ASSUME NEW r \in Reservations, NEW night \in Days, Extend(r, night) PROVE RowsOK'
  <2>1. /\ r \in Booked /\ night = reservations[r].checkOut /\ night < LastDay
        /\ UNCHANGED <<rooms, enquiries, activeTypes, clock>>
    BY <1>9 DEF Extend, With
  <2>2. reservations[r] \in Row
    BY <2>1, BookedRow
  <2> DEFINE total == reservations[r].totalAmount + 1
             row == [reservations[r] EXCEPT !.checkOut = night + 1, !.totalAmount = total]
  <2>3. /\ total \in Nat /\ night + 1 \in Days /\ reservations[r].checkIn < night + 1
        /\ reservations[r].amountPaid <= total
        /\ reservations[r].status \in {"CHECKED_IN", "CHECKED_OUT"} => reservations[r].room \in Rooms
    BY <2>1, <2>2 DEF Row, RowsOK
  <2>4. reservations' = [reservations EXCEPT ![r] = row]
    BY <1>9, <1>a, <2>2 DEF Extend, Row
  <2> HIDE DEF total
  <2>5. /\ row \in Row /\ row.checkIn < row.checkOut /\ row.amountPaid <= row.totalAmount
        /\ row.status \in {"CHECKED_IN", "CHECKED_OUT"} => row.room \in Rooms
    BY <2>2, <2>3 DEF Row
  <2> HIDE DEF row
  <2> QED BY <1>a, <2>1, <2>4, <2>5, RowStep
<1>10. ASSUME NEW room \in Rooms, NEW status \in StaffSets, SetRoomStatus(room, status) PROVE RowsOK'
  BY <1>10 DEF SetRoomStatus, RowsOK, Booked
<1>11. ASSUME NEW e \in Enquiries, CreateEnquiry(e) PROVE RowsOK'
  BY <1>11 DEF CreateEnquiry, RowsOK, Booked, EnquiryStatus
<1>12. ASSUME NEW e \in Enquiries, NEW status \in EnquiryStatus, SetEnquiryStatus(e, status) PROVE RowsOK'
  BY <1>12 DEF SetEnquiryStatus, RowsOK, Booked, Asked, NoRow
<1>13. CASE TimePasses
  BY <1>13 DEF TimePasses, RowsOK, Booked, Instants
<1>15. ASSUME NEW type \in RoomTypes, NEW status, SetRoomTypeStatus(type, status) PROVE RowsOK'
  BY <1>15 DEF SetRoomTypeStatus, RowsOK, Booked
<1>14. CASE UNCHANGED figureVars
  BY <1>14 DEF figureVars, RowsOK, Booked
<1> QED
  BY <1>1, <1>2, <1>4, <1>5, <1>6, <1>7, <1>8, <1>9, <1>10, <1>11, <1>12, <1>13, <1>14, <1>15
     DEF FiguresNext, ReservationNext, HouseNext

\* The report's sets of reservations are finite sets of rows.
LEMMA ReportRows ==
    ASSUME RowsOK, NEW r \in Booked
    PROVE  /\ reservations[r].checkIn \in Nat /\ reservations[r].checkOut \in Nat
           /\ reservations[r].checkIn < reservations[r].checkOut
           /\ reservations[r].roomType \in RoomTypes
           /\ reservations[r].roomCount \in Nat
           /\ reservations[r].totalAmount \in Nat /\ reservations[r].amountPaid \in Nat
           /\ reservations[r].amountPaid <= reservations[r].totalAmount
<1>1. reservations[r] \in Row
  BY BookedRow
<1>2. reservations[r].checkIn < reservations[r].checkOut /\ reservations[r].amountPaid <= reservations[r].totalAmount
  BY DEF RowsOK
<1> QED
  BY <1>1, <1>2 DEF Row

\* The reservations that were stayed are some of those that exist, and finitely many.
LEMMA StayedRows == Stayed \subseteq Booked /\ Booked \subseteq Reservations /\ IsFiniteSet(Booked) /\ IsFiniteSet(Stayed)
<1>1. Stayed \subseteq Booked /\ Booked \subseteq Reservations
  BY DEF Stayed, With, Booked
<1> QED
  BY <1>1, FS_Subset

\* The loop of the report goes through the days of the range on which the guest stays.
LEMMA BucketedIs ==
    ASSUME RowsOK, NEW range, range.from \in Int, range.to \in Int, range.from <= range.to,
           NEW r \in Stayed
    PROVE  /\ r \in Near(range) =>
                Bucketed(r, range) =
                    {d \in range.from .. range.to : reservations[r].checkIn <= d /\ d < reservations[r].checkOut}
           /\ \A d \in range.from .. range.to :
                reservations[r].checkIn <= d /\ d < reservations[r].checkOut => r \in Near(range)
<1>1. range.from \in Int /\ range.to \in Int /\ range.from <= range.to
  OBVIOUS
<1>2. reservations[r].checkIn \in Nat /\ reservations[r].checkOut \in Nat
  BY StayedRows, ReportRows
<1> DEFINE ci == reservations[r].checkIn
           co == reservations[r].checkOut
<1>3. Bucketed(r, range) = {d \in range.from .. range.to : ci <= d /\ d < co}
  <2>1. Bucketed(r, range) = Greater(ci, range.from) .. (Lesser(co, range.to + 1) - 1)
    BY DEF Bucketed, Start, End
  <2> HIDE DEF ci, co
  <2> QED BY <1>1, <1>2, <2>1 DEF Greater, Lesser, ci, co
<1>4. \A d \in range.from .. range.to : ci <= d /\ d < co => ci < range.to + 2 /\ co > range.from
  BY <1>1, <1>2
<1> QED
  BY <1>3, <1>4 DEF Near

\* The first half of the report's promise: the chart of days.
LEMMA ByDayIs ==
    ASSUME RowsOK, NEW range, range.from \in Int, range.to \in Int, range.from <= range.to, Rooms # {}
    PROVE  OccupancyByDay(range) =
             [d \in range.from .. range.to |-> Cardinality(OnNight(Stayed, d))]
<1> DEFINE D == range.from .. range.to
<1>1. Near(range) \subseteq Stayed
  BY DEF Near
<1>2. \A r \in Near(range) : Bucketed(r, range) = {d \in D : r \in OnNight(Stayed, d)}
  BY <1>1, BucketedIs DEF OnNight
<1>3. \A r \in Stayed, d \in D : r \in OnNight(Stayed, d) => r \in Near(range)
  BY BucketedIs DEF OnNight
<1>9. \A d : OnNight(Stayed, d) \subseteq Stayed
  BY DEF OnNight
<1> HIDE DEF D
<1>4. D \cup UNION {Bucketed(r, range) : r \in Near(range)} = D
  BY <1>2
<1>5. \A d \in D : {r \in Near(range) : d \in Bucketed(r, range)} = OnNight(Stayed, d)
  BY <1>1, <1>2, <1>3, <1>9
<1>6. OccupancyByDay(range) = [d \in D \cup UNION {Bucketed(r, range) : r \in Near(range)} |->
        Cardinality({r \in Near(range) : d \in Bucketed(r, range)})]
  BY DEF OccupancyByDay, D
<1>7. OccupancyByDay(range) = [d \in D |-> Cardinality({r \in Near(range) : d \in Bucketed(r, range)})]
  BY <1>4, <1>6
<1>8. OccupancyByDay(range) = [d \in D |-> Cardinality(OnNight(Stayed, d))]
  BY <1>5, <1>7
<1> QED
  BY <1>8 DEF D

\* The reservations the room report reads are finitely many of those that were stayed.
LEMMA NearRows ==
    ASSUME NEW range
    PROVE  /\ NearActive(range) \subseteq OfTypes(activeTypes)
           /\ IsFiniteSet(NearActive(range))
           /\ OfTypes(activeTypes) \subseteq Stayed
<1>1. NearActive(range) \subseteq OfTypes(activeTypes) /\ OfTypes(activeTypes) \subseteq Stayed
  BY DEF Near, NearActive, OfTypes
<1> QED
  BY <1>1, StayedRows, FS_Subset

\* The second half: the report by room type counts the nights of the active types.
LEMMA SameNights ==
    ASSUME RowsOK, NEW range, range.from \in Int, range.to \in Int, range.from <= range.to
    PROVE  SumFunction([type \in activeTypes |-> OccupancyByRoomType(range)[type].nights])
             = SumFunction([d \in range.from .. range.to |->
                               Cardinality(OnNight(OfTypes(activeTypes), d))])
<1> DEFINE D == range.from .. range.to
           N == NearActive(range)
           B == [r \in N |-> Bucketed(r, range)]
           c == [d \in D |-> Cardinality(OnNight(OfTypes(activeTypes), d))]
           hits == [d \in D |-> {r \in N : d \in Bucketed(r, range)}]
           w == [r \in N |-> Cardinality(B[r])]
           length == [r \in N |-> Greater(0, End(r, range) - Start(r, range))]
           nights == [type \in activeTypes |-> OccupancyByRoomType(range)[type].nights]
<1>1. range.from \in Int /\ range.to \in Int /\ IsFiniteSet(D)
  BY FS_Interval
<1>2. N \subseteq Stayed /\ IsFiniteSet(N) /\ N \subseteq Near(range)
  BY NearRows DEF NearActive
<1>3. \A r \in N : B[r] \subseteq D
  BY <1>2, BucketedIs
<1>4. \A d \in D : c[d] = Cardinality(hits[d])
  <2> SUFFICES ASSUME NEW d \in D PROVE OnNight(OfTypes(activeTypes), d) = hits[d]
    OBVIOUS
  <2>1. hits[d] \subseteq OnNight(OfTypes(activeTypes), d)
    <3> SUFFICES ASSUME NEW r \in N, d \in Bucketed(r, range)
                 PROVE  r \in OnNight(OfTypes(activeTypes), d)
      OBVIOUS
    <3>1. r \in OfTypes(activeTypes) /\ r \in Stayed /\ r \in Near(range)
      BY <1>2, NearRows
    <3>2. reservations[r].checkIn <= d /\ d < reservations[r].checkOut
      BY <3>1, BucketedIs
    <3> QED BY <3>1, <3>2 DEF OnNight
  <2>2. OnNight(OfTypes(activeTypes), d) \subseteq hits[d]
    <3> SUFFICES ASSUME NEW r \in OfTypes(activeTypes),
                        reservations[r].checkIn <= d, d < reservations[r].checkOut
                 PROVE  r \in N /\ d \in Bucketed(r, range)
      BY DEF OnNight
    <3>1. r \in Stayed /\ reservations[r].roomType \in activeTypes
      BY DEF OfTypes
    <3>2. r \in Near(range) /\ d \in Bucketed(r, range)
      BY <3>1, BucketedIs
    <3> QED BY <3>1, <3>2 DEF NearActive
  <2> QED BY <2>1, <2>2
<1>5. SumFunctionOnSet(c, D) = SumFunctionOnSet(w, N)
  <2>1. /\ \A d \in D : hits[d] \subseteq N
        /\ \A d \in D, r \in N : r \in hits[d] <=> d \in B[r]
        /\ \A r \in N : w[r] = Cardinality(B[r])
    OBVIOUS
  <2>2. \A r \in N : B[r] \subseteq D
    BY <1>3
  <2> HIDE DEF c, B, w, N, D, hits
  <2>3. IsFiniteSet(N) /\ IsFiniteSet(D)
    BY <1>1, <1>2
  <2>4. \A d \in D : hits[d] \subseteq N
    BY <2>1
  <2>5. \A d \in D, r \in N : r \in hits[d] <=> d \in B[r]
    BY <2>1
  <2>6. \A d \in D : c[d] = Cardinality(hits[d])
    BY <1>4
  <2>7. \A r \in N : w[r] = Cardinality(B[r])
    BY <2>1
  <2> HIDE FiguresAssumption
  <2> QED BY ONLY <2>2, <2>3, <2>4, <2>5, <2>6, <2>7, SumCounts
<1>6. \A r \in N : w[r] \in Int /\ w[r] = length[r]
  <2> TAKE r \in N
  <2>1. reservations[r].checkIn \in Nat /\ reservations[r].checkOut \in Nat
    BY <1>2, StayedRows, ReportRows
  <2> DEFINE a == Start(r, range)
             b == End(r, range)
  <2>2. a \in Int /\ b \in Int
    BY <1>1, <2>1 DEF Start, End, Greater, Lesser
  <2>3. B[r] = a .. (b - 1)
    BY DEF Bucketed
  <2> HIDE DEF a, b, B, D
  <2>4. Cardinality(a .. (b - 1)) = IF a > b - 1 THEN 0 ELSE (b - 1) - a + 1
    BY <2>2, FS_Interval
  <2>5. Cardinality(a .. (b - 1)) = Greater(0, b - a)
    BY <2>2, <2>4 DEF Greater
  <2>6. Greater(0, b - a) \in Int
    BY <2>2 DEF Greater
  <2> QED BY <2>3, <2>5, <2>6 DEF a, b
<1>7. SumFunctionOnSet(w, N) = SumFunctionOnSet(length, N)
  <2> HIDE DEF w, length, N
  <2> QED BY <1>2, <1>6, SumSame
<1>8. \A type \in activeTypes :
        nights[type] = SumFunctionOnSet(length, {r \in N : reservations[r].roomType = type})
  <2> TAKE type \in activeTypes
  <2> DEFINE M == {r \in N : reservations[r].roomType = type}
             part == [r \in M |-> Greater(0, End(r, range) - Start(r, range))]
  <2>1. nights[type] = SumFunctionOnSet(part, M)
    <3>1. nights[type] = NightsOfType(type, range)
      BY DEF OccupancyByRoomType
    <3>2. NightsOfType(type, range) = SumFunction(part)
      BY DEF NightsOfType
    <3>3. DOMAIN part = M
      OBVIOUS
    <3> HIDE DEF part, M
    <3> QED BY <3>1, <3>2, <3>3 DEF SumFunction
  <2>2. IsFiniteSet(M) /\ \A r \in M : part[r] \in Int /\ part[r] = length[r]
    <3>1. \A r \in N : length[r] \in Int
      BY <1>6
    <3>2. IsFiniteSet(M)
      BY <1>2, FS_Subset
    <3> QED BY <3>1, <3>2
  <2>3. SumFunctionOnSet(part, M) = SumFunctionOnSet(length, M)
    <3> HIDE DEF part, length, M
    <3> QED BY <2>2, SumSame
  <2> QED BY <2>1, <2>3
<1>9. SumFunctionOnSet(nights, activeTypes) = SumFunctionOnSet(length, N)
  <2> DEFINE type == [r \in N |-> reservations[r].roomType]
  <2>1. \A r \in N : type[r] \in activeTypes /\ length[r] \in Int
    <3>1. \A r \in N : reservations[r].roomType \in activeTypes
      BY DEF NearActive
    <3>2. \A r \in N : length[r] \in Int
      BY <1>6
    <3> QED BY <3>1, <3>2
  <2> DEFINE group == [k \in activeTypes |-> {r \in N : reservations[r].roomType = k}]
  <2>2. /\ \A k \in activeTypes : group[k] \subseteq N
        /\ \A k \in activeTypes, r \in N : r \in group[k] <=> type[r] = k
        /\ \A k \in activeTypes : nights[k] = SumFunctionOnSet(length, group[k])
    <3> HIDE DEF nights, length
    <3> QED BY <1>8
  <2>3. IsFiniteSet(activeTypes)
    BY FS_Subset DEF RowsOK
  <2> HIDE DEF nights, length, type, N, group
  <2> QED BY <1>2, <2>1, <2>2, <2>3, SumByKey
<1>10. SumFunction(c) = SumFunctionOnSet(c, D) /\ SumFunction(nights) = SumFunctionOnSet(nights, activeTypes)
  BY DEF SumFunction
<1> QED
  <2> HIDE DEF c, D, nights, w, length, N
  <2>1. SumFunction(nights) = SumFunction(c)
    BY <1>5, <1>7, <1>9, <1>10
  <2> QED BY <2>1 DEF c, nights, D

\* The occupancy report counts every stay on its nights and on no others, and the
\* report by room type counts the same nights of the types that are active.
THEOREM StaysOnTheirNights == FiguresSpec => []EveryStayOnItsNights
<1>1. RowsOK => EveryStayOnItsNights
  <2> SUFFICES ASSUME RowsOK, NEW range \in Ranges
               PROVE  LET byType == OccupancyByRoomType(range) IN
                      /\ Rooms # {} => OccupancyByDay(range) =
                             [d \in range.from .. range.to |-> Cardinality(OnNight(Stayed, d))]
                      /\ DOMAIN byType = activeTypes
                      /\ SumFunction([type \in activeTypes |-> byType[type].nights])
                           = SumFunction([d \in range.from .. range.to |->
                                             Cardinality(OnNight(OfTypes(activeTypes), d))])
    BY DEF EveryStayOnItsNights
  <2>1. range.from \in Int /\ range.to \in Int /\ range.from <= range.to
    BY DEF Ranges
  <2>2. DOMAIN OccupancyByRoomType(range) = activeTypes
    BY DEF OccupancyByRoomType
  <2> QED BY <2>1, <2>2, ByDayIs, SameNights
<1>2. QED
  BY <1>1, RowsInit, RowsStep, PTL DEF FiguresSpec

LEMMA DivIs ==
    ASSUME NEW x \in Nat, NEW k \in Nat, k > 0
    PROVE  /\ x \div k \in Int /\ x % k \in Int
           /\ x = k * (x \div k) + (x % k) /\ 0 <= x % k /\ x % k < k
  OBVIOUS

\* Rounding keeps the order of two numbers.
LEMMA RoundedMonotone ==
    ASSUME NEW a \in Nat, NEW b \in Nat, a <= b, NEW n \in Nat
    PROVE  Rounded(a, n) <= Rounded(b, n)
<1>1. CASE n = 0
  BY <1>1 DEF Rounded
<1>2. CASE n # 0
  <2> DEFINE x == 2 * a + n
             y == 2 * b + n
             k == 2 * n
             q == x \div k
             r == y \div k
  <2>1. x \in Nat /\ y \in Nat /\ k \in Nat /\ k > 0 /\ x <= y
    BY <1>2
  <2>2. Rounded(a, n) = q /\ Rounded(b, n) = r
    BY <1>2 DEF Rounded
  <2> HIDE DEF x, y, k
  <2>3. q \in Int /\ r \in Int /\ k * q <= x /\ y < k * r + k
    BY <2>1, DivIs
  <2> HIDE DEF q, r
  <2>4. ASSUME q > r PROVE FALSE
    <3>1. k * q >= k * (r + 1)
      BY <2>1, <2>3, <2>4
    <3>2. k * (r + 1) = k * r + k
      BY <2>1, <2>3
    <3> QED BY <2>1, <2>3, <3>1, <3>2
  <2> QED BY <2>2, <2>3, <2>4
<1> QED BY <1>1, <1>2

\* A statement's rows are finite sets of reservations.
LEMMA StatusRows ==
    ASSUME NEW status, NEW T \in SUBSET With(status)
    PROVE  With(status) \subseteq Booked /\ IsFiniteSet(With(status)) /\ IsFiniteSet(T)
<1>1. With(status) \subseteq Booked
  BY DEF With
<1>2. IsFiniteSet(With(status))
  BY <1>1, StayedRows, FS_Subset
<1> QED
  BY <1>1, <1>2, FS_Subset

\* Where every booking is of one room, rooms are bookings.
LEMMA OneRoomEach ==
    ASSUME NEW T, IsFiniteSet(T), \A r \in T : reservations[r].roomCount = 1
    PROVE  Total("roomCount", T) = Cardinality(T)
<1> DEFINE g == [r \in T |-> reservations[r]["roomCount"]]
<1>1. Total("roomCount", T) = SumFunctionOnSet(g, T)
  <2>1. Total("roomCount", T) = SumFunction(g) /\ DOMAIN g = T
    BY DEF Total
  <2> HIDE DEF g
  <2> QED BY <2>1 DEF SumFunction
<1>2. \A r \in T : g[r] = 1
  OBVIOUS
<1> HIDE DEF g
<1> QED
  BY <1>1, <1>2, SumOnes

\* The calendar sends a block for each of its rows.
LEMMA CalendarCounts ==
    ASSUME RowsOK, NEW range
    PROVE  Cardinality(GetCalendarView(range))
             = Cardinality(Meeting(Stayed, StartOfDay(Midnight(range.from)), StartOfDay(Midnight(range.to)) + 2))
<1> DEFINE from == StartOfDay(Midnight(range.from))
           end == StartOfDay(Midnight(range.to)) + 2
           T == Over({"CONFIRMED", "CHECKED_IN", "CHECKED_OUT", "HELD"}, from, end)
           block(r) == [reservation |-> r, status |-> reservations[r].status,
                        checkIn |-> reservations[r].checkIn, checkOut |-> reservations[r].checkOut,
                        room |-> reservations[r].room]
           f == [r \in T |-> block(r)]
           V == {block(r) : r \in T}
<1>1. With({"CONFIRMED", "CHECKED_IN", "CHECKED_OUT", "HELD"}) = Stayed
  <2>1. \A r \in Booked : reservations[r].status # "HELD"
    BY BookedRow DEF Row, Statuses
  <2> QED BY <2>1 DEF Stayed, With
<1>2. T = Meeting(Stayed, from, end)
  BY <1>1 DEF Over
<1>3. IsFiniteSet(T)
  BY <1>2, StayedRows, FS_Subset DEF Meeting
<1>4. f \in Bijection(T, V)
  <2>1. f \in [T -> V]
    OBVIOUS
  <2>2. \A r \in T : f[r].reservation = r
    OBVIOUS
  <2>3. \A a, b \in T : f[a] = f[b] => a = b
    <3> HIDE DEF f, T
    <3> QED BY <2>2
  <2>4. \A v \in V : \E r \in T : f[r] = v
    OBVIOUS
  <2> HIDE DEF f, T, V
  <2> QED BY <2>1, <2>3, <2>4 DEF Bijection, Injection, Surjection, IsInjective
<1>5. GetCalendarView(range) = V
  BY DEF GetCalendarView
<1>6. Cardinality(V) = Cardinality(T)
  <2> HIDE DEF f, T, V
  <2> QED BY <1>3, <1>4, FS_Bijection DEF ExistsBijection
<1> HIDE DEF T, V
<1> QED
  BY <1>2, <1>5, <1>6

\* Where the server's midnights are.
LEMMA LocalMidnights ==
    ASSUME RowsOK, NEW d \in Int
    PROVE  /\ zone \in -1 .. 1 /\ LocalDay(now) \in Int
           /\ Today = 2 * LocalDay(now) - zone
           /\ StartOfDay(Midnight(d)) = IF zone = 0 THEN 2 * d ELSE 2 * d - 1
<1>1. zone \in -1 .. 1 /\ now \in Nat
  <2>1. zone \in Zones /\ now \in 0 .. LastNow
    BY DEF RowsOK, Instants
  <2>2. zone \in -1 .. 1
    BY <2>1
  <2>3. now \in Nat
    BY <2>1
  <2> QED BY <2>2, <2>3
<1>2. LocalDay(now) \in Int
  BY <1>1 DEF LocalDay
<1>3. Today = 2 * LocalDay(now) - zone
  BY DEF Today, StartOfDay
<1>4. StartOfDay(Midnight(d)) = 2 * ((2 * d + zone) \div 2) - zone
  BY DEF StartOfDay, LocalDay, Midnight
<1>5. StartOfDay(Midnight(d)) = IF zone = 0 THEN 2 * d ELSE 2 * d - 1
  <2> DEFINE q == (2 * d + zone) \div 2
  <2>1. 2 * d + zone \in Int
    BY <1>1
  <2>2. q \in Int /\ 2 * q <= 2 * d + zone /\ 2 * d + zone < 2 * q + 2
    BY <2>1
  <2> HIDE DEF q
  <2>3. 2 * q - zone = IF zone = 0 THEN 2 * d ELSE 2 * d - 1
    BY <1>1, <2>2
  <2> QED BY <1>4, <2>3 DEF q
<1> QED
  BY <1>1, <1>2, <1>3, <1>5

\* A day that starts within half a day of UTC's meets every stay of its night, and
\* no other if it starts with UTC's.
LEMMA NightIsMet ==
    ASSUME RowsOK, NEW d \in Int, NEW w \in (2 * d - 1) .. (2 * d + 1)
    PROVE  LET met == Meeting(Stayed, w, w + 2)
               night == OnNight(Stayed, d) IN
           /\ Cardinality(night) <= Cardinality(met)
           /\ w = 2 * d => Cardinality(met) = Cardinality(night)
<1> DEFINE met == Meeting(Stayed, w, w + 2)
           night == OnNight(Stayed, d)
<1>1. \A r \in Stayed : reservations[r].checkIn \in Nat /\ reservations[r].checkOut \in Nat
  BY StayedRows, ReportRows
<1>2. night \subseteq met
  BY <1>1 DEF OnNight, Meeting, Midnight
<1>3. w = 2 * d => met = night
  BY <1>1 DEF OnNight, Meeting, Midnight
<1>4. IsFiniteSet(met)
  BY StayedRows, FS_Subset DEF Meeting
<1> HIDE DEF met, night
<1>5. Cardinality(night) <= Cardinality(met)
  BY <1>2, <1>4, FS_Subset
<1> QED
  BY <1>3, <1>5 DEF met, night

\* The rooms of a day in the dashboard's chart of the week are the guests of the day.
LEMMA TrendIs ==
    ASSUME RowsOK, \A r \in Booked : reservations[r].roomCount = 1, NEW i \in 0..6
    PROVE  OccupancyTrend[i] = Cardinality(Meeting(Stayed, Today + 2 * i, Today + 2 * i + 2))
<1> DEFINE w == Today + 2 * i
           day == Meeting(Stayed, w, w + 2)
           week == Over(OccupyingStatuses \cup {"CHECKED_OUT"}, Today, WeekEnd)
           on == Meeting(week, w, w + 2)
<1>0. Today \in Int
  BY LocalMidnights
<1>1. With(OccupyingStatuses \cup {"CHECKED_OUT"}) = Stayed
  BY DEF With, OccupyingStatuses, Stayed
<1>2. \A r \in Stayed : reservations[r].checkIn \in Nat /\ reservations[r].checkOut \in Nat
  BY StayedRows, ReportRows
<1>3. on = day
  <2>1. week = {r \in Stayed : /\ 2 * reservations[r].checkIn < Today + 14
                               /\ 2 * reservations[r].checkOut > Today}
    BY <1>1 DEF Over, Meeting, Midnight, WeekEnd
  <2> HIDE DEF week
  <2> QED BY <1>0, <1>2, <2>1 DEF Meeting, Midnight
<1>4. OccupancyTrend[i] = Total("roomCount", on)
  BY DEF OccupancyTrend, RoomsOccupiedOn
<1>5. IsFiniteSet(day) /\ \A r \in day : reservations[r].roomCount = 1
  BY StayedRows, FS_Subset DEF Meeting
<1>6. Total("roomCount", day) = Cardinality(day)
  <2> HIDE DEF day
  <2> QED BY <1>5, OneRoomEach
<1> HIDE DEF on, day
<1>7. OccupancyTrend[i] = Cardinality(day)
  BY <1>3, <1>4, <1>6
<1> QED
  BY <1>7 DEF day

\* The figure for today counts the guests of the day who have not left.
LEMMA OccupiedIs ==
    ASSUME RowsOK, \A r \in Booked : reservations[r].roomCount = 1
    PROVE  /\ OccupiedRooms \in Nat /\ OccupancyTrend[0] \in Nat
           /\ Cardinality(Over({"CHECKED_OUT"}, Today, Tomorrow)) \in Nat
           /\ OccupancyTrend[0] = OccupiedRooms + Cardinality(Over({"CHECKED_OUT"}, Today, Tomorrow))
<1> DEFINE In == Over(OccupyingStatuses, Today, Tomorrow)
           Out == Over({"CHECKED_OUT"}, Today, Tomorrow)
           Day == Meeting(Stayed, Today, Tomorrow)
<1>1. In \cup Out = Day /\ In \cap Out = {}
  BY DEF Over, Meeting, With, OccupyingStatuses, Stayed
<1>2. IsFiniteSet(In) /\ IsFiniteSet(Out) /\ In \subseteq Booked
  <2>1. In \subseteq Booked /\ Out \subseteq Booked
    BY DEF Over, Meeting, With
  <2> QED BY <2>1, StayedRows, FS_Subset
<1>3. OccupiedRooms = Cardinality(In)
  <2>1. OccupiedRooms = Total("roomCount", In)
    BY DEF OccupiedRooms
  <2> HIDE DEF In
  <2> QED BY <1>2, <2>1, OneRoomEach
<1>4. OccupancyTrend[0] = Cardinality(Day)
  <2>1. Today \in Int
    BY LocalMidnights
  <2>2. Today + 2 * 0 = Today /\ Today + 2 * 0 + 2 = Tomorrow
    BY <2>1 DEF Tomorrow
  <2>3. OccupancyTrend[0] = Cardinality(Meeting(Stayed, Today + 2 * 0, Today + 2 * 0 + 2))
    BY TrendIs
  <2> QED BY <2>2, <2>3
<1> HIDE DEF In, Out, Day
<1>5. Cardinality(In) \in Nat /\ Cardinality(Out) \in Nat
  BY <1>2, FS_CardinalityType
<1>6. Cardinality(Day) = Cardinality(In) + Cardinality(Out)
  <2>1. Cardinality(In \cup Out) = Cardinality(In) + Cardinality(Out) - Cardinality(In \cap Out)
    BY <1>2, FS_Union
  <2>2. Cardinality(In \cap Out) = 0
    BY <1>1, FS_EmptySet
  <2>3. Cardinality(In \cup Out) = Cardinality(In) + Cardinality(Out)
    BY <1>5, <2>1, <2>2
  <2> QED BY <1>1, <2>3
<1> QED
  BY <1>3, <1>4, <1>5, <1>6 DEF In, Out

\* On every day of the week the dashboard's chart and the calendar miss none of the
\* guests the report counts, and count the same if the server's clock is at UTC; and
\* the dashboard's figure for today lacks the guests who have left early.
THEOREM CountsAgree == FiguresSpec => []CountedAlike
<1>1. RowsOK => CountedAlike
  <2> SUFFICES ASSUME RowsOK, Rooms # {}, \A r \in Booked : reservations[r].roomCount = 1
               PROVE  /\ \A i \in 0..6 :
                           LET d == LocalDay(now) + i
                               oneDay == [from |-> d, to |-> d]
                               reported == OccupancyByDay(oneDay)[d]
                               shown == Cardinality(GetCalendarView(oneDay)) IN
                           /\ reported <= OccupancyTrend[i] /\ reported <= shown
                           /\ zone = 0 => OccupancyTrend[i] = reported /\ shown = reported
                      /\ KpiValues.occupancy <= OccupancyThisWeek[0]
                      /\ OccupancyTrend[0] - OccupiedRooms
                           = Cardinality(Over({"CHECKED_OUT"}, Today, Tomorrow))
    BY DEF CountedAlike
  <2>1. ASSUME NEW i \in 0..6
        PROVE  LET d == LocalDay(now) + i
                   oneDay == [from |-> d, to |-> d]
                   reported == OccupancyByDay(oneDay)[d]
                   shown == Cardinality(GetCalendarView(oneDay)) IN
               /\ reported <= OccupancyTrend[i] /\ reported <= shown
               /\ zone = 0 => OccupancyTrend[i] = reported /\ shown = reported
    <3> DEFINE d == LocalDay(now) + i
               oneDay == [from |-> d, to |-> d]
               night == Cardinality(OnNight(Stayed, d))
               w == Today + 2 * i
               v == StartOfDay(Midnight(d))
    <3>1. d \in Int /\ zone \in -1 .. 1 /\ Today = 2 * LocalDay(now) - zone /\ LocalDay(now) \in Int
      BY LocalMidnights
    <3>2. w = 2 * d - zone
      BY <3>1
    <3>3. v = IF zone = 0 THEN 2 * d ELSE 2 * d - 1
      <4> HIDE DEF d
      <4> QED BY <3>1, LocalMidnights DEF v
    <3>4. OccupancyByDay(oneDay)[d] = night
      <4>1. oneDay.from = d /\ oneDay.to = d /\ oneDay.from \in Int /\ oneDay.to \in Int
            /\ oneDay.from <= oneDay.to
        BY <3>1
      <4> HIDE DEF oneDay, d
      <4>2. OccupancyByDay(oneDay) = [day \in oneDay.from .. oneDay.to |-> Cardinality(OnNight(Stayed, day))]
        BY <4>1, ByDayIs
      <4>3. d \in oneDay.from .. oneDay.to
        BY <3>1, <4>1
      <4> QED BY <4>2, <4>3
    <3>5. OccupancyTrend[i] = Cardinality(Meeting(Stayed, w, w + 2))
      BY TrendIs
    <3>6. Cardinality(GetCalendarView(oneDay)) = Cardinality(Meeting(Stayed, v, v + 2))
      <4>1. oneDay.from = d /\ oneDay.to = d
        OBVIOUS
      <4>2. Cardinality(GetCalendarView(oneDay))
              = Cardinality(Meeting(Stayed, StartOfDay(Midnight(oneDay.from)), StartOfDay(Midnight(oneDay.to)) + 2))
        <5> HIDE DEF oneDay, d
        <5> QED BY CalendarCounts
      <4> HIDE DEF oneDay, d
      <4> QED BY <4>1, <4>2
    <3> HIDE DEF d, oneDay, w, v, night
    <3>7. /\ night <= Cardinality(Meeting(Stayed, w, w + 2))
          /\ w = 2 * d => Cardinality(Meeting(Stayed, w, w + 2)) = night
      <4>1. w \in (2 * d - 1) .. (2 * d + 1)
        BY <3>1, <3>2
      <4> QED BY <3>1, <4>1, NightIsMet DEF night
    <3>8. /\ night <= Cardinality(Meeting(Stayed, v, v + 2))
          /\ v = 2 * d => Cardinality(Meeting(Stayed, v, v + 2)) = night
      <4>1. v \in (2 * d - 1) .. (2 * d + 1)
        BY <3>1, <3>3
      <4> QED BY <3>1, <4>1, NightIsMet DEF night
    <3>9. zone = 0 => w = 2 * d /\ v = 2 * d
      BY <3>1, <3>2, <3>3
    <3> QED BY <3>4, <3>5, <3>6, <3>7, <3>8, <3>9 DEF d, oneDay
  <2>2. /\ OccupiedRooms \in Nat /\ OccupancyTrend[0] \in Nat
        /\ Cardinality(Over({"CHECKED_OUT"}, Today, Tomorrow)) \in Nat
        /\ OccupancyTrend[0] = OccupiedRooms + Cardinality(Over({"CHECKED_OUT"}, Today, Tomorrow))
    BY OccupiedIs
  <2>3. OccupancyTrend[0] - OccupiedRooms = Cardinality(Over({"CHECKED_OUT"}, Today, Tomorrow))
    BY <2>2
  <2>4. KpiValues.occupancy <= OccupancyThisWeek[0]
    <3> DEFINE n == Cardinality(Rooms)
               a == 100 * OccupiedRooms
               b == 100 * OccupancyTrend[0]
    <3>1. KpiValues.occupancy = Rounded(a, n)
      BY DEF KpiValues, DashboardSummary
    <3>2. OccupancyThisWeek[0] = Rounded(b, n)
      BY DEF OccupancyThisWeek, DashboardSummary
    <3>3. a \in Nat /\ b \in Nat /\ a <= b
      BY <2>2
    <3>4. n \in Nat
      BY FS_CardinalityType
    <3> HIDE DEF a, b, n
    <3>5. Rounded(a, n) <= Rounded(b, n)
      BY <3>3, <3>4, RoundedMonotone
    <3> QED BY <3>1, <3>2, <3>5
  <2> QED BY <2>1, <2>3, <2>4
<1> QED
  BY <1>1, RowsInit, RowsStep, PTL DEF FiguresSpec

\* Rows, rooms and enquiries keep their types, and only a reservation with a
\* room is checked in.
THEOREM FiguresTypeCorrect == FiguresSpec => []FiguresTypeOK
<1>1. RowsOK => FiguresTypeOK
  <2> SUFFICES ASSUME RowsOK PROVE FiguresTypeOK
    OBVIOUS
  <2>1. \A r \in Booked : reservations[r].status \in Statuses /\ reservations[r].payment \in PaymentStatus
    BY BookedRow DEF Row
  <2> QED BY <2>1 DEF RowsOK, FiguresTypeOK
<1> QED
  BY <1>1, RowsInit, RowsStep, PTL DEF FiguresSpec

\* The keys of a group are finitely many.
LEMMA KeysFinite ==
    ASSUME NEW rset, IsFiniteSet(rset), NEW key
    PROVE  IsFiniteSet({key[r] : r \in rset})
<1> DEFINE K == {key[r] : r \in rset}
           f == [r \in rset |-> key[r]]
<1>1. f \in Surjection(rset, K)
  BY DEF Surjection
<1> HIDE DEF f, K
<1>2. IsFiniteSet(K)
  BY <1>1, FS_Surjection
<1> QED
  BY <1>2 DEF K

\* The sum of a column over some of the rows.
LEMMA TotalIs ==
    ASSUME NEW column, NEW kept, IsFiniteSet(kept), NEW T \in SUBSET kept,
           \A r \in kept : reservations[r][column] \in Nat
    PROVE  /\ Total(column, T) = SumFunctionOnSet([r \in kept |-> reservations[r][column]], T)
           /\ Total(column, T) \in Nat
<1> DEFINE g == [r \in kept |-> reservations[r][column]]
           h == [r \in T |-> reservations[r][column]]
<1>1. IsFiniteSet(T)
  BY FS_Subset
<1>2. \A r \in T : g[r] \in Nat /\ g[r] \in Int /\ h[r] \in Int /\ g[r] = h[r]
  OBVIOUS
<1>3. Total(column, T) = SumFunction(h) /\ DOMAIN h = T
  BY DEF Total
<1> HIDE DEF g, h
<1>4. Total(column, T) = SumFunctionOnSet(h, T)
  BY <1>3 DEF SumFunction
<1>5. SumFunctionOnSet(g, T) = SumFunctionOnSet(h, T)
  BY <1>1, <1>2, SumSame
<1>6. SumFunctionOnSet(g, T) \in Nat
  BY <1>1, <1>2, SumNat
<1>7. Total(column, T) = SumFunctionOnSet(g, T) /\ Total(column, T) \in Nat
  BY <1>4, <1>5, <1>6
<1> QED
  BY <1>7 DEF g

\* A chart of groups shows the money of its rows, whatever it groups them by.
LEMMA GroupedSum ==
    ASSUME RowsOK, NEW kept, kept \subseteq Booked, NEW column
    PROVE  SumFunction([k \in DOMAIN Grouped(kept, column) |-> Grouped(kept, column)[k].revenue])
             = Total("totalAmount", kept)
<1> DEFINE key == [r \in kept |-> reservations[r][column]]
           K == {key[r] : r \in kept}
           group == [k \in K |-> {r \in kept : key[r] = k}]
           g == [r \in kept |-> reservations[r]["totalAmount"]]
           h == [k \in K |-> Total("totalAmount", group[k])]
<1>1. IsFiniteSet(kept) /\ \A r \in kept : reservations[r]["totalAmount"] \in Nat
  BY StayedRows, FS_Subset, ReportRows
<1>2. /\ \A r \in kept : key[r] \in K
      /\ \A k \in K : group[k] \subseteq kept
      /\ \A k \in K, r \in kept : r \in group[k] <=> key[r] = k
  OBVIOUS
<1>3. IsFiniteSet(K)
  <2> HIDE DEF key
  <2> QED BY <1>1, KeysFinite
<1>4. \A k \in K : h[k] = SumFunctionOnSet(g, group[k])
  <2> SUFFICES ASSUME NEW k \in K PROVE h[k] = SumFunctionOnSet(g, group[k])
    OBVIOUS
  <2>1. h[k] = Total("totalAmount", group[k]) /\ group[k] \in SUBSET kept
    BY <1>2
  <2> DEFINE T == group[k]
  <2> HIDE DEF group, h, K, key
  <2>2. T \in SUBSET kept
    BY <2>1
  <2> HIDE DEF T
  <2>3. Total("totalAmount", T) = SumFunctionOnSet(g, T)
    BY <1>1, <2>2, TotalIs
  <2> QED BY <2>1, <2>3 DEF T
<1>5. \A r \in kept : g[r] \in Int
  BY <1>1
<1>6. SumFunctionOnSet(h, K) = SumFunctionOnSet(g, kept)
  <2> HIDE DEF key, K, group, g, h
  <2> HIDE FiguresAssumption
  <2> QED BY ONLY <1>1, <1>2, <1>3, <1>4, <1>5, SumByKey
<1>7. Total("totalAmount", kept) = SumFunctionOnSet(g, kept)
  BY <1>1, TotalIs
<1>8. [k \in DOMAIN Grouped(kept, column) |-> Grouped(kept, column)[k].revenue] = h
  <2>1. {reservations[r][column] : r \in kept} = K
    OBVIOUS
  <2>2. \A k \in K : group[k] = {r \in kept : reservations[r][column] = k}
    OBVIOUS
  <2>3. Grouped(kept, column) =
          [k \in K |-> [revenue |-> Total("totalAmount", {r \in kept : reservations[r][column] = k}),
                        count |-> Cardinality({r \in kept : reservations[r][column] = k})]]
    BY <2>1 DEF Grouped
  <2> DEFINE G == Grouped(kept, column)
  <2>4. DOMAIN G = K /\ \A k \in K : G[k].revenue = Total("totalAmount", {r \in kept : reservations[r][column] = k})
    <3> HIDE DEF K, group, key
    <3>1. G = [k \in K |-> [revenue |-> Total("totalAmount", {r \in kept : reservations[r][column] = k}),
                           count |-> Cardinality({r \in kept : reservations[r][column] = k})]]
      BY <2>3
    <3> HIDE DEF G
    <3> QED BY ONLY <3>1
  <2>5. \A k \in K : G[k].revenue = h[k]
    <3> SUFFICES ASSUME NEW k \in K PROVE G[k].revenue = h[k]
      OBVIOUS
    <3>1. G[k].revenue = Total("totalAmount", {r \in kept : reservations[r][column] = k})
      BY <2>4
    <3>2. {r \in kept : reservations[r][column] = k} = group[k]
      BY <2>2
    <3>3. h[k] = Total("totalAmount", group[k])
      OBVIOUS
    <3> HIDE DEF G, h, group, K, key
    <3> QED BY <3>1, <3>2, <3>3
  <2>6. h = [k \in K |-> h[k]]
    OBVIOUS
  <2> HIDE DEF G, h, K, group, key
  <2>7. [k \in DOMAIN G |-> G[k].revenue] = [k \in K |-> h[k]]
    BY <2>4, <2>5
  <2> QED BY <2>6, <2>7 DEF G
<1>9. SumFunction(h) = SumFunctionOnSet(h, K)
  <2>1. DOMAIN h = K
    OBVIOUS
  <2> HIDE DEF h, K
  <2> QED BY <2>1 DEF SumFunction
<1> HIDE DEF h, g, K
<1> QED
  BY <1>6, <1>7, <1>8, <1>9

\* Which kept the revenue report takes.
LEMMA KeptRows ==
    ASSUME RowsOK, NEW range
    PROVE  /\ Kept(range) \subseteq Arriving(range) /\ Arriving(range) \subseteq Booked
           /\ Arriving(range) \cap Stayed \subseteq Kept(range)
           /\ IsFiniteSet(Kept(range)) /\ IsFiniteSet(Arriving(range))
<1>1. /\ Kept(range) \subseteq Arriving(range) /\ Arriving(range) \subseteq Booked
      /\ Arriving(range) \cap Stayed \subseteq Kept(range)
  BY DEF Kept, Arriving, Stayed, With
<1>2. Kept(range) \subseteq Booked
  BY <1>1
<1> QED
  BY <1>1, <1>2, StayedRows, FS_Subset

\* The slices of the donut are the bookings of its tile.
LEMMA DonutIs ==
    ASSUME RowsOK, NEW range
    PROVE  SumFunction(BookingsSummary(range).byStatus) = BookingsSummary(range).total
<1> DEFINE made == Made(range)
           key == [r \in made |-> reservations[r].status]
           K == {key[r] : r \in made}
           group == [k \in K |-> {r \in made : key[r] = k}]
           one == [r \in made |-> 1]
           h == BookingsSummary(range).byStatus
<1>1. made \subseteq Booked /\ IsFiniteSet(made)
  <2>1. made \subseteq Booked
    BY DEF Made
  <2> QED BY <2>1, StayedRows, FS_Subset
<1>2. /\ \A r \in made : key[r] \in K
      /\ \A k \in K : group[k] \subseteq made
      /\ \A k \in K, r \in made : r \in group[k] <=> key[r] = k
      /\ \A r \in made : one[r] \in Int /\ one[r] = 1
  OBVIOUS
<1>3. IsFiniteSet(K)
  <2> HIDE DEF key, made
  <2> QED BY <1>1, KeysFinite
<1>4. DOMAIN h = K /\ \A k \in K : h[k] = Cardinality(group[k])
  <2>1. {reservations[r].status : r \in made} = K
    OBVIOUS
  <2>2. h = [s \in {reservations[r].status : r \in made} |-> Cardinality(made \cap With({s}))]
    BY DEF BookingsSummary
  <2>3. \A k \in K : made \cap With({k}) = group[k]
    BY <1>1 DEF With
  <2> HIDE DEF h, made, K, group
  <2> QED BY <2>1, <2>2, <2>3
<1>5. \A k \in K : h[k] = SumFunctionOnSet(one, group[k])
  <2> SUFFICES ASSUME NEW k \in K PROVE h[k] = SumFunctionOnSet(one, group[k])
    OBVIOUS
  <2> DEFINE T == group[k]
  <2>1. T \in SUBSET made /\ h[k] = Cardinality(T)
    BY <1>2, <1>4
  <2>2. IsFiniteSet(T) /\ \A r \in T : one[r] = 1
    BY <1>1, <1>2, <2>1, FS_Subset
  <2> HIDE DEF T, one, h, K, made
  <2>3. SumFunctionOnSet(one, T) = Cardinality(T)
    BY <2>2, SumOnes
  <2> QED BY <2>1, <2>3 DEF T
<1>6. BookingsSummary(range).total = Cardinality(made)
  BY DEF BookingsSummary
<1>7. \A r \in made : one[r] \in Int
  BY <1>2
<1> HIDE DEF made, key, K, group, one, h
<1>8. SumFunctionOnSet(h, K) = SumFunctionOnSet(one, made)
  BY <1>1, <1>2, <1>3, <1>5, <1>7, SumByKey, SMTT(30)
<1>9. SumFunctionOnSet(one, made) = Cardinality(made)
  BY <1>1, <1>2, SumOnes
<1>10. SumFunction(h) = SumFunctionOnSet(h, K)
  BY <1>4 DEF SumFunction
<1> QED
  BY <1>6, <1>8, <1>9, <1>10 DEF h

\* What is collected and outstanding is the total.
LEMMA CollectedAndOutstanding ==
    ASSUME RowsOK, NEW range
    PROVE  LET sum == RevenueSummary(range) IN sum.totalRevenue = sum.collected + sum.outstanding
<1> DEFINE kept == Arriving(range)
           total == [r \in kept |-> reservations[r]["totalAmount"]]
           paid == [r \in kept |-> reservations[r]["amountPaid"]]
           t == Total("totalAmount", kept)
           c == Total("amountPaid", kept)
<1>1. kept \subseteq Booked /\ IsFiniteSet(kept)
  BY KeptRows
<1>2. \A r \in kept : /\ reservations[r]["totalAmount"] \in Nat /\ reservations[r]["amountPaid"] \in Nat
                      /\ reservations[r]["amountPaid"] <= reservations[r]["totalAmount"]
  <2>1. \A r \in kept : r \in Booked
    BY <1>1
  <2> QED BY <2>1, ReportRows
<1>3. t = SumFunctionOnSet(total, kept) /\ c = SumFunctionOnSet(paid, kept) /\ t \in Nat /\ c \in Nat
  <2> HIDE DEF kept
  <2>1. /\ \A r \in kept : reservations[r]["totalAmount"] \in Nat
        /\ \A r \in kept : reservations[r]["amountPaid"] \in Nat
    BY <1>2
  <2>2. t = SumFunctionOnSet(total, kept) /\ t \in Nat
    BY <1>1, <2>1, TotalIs
  <2>3. c = SumFunctionOnSet(paid, kept) /\ c \in Nat
    BY <1>1, <2>1, TotalIs
  <2> QED BY <2>2, <2>3
<1>4. \A r \in kept : paid[r] \in Int /\ total[r] \in Int /\ paid[r] <= total[r]
  BY <1>2
<1>5. SumFunctionOnSet(paid, kept) <= SumFunctionOnSet(total, kept)
  <2> HIDE DEF kept, paid, total
  <2> QED BY <1>1, <1>4, SumAtMost
<1>6. /\ RevenueSummary(range).totalRevenue = t /\ RevenueSummary(range).collected = c
      /\ RevenueSummary(range).outstanding = Greater(0, t - c)
  BY DEF RevenueSummary
<1>7. c <= t
  BY <1>3, <1>5
<1> HIDE DEF t, c
<1>8. t = c + Greater(0, t - c)
  BY <1>3, <1>7 DEF Greater
<1> QED
  BY <1>6, <1>8

\* A room type's row of the table is some of the rows of its bar.
LEMMA TableWithinChart ==
    ASSUME RowsOK, NEW range, NEW type \in DOMAIN RoomPerformance(range)
    PROVE  /\ type \in DOMAIN RevenueSummary(range).byRoomType
           /\ RoomPerformance(range)[type].revenue <= RevenueSummary(range).byRoomType[type].revenue
<1> DEFINE slept == Arriving(range) \cap Stayed
           kept == Kept(range)
           g == [r \in kept |-> reservations[r]["totalAmount"]]
           a == {r \in slept : reservations[r].roomType = type}
           b == {r \in kept : reservations[r].roomType = type}
<1>1. slept \subseteq kept /\ kept \subseteq Booked /\ IsFiniteSet(kept)
  <2>1. kept \subseteq Arriving(range) /\ Arriving(range) \subseteq Booked
    BY KeptRows
  <2> QED BY <2>1, KeptRows
<1>2. type \in {reservations[r].roomType : r \in slept}
  BY DEF RoomPerformance
<1>3. RoomPerformance(range)[type].revenue = Total("totalAmount", a)
  BY DEF RoomPerformance
<1>4. RevenueSummary(range).byRoomType = Grouped(kept, "roomType")
  BY DEF RevenueSummary
<1>5. DOMAIN Grouped(kept, "roomType") = {reservations[r].roomType : r \in kept}
  BY DEF Grouped
<1>6. type \in DOMAIN Grouped(kept, "roomType")
  <2> HIDE DEF slept, kept
  <2> QED BY <1>1, <1>2, <1>5
<1>7. Grouped(kept, "roomType")[type].revenue = Total("totalAmount", b)
  BY <1>6 DEF Grouped
<1>8. \A r \in kept : reservations[r]["totalAmount"] \in Nat
  <2>1. \A r \in kept : r \in Booked
    BY <1>1
  <2> QED BY <2>1, ReportRows
<1>9. a \in SUBSET b /\ b \in SUBSET kept /\ a \in SUBSET kept
  BY <1>1
<1>10. IsFiniteSet(b) /\ \A r \in b : g[r] \in Nat
  BY <1>1, <1>8, <1>9, FS_Subset
<1> HIDE DEF slept, kept, a, b
<1>11. Total("totalAmount", a) = SumFunctionOnSet(g, a) /\ Total("totalAmount", b) = SumFunctionOnSet(g, b)
  BY <1>1, <1>8, <1>9, TotalIs
<1> HIDE DEF g
<1>12. SumFunctionOnSet(g, a) <= SumFunctionOnSet(g, b)
  BY <1>9, <1>10, SumSubset
<1> QED
  BY <1>3, <1>4, <1>6, <1>7, <1>11, <1>12

\* The charts of the reports page agree with one another and with its tiles.
THEOREM ChartsAddUp == FiguresSpec => []ChartsAgree
<1>1. RowsOK => ChartsAgree
  <2> SUFFICES ASSUME RowsOK, NEW range \in Ranges
               PROVE  LET data == ReportBundle(range)
                          Sum(chart) == SumFunction([k \in DOMAIN chart |-> chart[k].revenue])
                          donut == BookingStatusDonut(data)
                          byType == RevenueByRoomTypeChart(data) IN
                      /\ Sum(RevenueChart(data)) = Sum(RevenueBySourceChart(data))
                      /\ Sum(RevenueChart(data)) = SumFunction(byType)
                      /\ \A type \in DOMAIN RoomPerformanceTable(data) :
                           type \in DOMAIN byType /\ RoomPerformanceTable(data)[type].revenue <= byType[type]
                      /\ SumFunction(donut) = KpiRow(data).totalBookings
                      /\ DownloadCSV(data).total = KpiRow(data).revenueCollected + KpiRow(data).outstanding
    BY DEF ChartsAgree
  <2> DEFINE data == ReportBundle(range)
             revenue == RevenueSummary(range)
             kept == Kept(range)
             chart(column) == Grouped(kept, column)
             Sum(c) == SumFunction([k \in DOMAIN c |-> c[k].revenue])
  <2>1. /\ data.revenue = revenue /\ data.bookings = BookingsSummary(range)
        /\ data.roomPerformance = RoomPerformance(range)
    BY DEF ReportBundle
  <2>2. /\ revenue.byDate = chart("checkIn") /\ revenue.bySource = chart("source")
        /\ revenue.byRoomType = chart("roomType")
    BY DEF RevenueSummary
  <2>3. kept \subseteq Booked
    <3>1. kept \subseteq Arriving(range) /\ Arriving(range) \subseteq Booked
      BY KeptRows
    <3> QED BY <3>1
  <2> HIDE DEF kept, data, revenue
  <2>4. /\ Sum(chart("checkIn")) = Total("totalAmount", kept)
        /\ Sum(chart("source")) = Total("totalAmount", kept)
        /\ Sum(chart("roomType")) = Total("totalAmount", kept)
    BY <2>3, GroupedSum
  <2> HIDE DEF chart
  <2>5. Sum(RevenueChart(data)) = Sum(RevenueBySourceChart(data))
    BY <2>1, <2>2, <2>4 DEF RevenueChart, RevenueBySourceChart
  <2>6. Sum(RevenueChart(data)) = SumFunction(RevenueByRoomTypeChart(data))
    <3>1. RevenueByRoomTypeChart(data) = [k \in DOMAIN chart("roomType") |-> chart("roomType")[k].revenue]
      BY <2>1, <2>2 DEF RevenueByRoomTypeChart
    <3>2. SumFunction(RevenueByRoomTypeChart(data)) = Sum(chart("roomType"))
      BY <3>1
    <3>3. Sum(RevenueChart(data)) = Sum(chart("checkIn"))
      BY <2>1, <2>2 DEF RevenueChart
    <3> HIDE DEF Sum
    <3> QED BY <2>4, <3>2, <3>3
  <2>7. ASSUME NEW type \in DOMAIN RoomPerformanceTable(data)
        PROVE  /\ type \in DOMAIN RevenueByRoomTypeChart(data)
               /\ RoomPerformanceTable(data)[type].revenue <= RevenueByRoomTypeChart(data)[type]
    <3>1. RoomPerformanceTable(data) = RoomPerformance(range)
      BY <2>1 DEF RoomPerformanceTable
    <3>2. RevenueByRoomTypeChart(data) = [k \in DOMAIN revenue.byRoomType |-> revenue.byRoomType[k].revenue]
      BY <2>1 DEF RevenueByRoomTypeChart
    <3>3. /\ type \in DOMAIN revenue.byRoomType
          /\ RoomPerformance(range)[type].revenue <= revenue.byRoomType[type].revenue
      BY <3>1, TableWithinChart DEF revenue
    <3> QED BY <3>1, <3>2, <3>3
  <2>8. SumFunction(BookingStatusDonut(data)) = KpiRow(data).totalBookings
    <3>1. BookingStatusDonut(data) = BookingsSummary(range).byStatus
      BY <2>1 DEF BookingStatusDonut
    <3>2. KpiRow(data).totalBookings = BookingsSummary(range).total
      BY <2>1 DEF KpiRow
    <3> QED BY <3>1, <3>2, DonutIs
  <2>9. DownloadCSV(data).total = KpiRow(data).revenueCollected + KpiRow(data).outstanding
    <3>1. DownloadCSV(data).total = revenue.totalRevenue
      BY <2>1 DEF DownloadCSV
    <3>2. KpiRow(data).revenueCollected = revenue.collected /\ KpiRow(data).outstanding = revenue.outstanding
      BY <2>1 DEF KpiRow
    <3>3. revenue.totalRevenue = revenue.collected + revenue.outstanding
      BY CollectedAndOutstanding DEF revenue
    <3> QED BY <3>1, <3>2, <3>3
  <2> QED BY <2>5, <2>6, <2>7, <2>8, <2>9 DEF data
<1> QED
  BY <1>1, RowsInit, RowsStep, PTL DEF FiguresSpec
=================================================================================
