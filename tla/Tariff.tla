-------------------------------- MODULE Tariff --------------------------------
(***************************************************************************)
(* What a stay costs, as each page and service computes it for itself: the *)
(* search, the details page, the hold, the booking, the extension and the  *)
(* two bills, while staff change the room type's price and the GST setting *)
(* in between.  Amounts are whole paise and rates hundredths of a percent; *)
(* the code's floating point is taken as exact.                            *)
(*                                                                         *)
(* Who gets the room is Availability and Booking, who pays is Payments.    *)
(***************************************************************************)
EXTENDS Integers

CONSTANTS
    Prices,       \* basePrice values that staff set
    GstSettings,  \* values of the setting tax.gst_pct, in hundredths of a percent
    TotalUnits,   \* rooms of the room type
    MaxNights,    \* bound: nights of a stay
    MaxRooms,     \* MAX_ROOMS_PER_BOOKING
    MaxChanges    \* bound: changes of price or tax

ASSUME TariffAssumption ==
    /\ Prices \subseteq Nat \ {0}
    /\ GstSettings \subseteq Nat
    /\ TotalUnits \in Nat \ {0}
    /\ MaxNights \in Nat \ {0} /\ MaxRooms \in Nat \ {0} /\ MaxChanges \in Nat

VARIABLES
    basePrice,    \* of the room type
    gst,          \* the setting
    changes,      \* history: how often price or tax have changed
    results,      \* the answer the results page shows
    details,      \* what the details page or the staff's form knows
    held,         \* the ReservationHold
    stay          \* the Reservation

tariffVars == <<basePrice, gst, changes, results, details, held, stay>>

None == [asOf |-> -1]
Present(x) == x # None

Whole == 10000  \* one, in hundredths of a percent
Rounded(a, b) == (2 * a + b) \div (2 * b)
Smaller(a, b) == IF a < b THEN a ELSE b
Larger(a, b) == IF a > b THEN a ELSE b

\* 12 % unless the setting is there and a percentage.
TaxRate == IF gst > Whole THEN 1200 ELSE gst
ClampInt(value, max) == Smaller(max, Larger(1, value))
MaxRoomsForType == Smaller(MaxRooms, TotalUnits)

-------------------------------------------------------------------------------
(* Staff                                                                   *)

Change ==
    /\ changes < MaxChanges
    /\ changes' = changes + 1
    /\ UNCHANGED <<results, details, held, stay>>
SetPrice(price) == price # basePrice /\ basePrice' = price /\ UNCHANGED gst /\ Change
SetTax(setting) == setting # gst /\ gst' = setting /\ UNCHANGED basePrice /\ Change

OnlyPages == UNCHANGED <<basePrice, gst, changes, stay>>

-------------------------------------------------------------------------------
(* The guest's search and the staff's form                                 *)

\* The search form asks only for what it can show.
Valid(nights, rooms) == nights >= 1 /\ rooms \in 1..MaxRooms

\* totalForStay is that of one room, whatever number was searched.
Search(nights, rooms) ==
    /\ ~Present(stay) /\ ~Present(held)
    /\ Valid(nights, rooms)
    /\ results' = [asOf |-> changes, nights |-> nights, rooms |-> rooms,
                   nightlyRate |-> basePrice, totalForStay |-> basePrice * nights]
    /\ details' = None
    /\ OnlyPages /\ UNCHANGED held

\* The guest's number of rooms is cut to what the room type has.
ShowDetails ==
    /\ Present(results) /\ ~Present(stay)
    /\ details' = [asOf |-> changes, by |-> "guest", nights |-> results.nights,
                   rooms |-> ClampInt(results.rooms, MaxRoomsForType), basePrice |-> basePrice]
    /\ OnlyPages /\ UNCHANGED <<results, held>>

NewBooking(nights, rooms) ==
    /\ ~Present(stay) /\ ~Present(held) /\ ~Present(results)
    /\ details' = [asOf |-> changes, by |-> "staff", nights |-> nights,
                   rooms |-> rooms, basePrice |-> basePrice]
    /\ OnlyPages /\ UNCHANGED <<results, held>>

-------------------------------------------------------------------------------
(* The hold and the booking                                                *)

\* The rooms are not counted.
MutantCreateHold ==
    /\ Present(details) /\ ~Present(stay) /\ ~Present(held)
    /\ details.rooms <= TotalUnits
    /\ held' = [asOf |-> changes, quantity |-> details.rooms, nights |-> details.nights,
                nightlyRate |-> basePrice, totalAmount |-> basePrice * details.nights]
    /\ OnlyPages /\ UNCHANGED <<results, details>>

CreateHold ==
    /\ Present(details) /\ ~Present(stay) /\ ~Present(held)
    /\ details.rooms <= TotalUnits
    /\ held' = [asOf |-> changes, quantity |-> details.rooms, nights |-> details.nights,
                nightlyRate |-> basePrice,
                totalAmount |-> basePrice * details.rooms * details.nights]
    /\ OnlyPages /\ UNCHANGED <<results, details>>

\* A page that is opened again finds the session's hold, at the rate of the day it
\* was made; a hold that has lapsed is made anew.
QuoteLapses ==
    /\ Present(held) /\ ~Present(stay)
    /\ held' = None
    /\ OnlyPages /\ UNCHANGED <<results, details>>

\* What has been paid is forgotten.
MutantPriced(r, nights, rate) ==
    LET subtotal == r.nightlyRate * r.roomCount * nights
        taxAmount == Rounded(subtotal * rate, Whole)
    IN [r EXCEPT !.nights = nights, !.subtotal = subtotal, !.taxAmount = taxAmount,
                 !.totalAmount = subtotal + taxAmount, !.amountDue = subtotal + taxAmount,
                 !.rate = rate]

Priced(r, nights, rate) ==
    LET subtotal == r.nightlyRate * r.roomCount * nights
        taxAmount == Rounded(subtotal * rate, Whole)
    IN [r EXCEPT !.nights = nights, !.subtotal = subtotal, !.taxAmount = taxAmount,
                 !.totalAmount = subtotal + taxAmount,
                 !.amountDue = subtotal + taxAmount - r.amountPaid, !.rate = rate]

\* rate and asOf are kept for the properties: the row has neither.
CreateFromHold ==
    /\ Present(held) /\ ~Present(stay)
    /\ stay' = Priced([asOf |-> changes, nightlyRate |-> held.nightlyRate,
                       roomCount |-> held.quantity, nights |-> 0, subtotal |-> 0,
                       taxAmount |-> 0, totalAmount |-> 0, amountPaid |-> 0,
                       amountDue |-> 0, rate |-> 0], held.nights, TaxRate)
    /\ UNCHANGED <<basePrice, gst, changes, results, details, held>>

OnlyStay == UNCHANGED <<basePrice, gst, changes, results, details, held>>

\* A capture of what is due.
PayDue ==
    /\ Present(stay) /\ stay.amountDue > 0
    /\ stay' = [stay EXCEPT !.amountPaid = stay.totalAmount, !.amountDue = 0]
    /\ OnlyStay

\* The nights that are added cost what the room type costs today.
MutantDecideExtension(nights) ==
    /\ Present(stay) /\ nights > held.nights
    /\ stay' = Priced([stay EXCEPT !.nightlyRate = basePrice], nights, TaxRate)
    /\ OnlyStay

\* All nights are priced again, at the rate booked and today's tax.  The request asked
\* for more than the stay had when it was made: one made before a longer one was
\* granted shortens the stay, and may leave less than nothing due.
DecideExtension(nights) ==
    /\ Present(stay) /\ nights > held.nights
    /\ stay' = Priced(stay, nights, TaxRate)
    /\ OnlyStay

-------------------------------------------------------------------------------
(* What the pages show                                                     *)

\* BookingDetails.tsx.
DetailsSubtotal == details.basePrice * details.nights * details.rooms
DetailsTotal == DetailsSubtotal + Rounded(DetailsSubtotal * 1200, Whole)
\* The staff's form.
Estimate == details.basePrice * details.nights * details.rooms
\* The answer of the hold endpoint.
HoldPricing == [subtotal |-> held.nightlyRate * held.quantity, total |-> held.totalAmount]

\* The two bills of the payment page; no discount is ever stored.  Percentages are
\* printed with no and with one decimal.
PriceBreakdown ==
    [subtotal |-> stay.subtotal, total |-> stay.totalAmount, balance |-> stay.amountDue,
     percent |-> Rounded(100 * stay.taxAmount, stay.subtotal) * 100]
BillFormula ==
    [subtotal |-> stay.subtotal, total |-> stay.totalAmount, balance |-> stay.amountDue,
     percent |-> IF stay.taxAmount * 100 >= stay.subtotal
                 THEN Rounded(1000 * stay.taxAmount, stay.subtotal) * 10
                 ELSE Rounded(Whole * stay.taxAmount, stay.subtotal)]
\* Its last line: rate times nights times rooms times (1 + GST), less what is paid.
Formula ==
    Rounded(stay.nightlyRate * stay.nights * stay.roomCount * (Whole + BillFormula.percent), Whole)
        - stay.amountPaid

-------------------------------------------------------------------------------
TariffInit ==
    /\ basePrice \in Prices /\ gst \in GstSettings
    /\ changes = 0
    /\ results = None /\ details = None /\ held = None /\ stay = None

TariffNext ==
    \/ \E price \in Prices : SetPrice(price)
    \/ \E setting \in GstSettings : SetTax(setting)
    \/ \E nights \in 0..MaxNights, rooms \in 0..(MaxRooms + 1) : Search(nights, rooms)
    \/ \E nights \in 1..MaxNights, rooms \in 1..MaxRooms : NewBooking(nights, rooms)
    \/ ShowDetails \/ CreateHold \/ QuoteLapses \/ CreateFromHold \/ PayDue
    \/ \E nights \in 1..(MaxNights + 1) : DecideExtension(nights)

TariffSpec == TariffInit /\ [][TariffNext]_tariffVars

-------------------------------------------------------------------------------
(* Properties                                                              *)

\* The row's columns fit each other after a booking, a payment and an extension at
\* any price and tax, no column left of an earlier price; and the formula printed
\* below the bill yields its balance, as long as GST has at most one decimal
\* (BillFormula.tsx: "so the math shown below is exact").
BillAddsUp ==
    Present(stay) =>
        /\ stay.subtotal = stay.nightlyRate * stay.nights * stay.roomCount
        /\ stay.totalAmount = stay.subtotal + stay.taxAmount
        /\ stay.amountPaid + stay.amountDue = stay.totalAmount
        /\ BillFormula.balance = stay.amountDue
        /\ stay.rate % 10 = 0 => Formula - stay.amountDue \in {-1, 0, 1}

\* As long as staff change nothing and GST is 12 %, what the guest was shown while
\* searching, holding and filling in the form is what the booking charges: four
\* computations of the same amount, of which only the last is stored.
QuoteStands ==
    (Present(stay) /\ stay.rate = 1200 /\ details.asOf = stay.asOf /\ held.asOf = stay.asOf
        /\ stay.nights = held.nights) =>
        /\ held.totalAmount = stay.subtotal
        /\ details.by = "guest" => DetailsTotal = stay.totalAmount
        /\ results.asOf = stay.asOf => results.totalForStay * held.quantity = stay.subtotal
        /\ details.by = "staff" => Estimate = stay.subtotal

\* While the tax stays what it was, an extension charges the added nights at the
\* price they were booked for, to the paisa that rounding may move, whatever the
\* room type costs by then.
ExtensionChargesAddedNights ==
    [][(Present(stay) /\ stay'.nights > stay.nights /\ stay'.rate = stay.rate) =>
        LET added == stay.nightlyRate * stay.roomCount * (stay'.nights - stay.nights)
            charged == stay'.totalAmount - stay.totalAmount
        IN charged - added - Rounded(added * stay.rate, Whole) \in {-1, 0, 1}]_tariffVars

-------------------------------------------------------------------------------
(* Claims of texts and comments that the code does not keep                *)

\* "Total payable" (BookingDetails.tsx:245) is what the booking charges.
TotalPayable ==
    Present(stay) /\ details.by = "guest" /\ details.asOf = stay.asOf /\ stay.nights = held.nights
        => DetailsTotal = stay.totalAmount

\* The two bills of the payment page "can never disagree" (pay page.tsx:281).
BillsAgree == Present(stay) => PriceBreakdown.percent = BillFormula.percent

\* "the math shown below is exact" (BillFormula.tsx:59).
MathIsExact == Present(stay) => Formula - stay.amountDue \in {-1, 0, 1}

\* "Total for n nights" (BookingResults.tsx:202) is that of the rooms searched.
TotalForTheSearch ==
    Present(results) => results.totalForStay = results.nightlyRate * results.nights * results.rooms

\* "estimated" (bookings/new page.tsx:135) is what the booking comes to.
EstimateIsTotal ==
    Present(stay) /\ details.by = "staff" /\ details.asOf = stay.asOf /\ stay.nights = held.nights
        => Estimate = stay.totalAmount

\* A hold's subtotal is that of its nights, as its total is.
HoldSubtotalCoversNights == Present(held) => HoldPricing.subtotal = HoldPricing.total
================================================================================
