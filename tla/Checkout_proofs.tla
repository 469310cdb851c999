---------------------------- MODULE Checkout_proofs ----------------------------
(***************************************************************************)
(* Theorems about Tariff.tla, for any prices, tax settings and stays, and  *)
(* about Checkout.tla, for any number of tabs, orders and calls in flight  *)
(* and any amounts.                                                        *)
(*                                                                         *)
(* A rounded quotient is known by the two inequalities that enclose it     *)
(* (RoundedIs); every statement about a bill is linear arithmetic on the   *)
(* products of such inequalities.                                          *)
(*                                                                         *)
(* The checkout has two layers.  A step of it is a step of the payments'   *)
(* server or none of it (ServerSteps), so the theorems of Payments apply;  *)
(* the browser's invariant BrowserOK is proved action by action on top of  *)
(* that.  The money is followed by what the rows come to of which a        *)
(* capture was recorded (Credited), with the lemmas of Sums.tla.           *)
(***************************************************************************)
EXTENDS Checkout, Tariff, Payments_proofs, Sums

-------------------------------------------------------------------------------
(* Prices and bills: rounding                                              *)

\* Division with remainder.
LEMMA Quotient ==
    ASSUME NEW x \in Nat, NEW k \in Nat \ {0}
    PROVE  /\ x \div k \in Nat
           /\ k * (x \div k) <= x
           /\ x < k * (x \div k) + k
  OBVIOUS

\* Rounded(a, b) is the whole number nearest to a / b.
LEMMA RoundedIs ==
    ASSUME NEW a \in Nat, NEW b \in Nat \ {0}
    PROVE  /\ Rounded(a, b) \in Nat
           /\ 2 * (b * Rounded(a, b)) <= 2 * a + b
           /\ 2 * a + b < 2 * (b * Rounded(a, b)) + 2 * b
<1> DEFINE x == 2 * a + b
           k == 2 * b
           q == x \div k
<1>1. x \in Nat /\ k \in Nat \ {0}
  OBVIOUS
<1>2. q \in Nat /\ k * q <= x /\ x < k * q + k
  <2> HIDE DEF x, k
  <2> QED BY <1>1, Quotient
<1>3. k * q = 2 * (b * q)
  <2> HIDE DEF q
  <2> QED BY <1>2
<1>4. Rounded(a, b) = q
  BY DEF Rounded
<1> HIDE DEF q
<1> QED
  BY <1>1, <1>2, <1>3, <1>4

\* A factor that two products share may be cancelled.
LEMMA Cancelled ==
    ASSUME NEW s \in Nat \ {0}, NEW m \in Nat, NEW n \in Nat, s * m < s * (n + 1)
    PROVE  m <= n
<1> SUFFICES ASSUME m >= n + 1 PROVE FALSE
  OBVIOUS
<1>1. s * m >= s * (n + 1)
  OBVIOUS
<1> QED
  BY <1>1

\* A bill of s without tax, with the tax t at a rate of r (in tenths of a percent, or
\* in hundredths), the percentage m printed for it and the formula's result f.
CoarseBill(s, t, r, m, f) ==
    /\ 20000 * t <= 20 * (s * r) + 10000 /\ 20 * (s * r) + 10000 < 20000 * t + 20000
    /\ 2 * (s * m) <= 2000 * t + s /\ 2000 * t + s < 2 * (s * m) + 2 * s
    /\ 20000 * f <= 20000 * s + 20 * (s * m) + 10000
    /\ 20000 * s + 20 * (s * m) + 10000 < 20000 * f + 20000
FineBill(s, t, r, m, f) ==
    /\ 20000 * t <= 2 * (s * r) + 10000 /\ 2 * (s * r) + 10000 < 20000 * t + 20000
    /\ 2 * (s * m) <= 20000 * t + s /\ 20000 * t + s < 2 * (s * m) + 2 * s
    /\ 20000 * f <= 20000 * s + 2 * (s * m) + 10000
    /\ 20000 * s + 2 * (s * m) + 10000 < 20000 * f + 20000

\* The percentage that the bill prints to one decimal yields the tax it was taken
\* from: to the paisa in a stay so cheap that the decimal does not tell the rate,
\* exactly in any other.
LEMMA CoarsePercent ==
    ASSUME NEW s \in Nat \ {0}, NEW t \in Nat, NEW r \in Nat, NEW m \in Nat, NEW f \in Nat,
           CoarseBill(s, t, r, m, f)
    PROVE  f - (s + t) \in {-1, 0, 1}
<1> USE DEF CoarseBill
<1>0. s * r \in Nat /\ s * m \in Nat
  OBVIOUS
<1>1. CASE s <= 1000
  <2> DEFINE X == s * m
  <2>1. X \in Nat
    BY <1>0
  <2> HIDE DEF X
  <2> SUFFICES f <= s + t + 1 /\ f >= s + t - 1
    OBVIOUS
  <2> QED BY <1>1, <2>1 DEF X
<1>2. CASE s > 1000
  <2>1. s * m < s * (r + 1)
    <3>1. s * (r + 1) = s * r + s
      OBVIOUS
    <3> QED BY <1>0, <1>2, <3>1
  <2>2. s * r < s * (m + 1)
    <3>1. s * (m + 1) = s * m + s
      OBVIOUS
    <3> QED BY <1>0, <1>2, <3>1
  <2>3. m = r
    BY <2>1, <2>2, Cancelled
  <2>4. f = s + t
    BY <1>0, <2>3
  <2> QED BY <2>4
<1> QED
  BY <1>1, <1>2

\* So does the one printed to two decimals, below 1 %.
LEMMA FinePercent ==
    ASSUME NEW s \in Nat \ {0}, NEW t \in Nat, NEW r \in Nat, NEW m \in Nat, NEW f \in Nat,
           FineBill(s, t, r, m, f)
    PROVE  f - (s + t) \in {-1, 0, 1}
<1> USE DEF FineBill
<1>0. s * r \in Nat /\ s * m \in Nat
  OBVIOUS
<1>1. CASE s <= 10000
  <2> DEFINE X == s * m
  <2>1. X \in Nat
    BY <1>0
  <2> HIDE DEF X
  <2> SUFFICES f <= s + t + 1 /\ f >= s + t - 1
    OBVIOUS
  <2> QED BY <1>1, <2>1 DEF X
<1>2. CASE s > 10000
  <2>1. s * m < s * (r + 1)
    <3>1. s * (r + 1) = s * r + s
      OBVIOUS
    <3> QED BY <1>0, <1>2, <3>1
  <2>2. s * r < s * (m + 1)
    <3>1. s * (m + 1) = s * m + s
      OBVIOUS
    <3> QED BY <1>0, <1>2, <3>1
  <2>3. m = r
    BY <2>1, <2>2, Cancelled
  <2>4. f = s + t
    BY <1>0, <2>3
  <2> QED BY <2>4
<1> QED
  BY <1>1, <1>2

\* Rounding a sum and rounding its parts differ by one at most.
LEMMA RoundedSum ==
    ASSUME NEW x \in Nat, NEW y \in Nat
    PROVE  Rounded(x + y, Whole) - Rounded(x, Whole) - Rounded(y, Whole) \in {-1, 0, 1}
<1>1. Whole \in Nat \ {0} /\ x + y \in Nat
  BY DEF Whole
<1> DEFINE a == Rounded(x, Whole)
           b == Rounded(y, Whole)
           c == Rounded(x + y, Whole)
<1>2. /\ a \in Nat /\ 2 * (Whole * a) <= 2 * x + Whole /\ 2 * x + Whole < 2 * (Whole * a) + 2 * Whole
      /\ b \in Nat /\ 2 * (Whole * b) <= 2 * y + Whole /\ 2 * y + Whole < 2 * (Whole * b) + 2 * Whole
      /\ c \in Nat /\ 2 * (Whole * c) <= 2 * (x + y) + Whole
      /\ 2 * (x + y) + Whole < 2 * (Whole * c) + 2 * Whole
  BY <1>1, RoundedIs
<1> HIDE DEF a, b, c
<1>3. c - a - b <= 1 /\ c - a - b >= -1
  BY <1>2 DEF Whole
<1>4. c - a - b \in {-1, 0, 1}
  BY <1>2, <1>3
<1> QED
  BY <1>4 DEF a, b, c

-------------------------------------------------------------------------------
(* Prices and bills: rows and pages that fit each other                     *)

\* What the pages know, the hold and the reservation.
ResultsPage ==
    [asOf: Nat, nights: Nat \ {0}, rooms: 1..MaxRooms, nightlyRate: Prices, totalForStay: Nat]
DetailsForm ==
    [asOf: Nat, by: {"guest", "staff"}, nights: Nat \ {0}, rooms: Nat \ {0}, basePrice: Prices]
HoldRow ==
    [asOf: Nat, quantity: Nat \ {0}, nights: Nat \ {0}, nightlyRate: Prices, totalAmount: Nat]
StayRow ==
    [asOf: Nat, nightlyRate: Prices, roomCount: Nat \ {0}, nights: Nat \ {0}, subtotal: Nat \ {0},
     taxAmount: Nat, totalAmount: Nat, amountPaid: Nat, amountDue: Int, rate: Nat]

\* The rows and the pages are there or not.
TariffTypeOK ==
    /\ basePrice \in Prices /\ gst \in GstSettings /\ changes \in Nat
    /\ results \in {None} \cup ResultsPage
    /\ details \in {None} \cup DetailsForm
    /\ held \in {None} \cup HoldRow
    /\ stay \in {None} \cup StayRow

\* The stay's columns follow from its price, its nights and the tax it was last
\* priced with.
StayFits ==
    Present(stay) =>
        /\ stay.subtotal = stay.nightlyRate * stay.roomCount * stay.nights
        /\ stay.taxAmount = Rounded(stay.subtotal * stay.rate, Whole)
        /\ stay.totalAmount = stay.subtotal + stay.taxAmount
        /\ stay.amountPaid + stay.amountDue = stay.totalAmount

\* A percentage, whatever the setting holds.
LEMMA TaxRateIs == gst \in GstSettings => TaxRate \in Nat
  BY TariffAssumption DEF TaxRate

\* A stay that is priced is a row whose columns fit.
LEMMA PricedStay ==
    ASSUME NEW r \in [asOf: Nat, nightlyRate: Prices, roomCount: Nat \ {0}, nights: Nat, subtotal: Nat,
                      taxAmount: Nat, totalAmount: Nat, amountPaid: Nat, amountDue: Int, rate: Nat],
           NEW nights \in Nat \ {0}, NEW rate \in Nat,
           stay' = Priced(r, nights, rate)
    PROVE  /\ stay' \in StayRow /\ StayFits'
           /\ stay'.asOf = r.asOf /\ stay'.nightlyRate = r.nightlyRate /\ stay'.roomCount = r.roomCount
           /\ stay'.amountPaid = r.amountPaid /\ stay'.nights = nights /\ stay'.rate = rate
<1> DEFINE subtotal == r.nightlyRate * r.roomCount * nights
           tax == Rounded(subtotal * rate, Whole)
           total == subtotal + tax
           due == subtotal + tax - r.amountPaid
<1>1. r.nightlyRate \in Nat \ {0} /\ r.roomCount \in Nat \ {0} /\ r.amountPaid \in Nat
  BY TariffAssumption
<1>2. /\ subtotal \in Nat \ {0} /\ tax \in Nat
      /\ stay' = [r EXCEPT !.nights = nights, !.subtotal = subtotal, !.taxAmount = tax,
                           !.totalAmount = total, !.amountDue = due, !.rate = rate]
  <2>1. \A a, b \in Nat \ {0} : a * b \in Nat \ {0}
    OBVIOUS
  <2>2. subtotal \in Nat \ {0}
    <3> DEFINE rooms == r.nightlyRate * r.roomCount
    <3>1. rooms \in Nat \ {0}
      BY <1>1, <2>1
    <3> HIDE DEF rooms
    <3>2. rooms * nights \in Nat \ {0}
      BY <2>1, <3>1
    <3> QED BY <3>2 DEF rooms
  <2>3. tax \in Nat
    <3> HIDE DEF subtotal
    <3>1. subtotal * rate \in Nat /\ Whole \in Nat \ {0}
      BY <2>2 DEF Whole
    <3> QED BY <3>1, RoundedIs
  <2>4. stay' = [r EXCEPT !.nights = nights, !.subtotal = subtotal, !.taxAmount = tax,
                          !.totalAmount = total, !.amountDue = due, !.rate = rate]
    BY DEF Priced
  <2> QED BY <2>2, <2>3, <2>4
<1> HIDE DEF subtotal, tax
<1>3. total \in Nat /\ due \in Int /\ r.amountPaid + due = total
  BY <1>1, <1>2
<1> HIDE DEF total, due
<1>4. /\ stay'.asOf = r.asOf /\ stay'.nightlyRate = r.nightlyRate /\ stay'.roomCount = r.roomCount
      /\ stay'.amountPaid = r.amountPaid /\ stay'.nights = nights /\ stay'.rate = rate
      /\ stay'.subtotal = subtotal /\ stay'.taxAmount = tax /\ stay'.totalAmount = total
      /\ stay'.amountDue = due
  BY <1>2
<1>5. stay' \in StayRow
  BY <1>2, <1>3, ZenonT(40) DEF StayRow
<1>6. StayFits'
  BY <1>3, <1>4 DEF StayFits, subtotal, tax, total
<1> QED
  BY <1>4, <1>5, <1>6

\* The pages' records when price and tax have changed so often: no record is of the
\* future, those of today have today's price, and records made at the same time the
\* same price.
QuotesFit ==
    /\ Present(results) =>
        /\ results.asOf <= changes
        /\ results.asOf = changes => results.nightlyRate = basePrice
        /\ results.totalForStay = results.nightlyRate * results.nights
    /\ Present(details) =>
        /\ details.asOf <= changes
        /\ details.asOf = changes => details.basePrice = basePrice
        /\ (details.by = "guest") <=> Present(results)
        /\ Present(results) =>
            /\ details.nights = results.nights
            /\ details.rooms = ClampInt(results.rooms, MaxRoomsForType)
            /\ details.asOf = results.asOf => details.basePrice = results.nightlyRate
    /\ Present(held) =>
        /\ Present(details)
        /\ held.asOf <= changes
        /\ held.asOf = changes => held.nightlyRate = basePrice
        /\ held.nights = details.nights /\ held.quantity = details.rooms
        /\ held.totalAmount = held.nightlyRate * held.quantity * held.nights
        /\ held.asOf = details.asOf => held.nightlyRate = details.basePrice
        /\ Present(results) /\ held.asOf = results.asOf => held.nightlyRate = results.nightlyRate
    /\ Present(stay) =>
        /\ Present(held)
        /\ stay.nightlyRate = held.nightlyRate /\ stay.roomCount = held.quantity

\* The inductive invariant: what is there fits, on its own and to each other.
TariffOK == TariffTypeOK /\ StayFits /\ QuotesFit

\* A record that is there is not the mark of one that is not.
LEMMA Presence ==
    /\ ~Present(None)
    /\ \A x \in ResultsPage \cup DetailsForm \cup HoldRow \cup StayRow : Present(x) /\ x.asOf \in Nat
  BY DEF Present, None, ResultsPage, DetailsForm, HoldRow, StayRow

\* A row with other amounts is a row.
LEMMA PaidStay ==
    ASSUME NEW r \in StayRow, NEW paid \in Nat, NEW due \in Int
    PROVE  [r EXCEPT !.amountPaid = paid, !.amountDue = due] \in StayRow
  BY DEF StayRow

\* Every change of a price or the tax, every page and every booking, payment and
\* extension keeps them so.
LEMMA TariffStep == TariffOK /\ [TariffNext]_tariffVars => TariffOK'
<1> SUFFICES ASSUME TariffOK, [TariffNext]_tariffVars PROVE TariffOK'
  OBVIOUS
<1>a. TariffTypeOK /\ StayFits /\ QuotesFit
  BY DEF TariffOK
<1>b. /\ results \in {None} \cup ResultsPage /\ (Present(results) => results \in ResultsPage)
      /\ details \in {None} \cup DetailsForm /\ (Present(details) => details \in DetailsForm)
      /\ held \in {None} \cup HoldRow /\ (Present(held) => held \in HoldRow)
      /\ stay \in {None} \cup StayRow /\ (Present(stay) => stay \in StayRow)
      /\ basePrice \in Prices /\ gst \in GstSettings /\ changes \in Nat
  BY <1>a, Presence DEF TariffTypeOK
<1>c. /\ Prices \subseteq Nat \ {0}
      /\ MaxRoomsForType \in Nat \ {0}
      /\ \A x \in Nat : ClampInt(x, MaxRoomsForType) \in Nat \ {0}
  BY TariffAssumption DEF MaxRoomsForType, ClampInt, Smaller, Larger
<1>1. ASSUME changes' = changes + 1, UNCHANGED <<results, details, held, stay>>,
             basePrice' \in Prices, gst' \in GstSettings
      PROVE  TariffOK'
  <2>1. TariffTypeOK'
    BY <1>b, <1>1 DEF TariffTypeOK
  <2>2. StayFits'
    BY <1>a, <1>1 DEF StayFits
  <2>3. /\ Present(results) => results.asOf # changes + 1 /\ results.asOf <= changes + 1
        /\ Present(details) => details.asOf # changes + 1 /\ details.asOf <= changes + 1
        /\ Present(held) => held.asOf # changes + 1 /\ held.asOf <= changes + 1
    BY <1>a, <1>b, Presence DEF QuotesFit
  <2>4. QuotesFit'
    BY <1>a, <1>1, <2>3 DEF QuotesFit
  <2> QED BY <2>1, <2>2, <2>4 DEF TariffOK
<1>2. ASSUME NEW nights \in 0..MaxNights, NEW rooms \in 0..(MaxRooms + 1), Search(nights, rooms)
      PROVE  TariffOK'
  <2> DEFINE new == [asOf |-> changes, nights |-> nights, rooms |-> rooms,
                     nightlyRate |-> basePrice, totalForStay |-> basePrice * nights]
  <2>1. /\ ~Present(stay) /\ ~Present(held) /\ results' = new /\ details' = None
        /\ UNCHANGED <<basePrice, gst, changes, stay, held>> /\ nights \in Nat \ {0}
        /\ rooms \in 1..MaxRooms
    BY <1>2 DEF Search, OnlyPages, Valid
  <2>2. basePrice * nights \in Nat
    BY <1>b, <1>c, <2>1
  <2>3. new \in ResultsPage
    BY <1>b, <2>1, <2>2 DEF ResultsPage
  <2>4. TariffTypeOK' /\ StayFits'
    BY <1>a, <1>b, <2>1, <2>3 DEF TariffTypeOK, StayFits
  <2>5. QuotesFit'
    BY <1>b, <2>1, Presence DEF QuotesFit
  <2> QED BY <2>4, <2>5 DEF TariffOK
<1>3. CASE ShowDetails
  <2> DEFINE new == [asOf |-> changes, by |-> "guest", nights |-> results.nights,
                     rooms |-> ClampInt(results.rooms, MaxRoomsForType), basePrice |-> basePrice]
  <2>1. /\ Present(results) /\ ~Present(stay) /\ details' = new
        /\ UNCHANGED <<basePrice, gst, changes, stay, results, held>>
    BY <1>3 DEF ShowDetails, OnlyPages
  <2>2. results \in ResultsPage /\ results.rooms \in Nat
    BY <1>b, <2>1 DEF ResultsPage
  <2>3. new \in DetailsForm
    <3>1. ClampInt(results.rooms, MaxRoomsForType) \in Nat \ {0}
      BY <1>c, <2>2
    <3>2. results.nights \in Nat \ {0}
      BY <2>2 DEF ResultsPage
    <3> QED BY <1>b, <3>1, <3>2 DEF DetailsForm
  <2>4. TariffTypeOK' /\ StayFits'
    BY <1>a, <1>b, <2>1, <2>3 DEF TariffTypeOK, StayFits
  <2>5. Present(new)
    BY <2>3, Presence
  <2>6. Present(held) => /\ Present(details) /\ Present(results)
                         /\ held.nights = new.nights /\ held.quantity = new.rooms
    BY <1>a, <2>1 DEF QuotesFit
  <2>7. QuotesFit'
    BY <1>a, <1>b, <2>1, <2>5, <2>6 DEF QuotesFit
  <2> QED BY <2>4, <2>7 DEF TariffOK
<1>4. ASSUME NEW nights \in 1..MaxNights, NEW rooms \in 1..MaxRooms, NewBooking(nights, rooms)
      PROVE  TariffOK'
  <2> DEFINE new == [asOf |-> changes, by |-> "staff", nights |-> nights,
                     rooms |-> rooms, basePrice |-> basePrice]
  <2>1. /\ ~Present(stay) /\ ~Present(held) /\ ~Present(results) /\ details' = new
        /\ UNCHANGED <<basePrice, gst, changes, stay, results, held>>
    BY <1>4 DEF NewBooking, OnlyPages
  <2>2. new \in DetailsForm
    BY <1>b DEF DetailsForm
  <2>3. TariffTypeOK' /\ StayFits'
    BY <1>a, <1>b, <2>1, <2>2 DEF TariffTypeOK, StayFits
  <2>4. QuotesFit'
    BY <1>b, <2>1 DEF QuotesFit
  <2> QED BY <2>3, <2>4 DEF TariffOK
<1>5. CASE CreateHold
  <2> DEFINE new == [asOf |-> changes, quantity |-> details.rooms, nights |-> details.nights,
                     nightlyRate |-> basePrice,
                     totalAmount |-> basePrice * details.rooms * details.nights]
  <2>1. /\ Present(details) /\ ~Present(stay) /\ ~Present(held) /\ held' = new
        /\ UNCHANGED <<basePrice, gst, changes, stay, results, details>>
    BY <1>5 DEF CreateHold, OnlyPages
  <2>2. details \in DetailsForm /\ details.rooms \in Nat \ {0} /\ details.nights \in Nat \ {0}
    BY <1>b, <2>1 DEF DetailsForm
  <2>3. basePrice * details.rooms * details.nights \in Nat
    BY <1>b, <1>c, <2>2
  <2>4. new \in HoldRow
    BY <1>b, <2>2, <2>3 DEF HoldRow
  <2>5. TariffTypeOK' /\ StayFits'
    BY <1>a, <1>b, <2>1, <2>4 DEF TariffTypeOK, StayFits
  <2>6. /\ Present(details) /\ (details.asOf = changes => details.basePrice = basePrice)
        /\ Present(results) => (results.asOf = changes => results.nightlyRate = basePrice)
    BY <1>a, <2>1 DEF QuotesFit
  <2>7. QuotesFit'
    BY <1>a, <1>b, <2>1, <2>6 DEF QuotesFit
  <2> QED BY <2>5, <2>7 DEF TariffOK
<1>6. CASE QuoteLapses
  <2>1. /\ Present(held) /\ ~Present(stay) /\ held' = None
        /\ UNCHANGED <<basePrice, gst, changes, stay, results, details>>
    BY <1>6 DEF QuoteLapses, OnlyPages
  <2>2. TariffTypeOK' /\ StayFits'
    BY <1>a, <1>b, <2>1 DEF TariffTypeOK, StayFits
  <2>3. QuotesFit'
    BY <1>a, <2>1, Presence DEF QuotesFit
  <2> QED BY <2>2, <2>3 DEF TariffOK
<1>7. CASE CreateFromHold
  <2> DEFINE new == [asOf |-> changes, nightlyRate |-> held.nightlyRate,
                     roomCount |-> held.quantity, nights |-> 0, subtotal |-> 0,
                     taxAmount |-> 0, totalAmount |-> 0, amountPaid |-> 0,
                     amountDue |-> 0, rate |-> 0]
  <2>1. /\ Present(held) /\ stay' = Priced(new, held.nights, TaxRate)
        /\ UNCHANGED <<basePrice, gst, changes, results, details, held>>
    BY <1>7 DEF CreateFromHold
  <2>2. held \in HoldRow /\ held.nights \in Nat \ {0} /\ TaxRate \in Nat
    BY <1>b, <2>1, TaxRateIs DEF HoldRow
  <2>3. new \in [asOf: Nat, nightlyRate: Prices, roomCount: Nat \ {0}, nights: Nat, subtotal: Nat,
                 taxAmount: Nat, totalAmount: Nat, amountPaid: Nat, amountDue: Int, rate: Nat]
    BY <1>b, <2>2 DEF HoldRow
  <2>4. new.nightlyRate = held.nightlyRate /\ new.roomCount = held.quantity
    OBVIOUS
  <2> HIDE DEF new
  <2>5. /\ stay' \in StayRow /\ StayFits'
        /\ stay'.nightlyRate = new.nightlyRate /\ stay'.roomCount = new.roomCount
    BY <2>1, <2>2, <2>3, PricedStay
  <2>6. TariffTypeOK'
    BY <1>b, <2>1, <2>5 DEF TariffTypeOK
  <2>7. QuotesFit'
    BY <1>a, <2>1, <2>4, <2>5 DEF QuotesFit
  <2> QED BY <2>5, <2>6, <2>7 DEF TariffOK
<1>8. CASE PayDue
  <2>1. /\ Present(stay) /\ stay' = [stay EXCEPT !.amountPaid = stay.totalAmount, !.amountDue = 0]
        /\ UNCHANGED <<basePrice, gst, changes, results, details, held>>
    BY <1>8 DEF PayDue, OnlyStay
  <2>2. stay \in StayRow
    BY <1>b, <2>1
  <2>3. /\ stay' \in StayRow
        /\ stay'.amountPaid = stay.totalAmount /\ stay'.amountDue = 0
        /\ stay'.subtotal = stay.subtotal /\ stay'.taxAmount = stay.taxAmount
        /\ stay'.totalAmount = stay.totalAmount /\ stay'.nightlyRate = stay.nightlyRate
        /\ stay'.roomCount = stay.roomCount /\ stay'.nights = stay.nights /\ stay'.rate = stay.rate
        /\ stay.totalAmount \in Nat
    <3>1. stay.totalAmount \in Nat
      BY <2>2 DEF StayRow
    <3> DEFINE paid == stay.totalAmount
    <3>2. paid \in Nat /\ stay' = [stay EXCEPT !.amountPaid = paid, !.amountDue = 0]
      BY <2>1, <3>1
    <3> HIDE DEF paid
    <3> DEFINE due == 0
    <3>a. due \in Int /\ stay' = [stay EXCEPT !.amountPaid = paid, !.amountDue = due]
      BY <3>2
    <3> HIDE DEF due
    <3>b. [stay EXCEPT !.amountPaid = paid, !.amountDue = due] \in StayRow
      BY <2>2, <3>2, <3>a, PaidStay
    <3>3. stay' \in StayRow
      BY <3>a, <3>b
    <3>4. stay'.amountPaid = paid
      BY <2>2, <3>2 DEF StayRow
    <3> QED BY <2>2, <3>1, <3>2, <3>3, <3>4 DEF StayRow, paid
  <2>4. TariffTypeOK'
    BY <1>b, <2>1, <2>3 DEF TariffTypeOK
  <2>5. StayFits'
    BY <1>a, <2>1, <2>3 DEF StayFits
  <2>6. QuotesFit'
    BY <1>a, <2>1, <2>3 DEF QuotesFit
  <2> QED BY <2>4, <2>5, <2>6 DEF TariffOK
<1>9. ASSUME NEW nights \in 1..(MaxNights + 1), DecideExtension(nights) PROVE TariffOK'
  <2>1. /\ Present(stay) /\ stay' = Priced(stay, nights, TaxRate)
        /\ UNCHANGED <<basePrice, gst, changes, results, details, held>>
    BY <1>9 DEF DecideExtension, OnlyStay
  <2>2. stay \in StayRow /\ nights \in Nat \ {0} /\ TaxRate \in Nat
    BY <1>b, <2>1, TaxRateIs, TariffAssumption
  <2>3. stay \in [asOf: Nat, nightlyRate: Prices, roomCount: Nat \ {0}, nights: Nat, subtotal: Nat,
                  taxAmount: Nat, totalAmount: Nat, amountPaid: Nat, amountDue: Int, rate: Nat]
    BY <2>2 DEF StayRow
  <2>4. /\ stay' \in StayRow /\ StayFits'
        /\ stay'.nightlyRate = stay.nightlyRate /\ stay'.roomCount = stay.roomCount
    BY <2>1, <2>2, <2>3, PricedStay
  <2>5. TariffTypeOK'
    BY <1>b, <2>1, <2>4 DEF TariffTypeOK
  <2>6. QuotesFit'
    BY <1>a, <2>1, <2>4 DEF QuotesFit
  <2> QED BY <2>4, <2>5, <2>6 DEF TariffOK
<1>10. CASE UNCHANGED tariffVars
  BY <1>a, <1>10 DEF tariffVars, TariffOK, TariffTypeOK, StayFits, QuotesFit
<1>11. ASSUME NEW price \in Prices, SetPrice(price) PROVE TariffOK'
  BY <1>1, <1>b, <1>11 DEF SetPrice, Change
<1>12. ASSUME NEW setting \in GstSettings, SetTax(setting) PROVE TariffOK'
  BY <1>1, <1>b, <1>12 DEF SetTax, Change
<1> QED
  BY <1>2, <1>3, <1>4, <1>5, <1>6, <1>7, <1>8, <1>9, <1>10, <1>11, <1>12 DEF TariffNext

\* Nothing is there at first, so everything fits.
LEMMA TariffAlways == TariffSpec => []TariffOK
<1>1. TariffInit => TariffOK
  BY Presence DEF TariffInit, TariffOK, TariffTypeOK, StayFits, QuotesFit
<1> QED
  BY <1>1, TariffStep, PTL DEF TariffSpec

-------------------------------------------------------------------------------
(* The bill *)

\* A bill of s without tax, taxed at rate, and the percentage printed for it.
BillIs(s, rate, t, percent) ==
    /\ t = Rounded(s * rate, Whole)
    /\ percent = IF t * 100 >= s THEN Rounded(1000 * t, s) * 10 ELSE Rounded(Whole * t, s)

\* The formula below the bill yields its balance.
LEMMA FormulaIsBalance ==
    ASSUME NEW s \in Nat \ {0}, NEW rate \in Nat, rate % 10 = 0, NEW t, NEW percent,
           BillIs(s, rate, t, percent)
    PROVE  LET f == Rounded(s * (Whole + percent), Whole) IN
           f \in Nat /\ f - (s + t) \in {-1, 0, 1}
<1>1. /\ s * rate \in Nat /\ Whole \in Nat \ {0} /\ t \in Nat
      /\ 20000 * t <= 2 * (s * rate) + 10000 /\ 2 * (s * rate) + 10000 < 20000 * t + 20000
  <2> DEFINE x == s * rate
  <2>1. x \in Nat /\ Whole \in Nat \ {0} /\ t = Rounded(x, Whole)
    BY DEF Whole, BillIs
  <2> HIDE DEF x
  <2>2. t \in Nat /\ 2 * (Whole * t) <= 2 * x + Whole /\ 2 * x + Whole < 2 * (Whole * t) + 2 * Whole
    BY <2>1, RoundedIs
  <2>3. t \in Nat /\ 20000 * t <= 2 * x + 10000 /\ 2 * x + 10000 < 20000 * t + 20000
    BY <2>1, <2>2 DEF Whole
  <2> QED BY <2>1, <2>3 DEF x
<1> DEFINE f == Rounded(s * (Whole + percent), Whole)
<1>2. ASSUME percent \in Nat
      PROVE  /\ f \in Nat
             /\ 20000 * f <= 20000 * s + 2 * (s * percent) + 10000
             /\ 20000 * s + 2 * (s * percent) + 10000 < 20000 * f + 20000
  <2> DEFINE x == s * (Whole + percent)
  <2>1. x \in Nat /\ x = 10000 * s + s * percent /\ s * percent \in Nat
    BY <1>2 DEF Whole
  <2>2. f \in Nat /\ 2 * (Whole * f) <= 2 * x + Whole /\ 2 * x + Whole < 2 * (Whole * f) + 2 * Whole
    <3>0. x \in Nat /\ Whole \in Nat \ {0}
      BY <1>1, <2>1
    <3> HIDE DEF x
    <3>1. /\ Rounded(x, Whole) \in Nat /\ 2 * (Whole * Rounded(x, Whole)) <= 2 * x + Whole
          /\ 2 * x + Whole < 2 * (Whole * Rounded(x, Whole)) + 2 * Whole
      BY <3>0, RoundedIs
    <3> QED BY <3>1 DEF x
  <2> HIDE DEF x, f
  <2> QED BY <2>1, <2>2 DEF Whole
<1>3. CASE t * 100 >= s
  <2> DEFINE m == Rounded(1000 * t, s)
             r == rate \div 10
  <2>1. percent = m * 10
    BY <1>3 DEF BillIs
  <2>2. /\ m \in Nat /\ 2 * (s * m) <= 2000 * t + s /\ 2000 * t + s < 2 * (s * m) + 2 * s
    <3> DEFINE x == 1000 * t
    <3>1. x \in Nat /\ m = Rounded(x, s)
      BY <1>1
    <3> HIDE DEF x, m
    <3>2. m \in Nat /\ 2 * (s * m) <= 2 * x + s /\ 2 * x + s < 2 * (s * m) + 2 * s
      BY <3>1, RoundedIs
    <3> QED BY <1>1, <3>1, <3>2 DEF x
  <2>3. r \in Nat /\ rate = 10 * r
    OBVIOUS
  <2> HIDE DEF m, r, f
  <2>4. percent \in Nat /\ s * percent = 10 * (s * m) /\ s * rate = 10 * (s * r)
        /\ s * m \in Nat /\ s * r \in Nat
    BY <2>1, <2>2, <2>3
  <2>5. /\ 20000 * t <= 20 * (s * r) + 10000 /\ 20 * (s * r) + 10000 < 20000 * t + 20000
    BY <1>1, <2>4
  <2>6. /\ f \in Nat /\ 20000 * f <= 20000 * s + 20 * (s * m) + 10000
        /\ 20000 * s + 20 * (s * m) + 10000 < 20000 * f + 20000
    BY <1>2, <2>4
  <2>7. f - (s + t) \in {-1, 0, 1}
    <3>1. CoarseBill(s, t, r, m, f)
      BY <2>2, <2>5, <2>6 DEF CoarseBill
    <3> QED BY <1>1, <2>2, <2>3, <2>6, <3>1, CoarsePercent
  <2> QED BY <2>6, <2>7 DEF f
<1>4. CASE ~(t * 100 >= s)
  <2>1. percent = Rounded(Whole * t, s) /\ Whole * t \in Nat
    BY <1>1, <1>4 DEF Whole, BillIs
  <2>2. /\ percent \in Nat /\ 2 * (s * percent) <= 20000 * t + s
        /\ 20000 * t + s < 2 * (s * percent) + 2 * s
    <3> DEFINE x == Whole * t
    <3>1. x \in Nat /\ percent = Rounded(x, s)
      BY <2>1
    <3> HIDE DEF x
    <3>2. /\ percent \in Nat /\ 2 * (s * percent) <= 2 * x + s
          /\ 2 * x + s < 2 * (s * percent) + 2 * s
      BY <3>1, RoundedIs
    <3> QED BY <1>1, <3>1, <3>2 DEF x, Whole
  <2>3. /\ f \in Nat /\ 20000 * f <= 20000 * s + 2 * (s * percent) + 10000
        /\ 20000 * s + 2 * (s * percent) + 10000 < 20000 * f + 20000
    BY <1>2, <2>2
  <2> HIDE DEF f
  <2>4. f - (s + t) \in {-1, 0, 1}
    <3>1. FineBill(s, t, rate, percent, f)
      BY <1>1, <2>2, <2>3 DEF FineBill
    <3> QED BY <1>1, <2>2, <2>3, <3>1, FinePercent
  <2> QED BY <2>3, <2>4 DEF f
<1> QED
  BY <1>3, <1>4

\* Every reachable state of the prices is well formed, for any prices and settings.
THEOREM TariffTypeCorrect == TariffSpec => []TariffTypeOK
<1>1. TariffOK => TariffTypeOK
  BY DEF TariffOK
<1> QED
  BY <1>1, TariffAlways, PTL

\* Every reachable stay's columns fit each other after any bookings, payments and
\* extensions, at any prices and taxes, and the formula printed below the bill
\* yields its balance.
THEOREM BillsAddUp == TariffSpec => []BillAddsUp
<1>1. TariffOK => BillAddsUp
  <2> SUFFICES ASSUME TariffOK, Present(stay)
               PROVE  /\ stay.subtotal = stay.nightlyRate * stay.nights * stay.roomCount
                      /\ stay.totalAmount = stay.subtotal + stay.taxAmount
                      /\ stay.amountPaid + stay.amountDue = stay.totalAmount
                      /\ BillFormula.balance = stay.amountDue
                      /\ stay.rate % 10 = 0 => Formula - stay.amountDue \in {-1, 0, 1}
    BY DEF BillAddsUp
  <2>1. stay \in StayRow
    BY DEF TariffOK, TariffTypeOK, Present
  <2>2. /\ stay.subtotal = stay.nightlyRate * stay.roomCount * stay.nights
        /\ stay.taxAmount = Rounded(stay.subtotal * stay.rate, Whole)
        /\ stay.totalAmount = stay.subtotal + stay.taxAmount
        /\ stay.amountPaid + stay.amountDue = stay.totalAmount
    BY DEF TariffOK, StayFits
  <2>3. /\ stay.nightlyRate \in Nat /\ stay.roomCount \in Nat /\ stay.nights \in Nat
        /\ stay.subtotal \in Nat \ {0} /\ stay.taxAmount \in Nat /\ stay.totalAmount \in Nat
        /\ stay.amountPaid \in Nat /\ stay.amountDue \in Int /\ stay.rate \in Nat
    BY <2>1, TariffAssumption DEF StayRow
  <2>4. \A a, b, c \in Nat : a * b * c = a * c * b
    OBVIOUS
  <2>5. stay.subtotal = stay.nightlyRate * stay.nights * stay.roomCount
    BY <2>2, <2>3, <2>4
  <2>6. BillFormula.balance = stay.amountDue
    BY DEF BillFormula
  <2>7. ASSUME stay.rate % 10 = 0 PROVE Formula - stay.amountDue \in {-1, 0, 1}
    <3> DEFINE percent == BillFormula.percent
               f == Rounded(stay.subtotal * (Whole + percent), Whole)
    <3>1. BillIs(stay.subtotal, stay.rate, stay.taxAmount, percent)
      BY <2>2 DEF BillFormula, BillIs
    <3>2. Formula = f - stay.amountPaid
      BY <2>5 DEF Formula
    <3> HIDE DEF percent
    <3>3. f \in Nat /\ f - (stay.subtotal + stay.taxAmount) \in {-1, 0, 1}
      BY <2>3, <2>7, <3>1, FormulaIsBalance
    <3> HIDE DEF f
    <3> QED BY <2>2, <2>3, <3>2, <3>3
  <2> QED BY <2>2, <2>5, <2>6, <2>7
<1> QED
  BY <1>1, TariffAlways, PTL

\* The columns of a hold are numbers.
LEMMA HoldNumbers ==
    TariffOK /\ Present(held) =>
        held.nightlyRate \in Nat /\ held.quantity \in Nat /\ held.nights \in Nat
  BY TariffAssumption DEF TariffOK, TariffTypeOK, Present, HoldRow

\* While price and tax stand still and GST is 12 %, the search, the details page, the
\* staff's form, the hold and the booking come to the same amount.
THEOREM QuotesStand == TariffSpec => []QuoteStands
<1>1. TariffOK => QuoteStands
  <2> SUFFICES ASSUME TariffOK, Present(stay), stay.rate = 1200, details.asOf = stay.asOf,
                      held.asOf = stay.asOf, stay.nights = held.nights
               PROVE  /\ held.totalAmount = stay.subtotal
                      /\ details.by = "guest" => DetailsTotal = stay.totalAmount
                      /\ results.asOf = stay.asOf => results.totalForStay * held.quantity = stay.subtotal
                      /\ details.by = "staff" => Estimate = stay.subtotal
    BY DEF QuoteStands
  <2>1. stay \in StayRow /\ Present(held) /\ Present(details)
    BY DEF TariffOK, TariffTypeOK, QuotesFit, Present
  <2>2. held \in HoldRow /\ details \in DetailsForm /\ (Present(results) => results \in ResultsPage)
    BY <2>1 DEF TariffOK, TariffTypeOK, Present
  <2>3. /\ stay.subtotal = stay.nightlyRate * stay.roomCount * stay.nights
        /\ stay.taxAmount = Rounded(stay.subtotal * 1200, Whole)
        /\ stay.totalAmount = stay.subtotal + stay.taxAmount
        /\ stay.nightlyRate = held.nightlyRate /\ stay.roomCount = held.quantity
        /\ held.totalAmount = held.nightlyRate * held.quantity * held.nights
        /\ held.nights = details.nights /\ held.quantity = details.rooms
        /\ held.nightlyRate = details.basePrice
    BY <2>1 DEF TariffOK, StayFits, QuotesFit
  <2>4. held.nightlyRate \in Nat /\ held.quantity \in Nat /\ held.nights \in Nat
    BY <2>1, HoldNumbers
  <2>5. \A a, b, c \in Nat : a * b * c = a * c * b
    OBVIOUS
  <2>6. held.totalAmount = stay.subtotal
    BY <2>3
  <2>7. DetailsSubtotal = stay.subtotal /\ Estimate = stay.subtotal
    BY <2>3, <2>4, <2>5 DEF DetailsSubtotal, Estimate
  <2>8. DetailsTotal = stay.totalAmount
    BY <2>3, <2>7 DEF DetailsTotal
  <2>9. ASSUME results.asOf = stay.asOf
        PROVE  results.totalForStay * held.quantity = stay.subtotal
    <3>1. Present(results)
      BY <2>1, <2>9, Presence DEF Present, None, StayRow
    <3>2. /\ results.totalForStay = results.nightlyRate * results.nights
          /\ results.nights = held.nights /\ results.nightlyRate = held.nightlyRate
      BY <2>1, <2>3, <2>9, <3>1 DEF TariffOK, QuotesFit
    <3> QED BY <2>3, <2>4, <2>5, <3>2
  <2> QED BY <2>6, <2>7, <2>8, <2>9
<1> QED
  BY <1>1, TariffAlways, PTL

\* Only an extension adds nights to a stay.
LEMMA NightsAdded ==
    ASSUME TariffOK, TariffNext, Present(stay), stay'.nights > stay.nights
    PROVE  \E nights \in 1..(MaxNights + 1) : DecideExtension(nights)
<1>1. stay \in StayRow
  BY DEF TariffOK, TariffTypeOK, Present
<1>2. stay.nights \in Nat /\ ~(stay.nights > stay.nights)
  BY <1>1 DEF StayRow
<1>3. stay' # stay
  BY <1>2
<1>4. CASE PayDue
  BY <1>1, <1>2, <1>4 DEF PayDue, StayRow
<1>5. ~CreateFromHold
  BY DEF CreateFromHold
<1> QED
  BY <1>2, <1>3, <1>4, <1>5
     DEF TariffNext, SetPrice, SetTax, Change, Search, ShowDetails, NewBooking, CreateHold, QuoteLapses,
         OnlyPages

\* While the tax stays what it was, an extension charges the added nights at the
\* price they were booked for, to the paisa that rounding may move.
THEOREM ExtensionsChargeAddedNights == TariffSpec => ExtensionChargesAddedNights
<1>1. ASSUME TariffOK, TariffNext, Present(stay), stay'.nights > stay.nights, stay'.rate = stay.rate
      PROVE  LET added == stay.nightlyRate * stay.roomCount * (stay'.nights - stay.nights)
                 charged == stay'.totalAmount - stay.totalAmount
             IN charged - added - Rounded(added * stay.rate, Whole) \in {-1, 0, 1}
  <2> DEFINE price == stay.nightlyRate * stay.roomCount
             more == stay'.nights - stay.nights
             added == price * more
             x == stay.subtotal * stay.rate
             y == added * stay.rate
  <2>1. stay \in StayRow
    BY <1>1 DEF TariffOK, TariffTypeOK, Present
  <2>2. PICK nights \in 1..(MaxNights + 1) : DecideExtension(nights)
    BY <1>1, NightsAdded
  <2>3. stay' = Priced(stay, nights, TaxRate) /\ nights \in Nat \ {0} /\ TaxRate \in Nat
    <3>1. gst \in GstSettings
      BY <1>1 DEF TariffOK, TariffTypeOK
    <3> QED BY <2>2, <3>1, TaxRateIs, TariffAssumption DEF DecideExtension
  <2>4. stay \in [asOf: Nat, nightlyRate: Prices, roomCount: Nat \ {0}, nights: Nat, subtotal: Nat,
                  taxAmount: Nat, totalAmount: Nat, amountPaid: Nat, amountDue: Int, rate: Nat]
    BY <2>1 DEF StayRow
  <2>5. /\ stay' \in StayRow /\ StayFits'
        /\ stay'.nightlyRate = stay.nightlyRate /\ stay'.roomCount = stay.roomCount
    BY <2>3, <2>4, PricedStay
  <2>6. /\ stay.subtotal = price * stay.nights /\ stay'.subtotal = price * stay'.nights
        /\ stay.totalAmount = stay.subtotal + Rounded(x, Whole)
        /\ stay'.totalAmount = stay'.subtotal + Rounded(stay'.subtotal * stay.rate, Whole)
    <3>1. Present(stay') /\ Present(stay)
      BY <2>5, Presence, <1>1
    <3>2. /\ stay'.subtotal = stay'.nightlyRate * stay'.roomCount * stay'.nights
          /\ stay'.taxAmount = Rounded(stay'.subtotal * stay'.rate, Whole)
          /\ stay'.totalAmount = stay'.subtotal + stay'.taxAmount
      BY <2>5, <3>1 DEF StayFits
    <3>3. /\ stay.subtotal = stay.nightlyRate * stay.roomCount * stay.nights
          /\ stay.taxAmount = Rounded(stay.subtotal * stay.rate, Whole)
          /\ stay.totalAmount = stay.subtotal + stay.taxAmount
      BY <1>1 DEF TariffOK, StayFits
    <3> QED BY <1>1, <2>5, <3>2, <3>3
  <2>7. /\ price \in Nat /\ stay.nights \in Nat /\ stay'.nights \in Nat /\ more \in Nat
        /\ stay'.nights = stay.nights + more /\ stay.rate \in Nat /\ stay.subtotal \in Nat
    <3>1. /\ stay.nightlyRate \in Nat /\ stay.roomCount \in Nat /\ stay.nights \in Nat
          /\ stay.rate \in Nat /\ stay.subtotal \in Nat
      BY <2>1, TariffAssumption DEF StayRow
    <3>2. stay'.nights \in Nat
      BY <2>5 DEF StayRow
    <3> QED BY <1>1, <3>1, <3>2
  <2> HIDE DEF price, more
  <2>8. added \in Nat /\ stay'.subtotal = stay.subtotal + added
    <3>1. price * (stay.nights + more) = price * stay.nights + price * more
      BY <2>7
    <3> QED BY <2>6, <2>7, <3>1
  <2> HIDE DEF added
  <2>9. x \in Nat /\ y \in Nat /\ stay'.subtotal * stay.rate = x + y
    <3>1. (stay.subtotal + added) * stay.rate = stay.subtotal * stay.rate + added * stay.rate
      BY <2>7, <2>8
    <3> QED BY <2>7, <2>8, <3>1
  <2>10. /\ Rounded(x, Whole) \in Nat /\ Rounded(y, Whole) \in Nat /\ Rounded(x + y, Whole) \in Nat
         /\ Rounded(x + y, Whole) - Rounded(x, Whole) - Rounded(y, Whole) \in {-1, 0, 1}
    <3> HIDE DEF x, y
    <3>1. Whole \in Nat \ {0} /\ x + y \in Nat
      BY <2>9 DEF Whole
    <3> QED BY <2>9, <3>1, RoundedIs, RoundedSum
  <2> DEFINE a == Rounded(x, Whole)
             b == Rounded(y, Whole)
             c == Rounded(x + y, Whole)
  <2>11. stay.totalAmount = stay.subtotal + a /\ stay'.totalAmount = stay.subtotal + added + c
    BY <2>6, <2>8, <2>9
  <2>12. (stay'.totalAmount - stay.totalAmount) - added - b \in {-1, 0, 1}
    <3> HIDE DEF x, y
    <3>1. a \in Nat /\ b \in Nat /\ c \in Nat /\ c - a - b \in {-1, 0, 1}
      BY <2>10
    <3> HIDE DEF a, b, c
    <3> QED BY <2>7, <2>8, <2>11, <3>1
  <2> QED BY <2>12 DEF added, price, more
<1>2. TariffOK /\ [TariffNext]_tariffVars =>
        [(Present(stay) /\ stay'.nights > stay.nights /\ stay'.rate = stay.rate) =>
            LET added == stay.nightlyRate * stay.roomCount * (stay'.nights - stay.nights)
                charged == stay'.totalAmount - stay.totalAmount
            IN charged - added - Rounded(added * stay.rate, Whole) \in {-1, 0, 1}]_tariffVars
  BY <1>1
<1> QED
  BY <1>2, TariffAlways, PTL DEF TariffSpec, ExtensionChargesAddedNights

-------------------------------------------------------------------------------
(* The browser                                                             *)

\* The capture of payment o has been recorded in the table rows.
RecordedIn(rows, o) == rows[o].providerPaymentId

\* What page x may show and be about to hand over, q being what its slot handles and
\* rows the Payment table.
PageOK(x, q, rows) ==
    /\ x \in {Blank} \cup DetailsPage \cup PaymentPage \cup ConfirmationPage
    /\ x.page = "pay" =>
        /\ x.widget \in {"open", "paid"} => x.order \in Payments
        /\ x.verify # "none" => x.reported \in Payments
        /\ x.verify = "read" /\ q.at = "capture" => q.payment = x.reported
        /\ x.verify = "done" => RecordedIn(rows, x.reported)
        /\ x.step = "success" => x.reported \in Payments /\ RecordedIn(rows, x.reported)
        /\ x.step = "paying" => x.asked \/ x.widget \in {"open", "paid"}
        /\ x.step = "verifying" => x.verify # "none"

\* What is kept of the history is yes or no.
HistoryOK == raced \in BOOLEAN /\ declined \in BOOLEAN /\ again \in BOOLEAN

\* The inductive invariant of the browser.
BrowserOK ==
    /\ TypeOK /\ WithinTotal
    /\ hold \in {"NONE", "ACTIVE", "EXPIRED", "CONVERTED"}
    /\ tab = [t \in Tabs |-> tab[t]]
    /\ \A t \in Tabs : PageOK(tab[t], request[t], payment)
    /\ created \in Seq(Payments)
    /\ {created[i] : i \in DOMAIN created} = {o \in Payments : Exists(o)}
    /\ HistoryOK

\* What the server does when a tab, a webhook, staff or a sweep has it do something.
ServerStep == [Next]_vars

\* A page that says it is the payment page is one.
LEMMA PageShape ==
    ASSUME NEW x \in {Blank} \cup DetailsPage \cup PaymentPage \cup ConfirmationPage
    PROVE  /\ x.page = "pay" => x \in PaymentPage
           /\ x.page = "details" => x \in DetailsPage
           /\ x.page = "confirmation" => x \in ConfirmationPage
           /\ Blank.page = "blank"
  BY DEF Blank, Page, DetailsPage, PaymentPage, ConfirmationPage

\* Every step of the checkout is a step of the payments' server or none of it.
LEMMA ServerSteps == BrowserOK /\ [CheckoutNext]_checkoutVars => ServerStep
<1> SUFFICES ASSUME BrowserOK, [CheckoutNext]_checkoutVars PROVE ServerStep
  OBVIOUS
<1>a. \A t \in Tabs : t \in Requests
  BY TabsAssumption
<1>1. ASSUME NEW t \in Tabs, TabNext(t) PROVE ServerStep
  <2>1. \/ OnlyTab \/ UNCHANGED vars \/ OrderRead(t) \/ OrderMade(t)
        \/ VerifyBegins(t) \/ VerifyEnds(t) \/ VerifyBreaks(t) \/ PaymentFailed(t) \/ Pay(t)
    BY <1>1 DEF TabNext, OpenDetails, Hold, HandleSubmit, OpenPayment, LoadFails, Load, ScriptLoads,
           StartPayment, OpenCheckout, StartPaymentFails, PaymentReported, Dismiss,
           Verified, VerifyFails, Redirect, ShowConfirmation, OrderRefused, OrderReused, OnlyTab, vars
  <2>2. CASE OnlyTab \/ UNCHANGED vars
    BY <2>2 DEF OnlyTab, ServerStep
  <2>3. CASE OrderRead(t) \/ OrderMade(t) \/ VerifyBegins(t) \/ VerifyEnds(t) \/ VerifyBreaks(t)
    BY <1>a, <2>3 DEF OrderRead, OrderMade, VerifyBegins, VerifyEnds, VerifyBreaks, ServerStep, Next, Handler
  <2>4. CASE Pay(t) \/ PaymentFailed(t)
    <3>1. /\ tab[t].page = "pay" /\ tab[t].widget = "open"
          /\ GuestPays(tab[t].order) \/ AttemptFails(tab[t].order)
      BY <2>4 DEF Pay, PaymentFailed, On
    <3>2. tab[t].order \in Payments
      BY <3>1 DEF BrowserOK, PageOK
    <3> QED BY <3>1, <3>2 DEF ServerStep, Next
  <2> QED BY <2>1, <2>2, <2>3, <2>4
<1>2. CASE HoldLapses
  BY <1>2 DEF HoldLapses, ServerStep
<1>3. CASE Elsewhere
  BY <1>3 DEF Elsewhere, ServerStep, Next, Handler
<1>4. CASE Crash
  BY <1>4 DEF Crash, ServerStep, Next
<1>5. CASE UNCHANGED checkoutVars
  BY <1>5 DEF checkoutVars, ServerStep
<1> QED
  BY <1>1, <1>2, <1>3, <1>4, <1>5 DEF CheckoutNext

\* A page remains as it was allowed to be.
LEMMA PageKept ==
    ASSUME NEW x, NEW q, NEW rows, PageOK(x, q, rows), NEW q2, NEW rows2,
           q2 = q \/ q2.at # "capture",
           \A o \in Payments : RecordedIn(rows, o) => RecordedIn(rows2, o)
    PROVE  PageOK(x, q2, rows2)
  BY DEF PageOK

\* The newest open order is an order.
LEMMA MaxIn ==
    ASSUME NEW n \in Nat, NEW S \in SUBSET (1..n), S # {}
    PROVE  Max(S) \in S
<1> DEFINE P == {T \in SUBSET S : T # {} => \E m \in T : \A y \in T : m >= y}
<1>1. {} \in P
  OBVIOUS
<1>2. \A T \in SUBSET S, x \in S : T \in P /\ x \notin T => T \cup {x} \in P
  <2> SUFFICES ASSUME NEW T \in SUBSET S, NEW x \in S, T \in P PROVE T \cup {x} \in P
    OBVIOUS
  <2>1. CASE T = {}
    BY <2>1
  <2>2. CASE T # {}
    <3>1. PICK m \in T : \A y \in T : m >= y
      BY <2>2
    <3>2. CASE m >= x
      BY <3>1, <3>2
    <3>3. CASE ~(m >= x)
      <4>1. \A y \in T \cup {x} : x >= y
        BY <3>1, <3>3
      <4> QED BY <4>1
    <3> QED BY <3>2, <3>3
  <2> QED BY <2>1, <2>2
<1>3. IsFiniteSet(S)
  <2>1. 1 \in Int /\ n \in Int
    OBVIOUS
  <2>2. IsFiniteSet(1..n)
    BY <2>1, FS_Interval
  <2> QED BY <2>2, FS_Subset
<1>4. S \in P
  <2> HIDE DEF P
  <2> QED BY <1>1, <1>2, <1>3, FiniteInduction
<1>5. \E m \in S : \A y \in S : m >= y
  BY <1>4
<1> QED
  BY <1>5 DEF Max

\* The order that is offered again is one of the orders.
LEMMA NewestIn == BrowserOK /\ Open # {} => Newest \in Payments
<1> SUFFICES ASSUME BrowserOK, Open # {} PROVE created[Max(Open)] \in Payments
  BY DEF Newest
<1>1. created \in Seq(Payments)
  BY DEF BrowserOK
<1>2. Len(created) \in Nat /\ DOMAIN created = 1..Len(created)
  BY <1>1
<1>3. Open \in SUBSET (1..Len(created))
  BY <1>2 DEF Open
<1>4. Max(Open) \in 1..Len(created)
  BY <1>2, <1>3, MaxIn
<1> QED
  BY <1>1, <1>2, <1>4

\* A step in which one tab shows something else.
LEMMA Shown ==
    ASSUME BrowserOK, NEW t \in Tabs, NEW x, tab' = [tab EXCEPT ![t] = x], TypeOK', WithinTotal',
           PageOK(x, request'[t], payment'), HistoryOK',
           hold' \in {"NONE", "ACTIVE", "EXPIRED", "CONVERTED"},
           created' \in Seq(Payments),
           {created'[i] : i \in DOMAIN created'} = {o \in Payments : payment'[o].status # "NONE"},
           \A u \in Tabs : u # t => request'[u] = request[u],
           \A o \in Payments : RecordedIn(payment, o) => RecordedIn(payment', o)
    PROVE  BrowserOK'
<1>1. tab = [u \in Tabs |-> tab[u]] /\ \A u \in Tabs : PageOK(tab[u], request[u], payment)
  BY DEF BrowserOK
<1>2. tab' = [u \in Tabs |-> tab'[u]] /\ tab'[t] = x /\ \A u \in Tabs : u # t => tab'[u] = tab[u]
  BY <1>1
<1>3. ASSUME NEW u \in Tabs PROVE PageOK(tab'[u], request'[u], payment')
  <2>1. CASE u = t
    BY <1>2, <2>1
  <2>2. CASE u # t
    <3>1. PageOK(tab[u], request[u], payment) /\ request'[u] = request[u] /\ tab'[u] = tab[u]
      BY <1>1, <1>2, <2>2
    <3>2. PageOK(tab[u], request'[u], payment')
      BY <3>1, PageKept
    <3> QED BY <3>1, <3>2
  <2> QED BY <2>1, <2>2
<1> QED
  BY <1>2, <1>3 DEF BrowserOK, Exists

\* A step in which nothing but a tab changes.
LEMMA TabAlone ==
    ASSUME BrowserOK, NEW t \in Tabs, NEW x, Show(t, x), UNCHANGED <<vars, created>>,
           hold' \in {"NONE", "ACTIVE", "EXPIRED", "CONVERTED"},
           PageOK(x, request[t], payment), HistoryOK'
    PROVE  BrowserOK'
<1>1. UNCHANGED <<reservation, payment, provider, request, created>> /\ tab' = [tab EXCEPT ![t] = x]
  BY DEF vars, Show
<1>2. TypeOK' /\ WithinTotal'
  BY <1>1 DEF BrowserOK, TypeOK, WithinTotal
<1>3. /\ created' \in Seq(Payments)
      /\ {created'[i] : i \in DOMAIN created'} = {o \in Payments : payment'[o].status # "NONE"}
  BY <1>1 DEF BrowserOK, Exists
<1>4. PageOK(x, request'[t], payment')
  BY <1>1
<1> QED
  BY <1>1, <1>2, <1>3, <1>4, Shown

\* A step in which nothing changes but what the server knows.
LEMMA ServerAlone ==
    ASSUME BrowserOK, TypeOK', WithinTotal', UNCHANGED <<tab, created>>, HistoryOK',
           \A o \in Payments : RecordedIn(payment, o) => RecordedIn(payment', o),
           hold' \in {"NONE", "ACTIVE", "EXPIRED", "CONVERTED"},
           \A o \in Payments : payment'[o].status = "NONE" <=> payment[o].status = "NONE",
           \A t \in Tabs : request'[t] = request[t] \/ request'[t].at # "capture"
    PROVE  BrowserOK'
<1>2. ASSUME NEW u \in Tabs PROVE PageOK(tab'[u], request'[u], payment')
  <2>1. PageOK(tab[u], request[u], payment) /\ tab'[u] = tab[u]
    BY DEF BrowserOK
  <2>2. PageOK(tab[u], request'[u], payment')
    BY <2>1, PageKept
  <2> QED BY <2>1, <2>2
<1>3. {o \in Payments : payment'[o].status # "NONE"} = {o \in Payments : payment[o].status # "NONE"}
  OBVIOUS
<1> QED
  BY <1>2, <1>3 DEF BrowserOK, Exists

\* The pages that open.
LEMMA Opened ==
    ASSUME NEW q, NEW rows
    PROVE  /\ \A h, e \in BOOLEAN : PageOK([page |-> "details", held |-> h, error |-> e], q, rows)
           /\ PageOK(Fresh, q, rows) /\ PageOK(Confirmation, q, rows)
           /\ \A s \in {"loading", "error", "PENDING_PAYMENT", "CONFIRMED", "EXPIRED", "CANCELLED"} :
                PageOK([page |-> "confirmation", shown |-> s], q, rows)
<1>1. \A h, e \in BOOLEAN : PageOK([page |-> "details", held |-> h, error |-> e], q, rows)
  BY DEF PageOK, DetailsPage
<1>2. \A s \in {"loading", "error", "PENDING_PAYMENT", "CONFIRMED", "EXPIRED", "CANCELLED"} :
        PageOK([page |-> "confirmation", shown |-> s], q, rows)
  BY DEF PageOK, ConfirmationPage
<1>3. PageOK(Confirmation, q, rows)
  BY <1>2 DEF Confirmation
<1>4. PageOK(Fresh, q, rows)
  <2>1. Fresh \in PaymentPage
    <3>1. 0 \in Amounts /\ NoOrder \in Payments \cup {NoOrder, "refused"} /\ NoOrder \in Payments \cup {NoOrder}
      BY AmountsAssumption DEF Amounts
    <3>2. \A due \in Amounts, o \in Payments \cup {NoOrder, "refused"}, n \in Payments \cup {NoOrder} :
            [page |-> "pay", step |-> "loading", known |-> FALSE, razorpayReady |-> FALSE,
             due |-> due, asked |-> FALSE, offered |-> o, widget |-> "closed",
             order |-> n, reported |-> n, verify |-> "none", redirect |-> FALSE] \in PaymentPage
      BY DEF PaymentPage
    <3> QED BY <3>1, <3>2 DEF Fresh
  <2>2. /\ Fresh.widget = "closed" /\ Fresh.verify = "none" /\ Fresh.step = "loading"
    BY DEF Fresh
  <2> QED BY <2>1, <2>2 DEF PageOK
<1> QED
  BY <1>1, <1>2, <1>3, <1>4

\* The steps of the details page and of the confirmation page, and those that lead
\* from page to page.
LEMMA DetailsStep ==
    ASSUME BrowserOK, NEW t \in Tabs, HistoryOK',
           OpenDetails(t) \/ Hold(t) \/ HandleSubmit(t) \/ OpenPayment(t) \/ ShowConfirmation(t) \/ Redirect(t)
    PROVE  BrowserOK'
<1>a. PageOK(tab[t], request[t], payment) /\ hold \in {"NONE", "ACTIVE", "EXPIRED", "CONVERTED"}
  BY DEF BrowserOK
<1>b. reservation.status \in {"PENDING_PAYMENT", "CONFIRMED", "EXPIRED", "CANCELLED"}
  BY DEF BrowserOK, TypeOK, ReservationRow
<1>1. CASE OpenDetails(t)
  BY <1>a, <1>1, Opened, TabAlone DEF OpenDetails, OnlyTab
<1>2. CASE OpenPayment(t)
  BY <1>a, <1>2, Opened, TabAlone DEF OpenPayment, OnlyTab
<1>3. CASE Redirect(t)
  BY <1>a, <1>3, Opened, TabAlone DEF Redirect, OnlyTab
<1>4. CASE ShowConfirmation(t)
  <2>1. tab[t] \in ConfirmationPage
    BY <1>a, <1>4, PageShape DEF ShowConfirmation, On, PageOK
  <2>2. PICK s \in {reservation.status, "error"} : Show(t, [tab[t] EXCEPT !.shown = s])
    BY <1>4 DEF ShowConfirmation
  <2>3. [tab[t] EXCEPT !.shown = s] = [page |-> "confirmation", shown |-> s]
    BY <2>1 DEF ConfirmationPage
  <2>4. PageOK([tab[t] EXCEPT !.shown = s], request[t], payment)
    BY <1>b, <2>3, Opened
  <2> QED BY <1>a, <1>4, <2>2, <2>4, TabAlone DEF ShowConfirmation, OnlyTab
<1>5. CASE Hold(t) \/ HandleSubmit(t)
  <2>1. tab[t] \in DetailsPage
    BY <1>a, <1>5, PageShape DEF Hold, HandleSubmit, On, PageOK
  <2>2. tab[t].held \in BOOLEAN /\ tab[t].error \in BOOLEAN
    BY <2>1 DEF DetailsPage
  <2>3. /\ [tab[t] EXCEPT !.held = TRUE] \in DetailsPage
        /\ [tab[t] EXCEPT !.error = TRUE] \in DetailsPage
    BY <2>1 DEF DetailsPage
  <2>4. \A x \in DetailsPage : PageOK(x, request[t], payment)
    BY DEF PageOK, DetailsPage
  <2>5. /\ PageOK([tab[t] EXCEPT !.held = TRUE], request[t], payment)
        /\ PageOK([tab[t] EXCEPT !.error = TRUE], request[t], payment)
        /\ PageOK(Fresh, request[t], payment)
    BY <2>3, <2>4, Opened
  <2>6. /\ UNCHANGED <<vars, created>> /\ hold' \in {"NONE", "ACTIVE", "EXPIRED", "CONVERTED"}
        /\ \/ Show(t, [tab[t] EXCEPT !.held = TRUE]) \/ Show(t, [tab[t] EXCEPT !.error = TRUE])
           \/ Show(t, Fresh)
    BY <1>a, <1>5 DEF Hold, HandleSubmit
  <2> QED BY <2>5, <2>6, TabAlone
<1> QED
  BY <1>1, <1>2, <1>3, <1>4, <1>5

\* What a payment page may turn into.
LEMMA Turned ==
    ASSUME NEW x \in PaymentPage, NEW q, NEW rows, PageOK(x, q, rows)
    PROVE  /\ \A k \in BOOLEAN :
                PageOK([x EXCEPT !.step = "error", !.known = k], q, rows)
           /\ \A d \in Amounts :
                PageOK([x EXCEPT !.step = "ready", !.known = TRUE, !.due = d], q, rows)
           /\ PageOK([x EXCEPT !.razorpayReady = TRUE], q, rows)
           /\ PageOK([x EXCEPT !.step = "paying", !.asked = TRUE, !.offered = NoOrder], q, rows)
           /\ \A o \in Payments :
                PageOK([x EXCEPT !.asked = FALSE, !.offered = NoOrder, !.widget = "open", !.order = o], q, rows)
           /\ PageOK([x EXCEPT !.asked = FALSE, !.offered = NoOrder, !.step = "error"], q, rows)
           /\ x.order \in Payments =>
                PageOK([x EXCEPT !.step = "verifying", !.verify = "sent", !.widget = "left",
                                !.reported = x.order], q, rows)
           /\ PageOK([x EXCEPT !.step = "ready", !.widget = "closed", !.order = NoOrder], q, rows)
           /\ PageOK([x EXCEPT !.step = "error"], q, rows)
           /\ x.verify = "done" =>
                PageOK([x EXCEPT !.step = "success", !.verify = "none", !.redirect = TRUE], q, rows)
           /\ PageOK([x EXCEPT !.step = "error", !.verify = "none"], q, rows)
           /\ \A o \in Payments \cup {NoOrder, "refused"} :
                PageOK([x EXCEPT !.offered = o], q, rows)
           /\ x.verify = "sent" /\ q.payment = x.reported =>
                PageOK([x EXCEPT !.verify = "read"], q, rows)
           /\ x.verify = "read" /\ RecordedIn(rows, x.reported) =>
                PageOK([x EXCEPT !.verify = "done"], q, rows)
           /\ x.widget = "open" =>
                PageOK([x EXCEPT !.widget = "paid"], q, rows)
           /\ PageOK([x EXCEPT !.step = "error", !.asked = FALSE], q, rows)
<1>a. 0 \in Amounts
  BY AmountsAssumption DEF Amounts
<1>b. x.page = "pay"
  BY DEF PaymentPage
<1>1. \A k \in BOOLEAN :
        PageOK([x EXCEPT !.step = "error", !.known = k], q, rows)
  <2> TAKE k \in BOOLEAN
  <2> DEFINE y == [x EXCEPT !.step = "error", !.known = k]
  <2>1. y \in PaymentPage
    BY <1>a DEF PaymentPage
  <2>2. /\ y.page = "pay" /\ y.step = "error" /\ y.asked = x.asked /\ y.verify = x.verify
        /\ y.widget = x.widget /\ y.order = x.order /\ y.reported = x.reported
    BY DEF PaymentPage
  <2> HIDE DEF y
  <2>3. PageOK(y, q, rows)
    BY <1>b, <2>1, <2>2 DEF PageOK
  <2> QED BY <2>3 DEF y
<1>2. \A d \in Amounts :
        PageOK([x EXCEPT !.step = "ready", !.known = TRUE, !.due = d], q, rows)
  <2> TAKE d \in Amounts
  <2> DEFINE y == [x EXCEPT !.step = "ready", !.known = TRUE, !.due = d]
  <2>1. y \in PaymentPage
    BY <1>a DEF PaymentPage
  <2>2. /\ y.page = "pay" /\ y.step = "ready" /\ y.asked = x.asked /\ y.verify = x.verify
        /\ y.widget = x.widget /\ y.order = x.order /\ y.reported = x.reported
    BY DEF PaymentPage
  <2> HIDE DEF y
  <2>3. PageOK(y, q, rows)
    BY <1>b, <2>1, <2>2 DEF PageOK
  <2> QED BY <2>3 DEF y
<1>3. PageOK([x EXCEPT !.razorpayReady = TRUE], q, rows)
  <2> DEFINE y == [x EXCEPT !.razorpayReady = TRUE]
  <2>1. y \in PaymentPage
    BY <1>a DEF PaymentPage
  <2>2. /\ y.page = "pay" /\ y.step = x.step /\ y.asked = x.asked /\ y.verify = x.verify
        /\ y.widget = x.widget /\ y.order = x.order /\ y.reported = x.reported
    BY DEF PaymentPage
  <2> HIDE DEF y
  <2>3. PageOK(y, q, rows)
    BY <1>b, <2>1, <2>2 DEF PageOK
  <2> QED BY <2>3 DEF y
<1>4. PageOK([x EXCEPT !.step = "paying", !.asked = TRUE, !.offered = NoOrder], q, rows)
  <2> DEFINE y == [x EXCEPT !.step = "paying", !.asked = TRUE, !.offered = NoOrder]
  <2>1. y \in PaymentPage
    BY <1>a DEF PaymentPage
  <2>2. /\ y.page = "pay" /\ y.step = "paying" /\ y.asked = TRUE /\ y.verify = x.verify
        /\ y.widget = x.widget /\ y.order = x.order /\ y.reported = x.reported
    BY DEF PaymentPage
  <2> HIDE DEF y
  <2>3. PageOK(y, q, rows)
    BY <1>b, <2>1, <2>2 DEF PageOK
  <2> QED BY <2>3 DEF y
<1>5. \A o \in Payments :
        PageOK([x EXCEPT !.asked = FALSE, !.offered = NoOrder, !.widget = "open", !.order = o], q, rows)
  <2> TAKE o \in Payments
  <2> DEFINE y == [x EXCEPT !.asked = FALSE, !.offered = NoOrder, !.widget = "open", !.order = o]
  <2>1. y \in PaymentPage
    BY <1>a DEF PaymentPage
  <2>2. /\ y.page = "pay" /\ y.step = x.step /\ y.asked = FALSE /\ y.verify = x.verify
        /\ y.widget = "open" /\ y.order = o /\ y.reported = x.reported
    BY DEF PaymentPage
  <2> HIDE DEF y
  <2>3. PageOK(y, q, rows)
    BY <1>b, <2>1, <2>2 DEF PageOK
  <2> QED BY <2>3 DEF y
<1>6. PageOK([x EXCEPT !.asked = FALSE, !.offered = NoOrder, !.step = "error"], q, rows)
  <2> DEFINE y == [x EXCEPT !.asked = FALSE, !.offered = NoOrder, !.step = "error"]
  <2>1. y \in PaymentPage
    BY <1>a DEF PaymentPage
  <2>2. /\ y.page = "pay" /\ y.step = "error" /\ y.asked = FALSE /\ y.verify = x.verify
        /\ y.widget = x.widget /\ y.order = x.order /\ y.reported = x.reported
    BY DEF PaymentPage
  <2> HIDE DEF y
  <2>3. PageOK(y, q, rows)
    BY <1>b, <2>1, <2>2 DEF PageOK
  <2> QED BY <2>3 DEF y
<1>7. x.order \in Payments =>
        PageOK([x EXCEPT !.step = "verifying", !.verify = "sent", !.widget = "left",
                        !.reported = x.order], q, rows)
  <2> DEFINE y == [x EXCEPT !.step = "verifying", !.verify = "sent", !.widget = "left",
                          !.reported = x.order]
  <2>1. y \in PaymentPage
    BY <1>a DEF PaymentPage
  <2>2. /\ y.page = "pay" /\ y.step = "verifying" /\ y.asked = x.asked /\ y.verify = "sent"
        /\ y.widget = "left" /\ y.order = x.order /\ y.reported = x.order
    BY DEF PaymentPage
  <2> HIDE DEF y
  <2>3. x.order \in Payments => PageOK(y, q, rows)
    BY <1>b, <2>1, <2>2 DEF PageOK
  <2> QED BY <2>3 DEF y
<1>8. PageOK([x EXCEPT !.step = "ready", !.widget = "closed", !.order = NoOrder], q, rows)
  <2> DEFINE y == [x EXCEPT !.step = "ready", !.widget = "closed", !.order = NoOrder]
  <2>1. y \in PaymentPage
    BY <1>a DEF PaymentPage
  <2>2. /\ y.page = "pay" /\ y.step = "ready" /\ y.asked = x.asked /\ y.verify = x.verify
        /\ y.widget = "closed" /\ y.order = NoOrder /\ y.reported = x.reported
    BY DEF PaymentPage
  <2> HIDE DEF y
  <2>3. PageOK(y, q, rows)
    BY <1>b, <2>1, <2>2 DEF PageOK
  <2> QED BY <2>3 DEF y
<1>9. PageOK([x EXCEPT !.step = "error"], q, rows)
  <2> DEFINE y == [x EXCEPT !.step = "error"]
  <2>1. y \in PaymentPage
    BY <1>a DEF PaymentPage
  <2>2. /\ y.page = "pay" /\ y.step = "error" /\ y.asked = x.asked /\ y.verify = x.verify
        /\ y.widget = x.widget /\ y.order = x.order /\ y.reported = x.reported
    BY DEF PaymentPage
  <2> HIDE DEF y
  <2>3. PageOK(y, q, rows)
    BY <1>b, <2>1, <2>2 DEF PageOK
  <2> QED BY <2>3 DEF y
<1>10. x.verify = "done" =>
        PageOK([x EXCEPT !.step = "success", !.verify = "none", !.redirect = TRUE], q, rows)
  <2> DEFINE y == [x EXCEPT !.step = "success", !.verify = "none", !.redirect = TRUE]
  <2>1. y \in PaymentPage
    BY <1>a DEF PaymentPage
  <2>2. /\ y.page = "pay" /\ y.step = "success" /\ y.asked = x.asked /\ y.verify = "none"
        /\ y.widget = x.widget /\ y.order = x.order /\ y.reported = x.reported
    BY DEF PaymentPage
  <2> HIDE DEF y
  <2>3. x.verify = "done" => PageOK(y, q, rows)
    BY <1>b, <2>1, <2>2 DEF PageOK
  <2> QED BY <2>3 DEF y
<1>11. PageOK([x EXCEPT !.step = "error", !.verify = "none"], q, rows)
  <2> DEFINE y == [x EXCEPT !.step = "error", !.verify = "none"]
  <2>1. y \in PaymentPage
    BY <1>a DEF PaymentPage
  <2>2. /\ y.page = "pay" /\ y.step = "error" /\ y.asked = x.asked /\ y.verify = "none"
        /\ y.widget = x.widget /\ y.order = x.order /\ y.reported = x.reported
    BY DEF PaymentPage
  <2> HIDE DEF y
  <2>3. PageOK(y, q, rows)
    BY <1>b, <2>1, <2>2 DEF PageOK
  <2> QED BY <2>3 DEF y
<1>12. \A o \in Payments \cup {NoOrder, "refused"} :
        PageOK([x EXCEPT !.offered = o], q, rows)
  <2> TAKE o \in Payments \cup {NoOrder, "refused"}
  <2> DEFINE y == [x EXCEPT !.offered = o]
  <2>1. y \in PaymentPage
    BY <1>a DEF PaymentPage
  <2>2. /\ y.page = "pay" /\ y.step = x.step /\ y.asked = x.asked /\ y.verify = x.verify
        /\ y.widget = x.widget /\ y.order = x.order /\ y.reported = x.reported
    BY DEF PaymentPage
  <2> HIDE DEF y
  <2>3. PageOK(y, q, rows)
    BY <1>b, <2>1, <2>2 DEF PageOK
  <2> QED BY <2>3 DEF y
<1>13. x.verify = "sent" /\ q.payment = x.reported =>
        PageOK([x EXCEPT !.verify = "read"], q, rows)
  <2> DEFINE y == [x EXCEPT !.verify = "read"]
  <2>1. y \in PaymentPage
    BY <1>a DEF PaymentPage
  <2>2. /\ y.page = "pay" /\ y.step = x.step /\ y.asked = x.asked /\ y.verify = "read"
        /\ y.widget = x.widget /\ y.order = x.order /\ y.reported = x.reported
    BY DEF PaymentPage
  <2> HIDE DEF y
  <2>3. x.verify = "sent" /\ q.payment = x.reported => PageOK(y, q, rows)
    BY <1>b, <2>1, <2>2 DEF PageOK
  <2> QED BY <2>3 DEF y
<1>14. x.verify = "read" /\ RecordedIn(rows, x.reported) =>
        PageOK([x EXCEPT !.verify = "done"], q, rows)
  <2> DEFINE y == [x EXCEPT !.verify = "done"]
  <2>1. y \in PaymentPage
    BY <1>a DEF PaymentPage
  <2>2. /\ y.page = "pay" /\ y.step = x.step /\ y.asked = x.asked /\ y.verify = "done"
        /\ y.widget = x.widget /\ y.order = x.order /\ y.reported = x.reported
    BY DEF PaymentPage
  <2> HIDE DEF y
  <2>3. x.verify = "read" /\ RecordedIn(rows, x.reported) => PageOK(y, q, rows)
    BY <1>b, <2>1, <2>2 DEF PageOK
  <2> QED BY <2>3 DEF y
<1>15. x.widget = "open" =>
        PageOK([x EXCEPT !.widget = "paid"], q, rows)
  <2> DEFINE y == [x EXCEPT !.widget = "paid"]
  <2>1. y \in PaymentPage
    BY <1>a DEF PaymentPage
  <2>2. /\ y.page = "pay" /\ y.step = x.step /\ y.asked = x.asked /\ y.verify = x.verify
        /\ y.widget = "paid" /\ y.order = x.order /\ y.reported = x.reported
    BY DEF PaymentPage
  <2> HIDE DEF y
  <2>3. x.widget = "open" => PageOK(y, q, rows)
    BY <1>b, <2>1, <2>2 DEF PageOK
  <2> QED BY <2>3 DEF y
<1>16. PageOK([x EXCEPT !.step = "error", !.asked = FALSE], q, rows)
  <2> DEFINE y == [x EXCEPT !.step = "error", !.asked = FALSE]
  <2>1. y \in PaymentPage
    BY <1>a DEF PaymentPage
  <2>2. /\ y.page = "pay" /\ y.step = "error" /\ y.asked = FALSE /\ y.verify = x.verify
        /\ y.widget = x.widget /\ y.order = x.order /\ y.reported = x.reported
    BY DEF PaymentPage
  <2> HIDE DEF y
  <2>3. PageOK(y, q, rows)
    BY <1>b, <2>1, <2>2 DEF PageOK
  <2> QED BY <2>3 DEF y
<1> QED
  BY <1>1, <1>2, <1>3, <1>4, <1>5, <1>6, <1>7, <1>8, <1>9, <1>10, <1>11, <1>12, <1>13, <1>14, <1>15, <1>16


\* What is known of a tab on the payment page.
LEMMA OnPay ==
    ASSUME BrowserOK, NEW t \in Tabs, On(t, "pay")
    PROVE  tab[t] \in PaymentPage /\ PageOK(tab[t], request[t], payment)
<1>1. PageOK(tab[t], request[t], payment) /\ tab[t].page = "pay"
  BY DEF BrowserOK, On
<1> QED
  BY <1>1, PageShape DEF PageOK

\* The steps of the payment page itself.
LEMMA PageStep ==
    ASSUME BrowserOK, NEW t \in Tabs, HistoryOK',
           \/ LoadFails(t) \/ Load(t) \/ ScriptLoads(t) \/ StartPayment(t) \/ OpenCheckout(t)
           \/ StartPaymentFails(t) \/ PaymentReported(t) \/ Dismiss(t)
           \/ Verified(t) \/ VerifyFails(t) \/ OrderRefused(t) \/ OrderReused(t)
    PROVE  BrowserOK'
<1>1. On(t, "pay") /\ OnlyTab
  BY DEF LoadFails, Load, ScriptLoads, StartPayment, OpenCheckout, StartPaymentFails, PaymentReported,
         Dismiss, Verified, VerifyFails, OrderRefused, OrderReused, At
<1>2. tab[t] \in PaymentPage /\ PageOK(tab[t], request[t], payment)
  BY <1>1, OnPay
<1>3. UNCHANGED <<vars, created>> /\ hold' \in {"NONE", "ACTIVE", "EXPIRED", "CONVERTED"}
  BY <1>1 DEF OnlyTab, BrowserOK
<1>4. ASSUME NEW x, Show(t, x), PageOK(x, request[t], payment) PROVE BrowserOK'
  BY <1>3, <1>4, TabAlone
<1>5. CASE LoadFails(t)
  BY <1>2, <1>4, <1>5, Turned DEF LoadFails
<1>6. CASE Load(t)
  <2>1. reservation.amountDue \in Amounts
    BY DEF BrowserOK, TypeOK, ReservationRow
  <2>2. CASE reservation.amountDue = 0
    BY <1>4, <1>6, <2>2, Opened DEF Load
  <2>3. CASE reservation.amountDue # 0
    BY <1>2, <1>4, <1>6, <2>1, <2>3, Turned DEF Load
  <2> QED BY <2>2, <2>3
<1>7. CASE ScriptLoads(t)
  BY <1>2, <1>4, <1>7, Turned DEF ScriptLoads
<1>8. CASE StartPayment(t)
  BY <1>2, <1>4, <1>8, Turned DEF StartPayment
<1>9. CASE OpenCheckout(t)
  BY <1>2, <1>4, <1>9, Turned DEF OpenCheckout
<1>10. CASE StartPaymentFails(t)
  BY <1>2, <1>4, <1>10, Turned DEF StartPaymentFails
<1>11. CASE PaymentReported(t)
  <2>1. tab[t].order \in Payments
    BY <1>2, <1>11 DEF PaymentReported, PageOK, PaymentPage
  <2> QED BY <1>2, <1>4, <1>11, <2>1, Turned DEF PaymentReported
<1>12. CASE Dismiss(t)
  BY <1>2, <1>4, <1>12, Turned DEF Dismiss
<1>14. CASE Verified(t)
  BY <1>2, <1>4, <1>14, Turned DEF Verified
<1>15. CASE VerifyFails(t)
  BY <1>2, <1>4, <1>15, Turned DEF VerifyFails
<1>16. CASE OrderRefused(t)
  BY <1>2, <1>4, <1>16, Turned DEF OrderRefused
<1>17. CASE OrderReused(t)
  <2>1. Newest \in Payments
    BY <1>17, NewestIn DEF OrderReused
  <2> QED BY <1>2, <1>4, <1>17, <2>1, Turned DEF OrderReused
<1> QED
  BY <1>5, <1>6, <1>7, <1>8, <1>9, <1>10, <1>11, <1>12, <1>14, <1>15, <1>16, <1>17

-------------------------------------------------------------------------------
(* The page and the server together                                        *)

\* Rows are only added, what a handler has read of them is there, and so is what
\* was paid; a row that is CAPTURED names its payment.
RowsRead ==
    /\ \A p \in Requests :
        request[p].at \in {"capture", "refundCall", "refundMark"} => Exists(request[p].payment)
    /\ \A o \in Payments :
        /\ payment[o].status = "CAPTURED" => payment[o].providerPaymentId
        /\ payment[o].providerPaymentId \/ provider[o].captured => Exists(o)

\* Nothing but the status of rows changes, and that of rows that are there.
OnlyStatus ==
    \A o \in Payments :
        /\ payment'[o].amount = payment[o].amount
        /\ payment'[o].providerPaymentId = payment[o].providerPaymentId
        /\ \/ payment'[o].status = payment[o].status
           \/ Exists(o) /\ payment'[o].status \in {"FAILED", "REFUNDED", "PARTIALLY_REFUNDED"}

\* What staff and the webhooks note of a payment is its status.
LEMMA StatusSteps ==
    ASSUME TypeOK, RowsRead,
           \/ \E p \in Requests : RefundMark(p)
           \/ \E o \in Payments : RefundedWebhook(o)
           \/ FailedWebhook
    PROVE  OnlyStatus /\ UNCHANGED reservation
<1>a. payment \in [Payments -> PaymentRow] /\ request \in [Requests -> RequestState]
  BY DEF TypeOK
<1>1. ASSUME NEW p \in Requests, RefundMark(p) PROVE OnlyStatus /\ UNCHANGED reservation
  <2> DEFINE o == request[p].payment
  <2>1. o \in Payments /\ Exists(o) /\ UNCHANGED reservation
    BY <1>a, <1>1, RequestShape DEF RefundMark, RowsRead
  <2>2. PICK status \in {"REFUNDED", "PARTIALLY_REFUNDED"} : payment' = [payment EXCEPT ![o].status = status]
    BY <1>1 DEF RefundMark
  <2> HIDE DEF o
  <2> QED BY <1>a, <2>1, <2>2 DEF OnlyStatus, PaymentRow
<1>2. ASSUME NEW o \in Payments, RefundedWebhook(o) PROVE OnlyStatus /\ UNCHANGED reservation
  BY <1>a, <1>2 DEF RefundedWebhook, OnlyStatus, PaymentRow, RowsRead
<1>3. CASE FailedWebhook
  <2>1. UNCHANGED reservation
    BY <1>3 DEF FailedWebhook
  <2>2. PICK failed : payment' = [o \in Payments |->
                            IF o \in failed /\ Exists(o)
                            THEN [payment[o] EXCEPT !.status = "FAILED"]
                            ELSE payment[o]]
    BY <1>3 DEF FailedWebhook
  <2>3. ASSUME NEW o \in Payments
        PROVE  \/ payment'[o] = payment[o]
               \/ Exists(o) /\ payment'[o] = [payment[o] EXCEPT !.status = "FAILED"]
    BY <2>2
  <2>4. ASSUME NEW o \in Payments
        PROVE  /\ payment'[o].amount = payment[o].amount
               /\ payment'[o].providerPaymentId = payment[o].providerPaymentId
               /\ \/ payment'[o].status = payment[o].status
                  \/ Exists(o) /\ payment'[o].status = "FAILED"
    <3>1. payment[o] \in PaymentRow
      BY <1>a
    <3>2. CASE Exists(o) /\ payment'[o] = [payment[o] EXCEPT !.status = "FAILED"]
      BY <3>1, <3>2 DEF PaymentRow
    <3>3. CASE payment'[o] = payment[o]
      BY <3>3
    <3> QED BY <2>3, <3>2, <3>3
  <2> QED BY <2>1, <2>4 DEF OnlyStatus
<1> QED
  BY <1>1, <1>2, <1>3

\* The ways in which a step changes the table.
LEMMA RowsEffect ==
    ASSUME TypeOK, RowsRead, ServerStep
    PROVE  \/ UNCHANGED payment
           \/ \E p \in Requests, n \in Payments :
                /\ CreateOrder(p) /\ ~Exists(n)
                /\ payment' = [payment EXCEPT ![n] =
                    [status |-> "CREATED", amount |-> request[p].amount, providerPaymentId |-> FALSE]]
           \/ \E p \in Requests :
                /\ Capture(p) /\ request[p].payment \in Payments /\ Exists(request[p].payment)
                /\ payment[request[p].payment].status # "CAPTURED"
                /\ payment' = [payment EXCEPT ![request[p].payment].status = "CAPTURED",
                                              ![request[p].payment].providerPaymentId = TRUE]
           \/ OnlyStatus /\ UNCHANGED reservation
<1>a. payment \in [Payments -> PaymentRow] /\ request \in [Requests -> RequestState]
  BY DEF TypeOK
<1>b. \A p \in Requests : request[p].at \in {"capture", "refundCall", "refundMark"} =>
            request[p].payment \in Payments /\ Exists(request[p].payment)
  BY <1>a, RequestShape DEF RowsRead
<1>1. ASSUME NEW p \in Requests, Capture(p), ~UNCHANGED payment
      PROVE  /\ request[p].payment \in Payments /\ Exists(request[p].payment)
             /\ payment[request[p].payment].status # "CAPTURED"
             /\ payment' = [payment EXCEPT ![request[p].payment].status = "CAPTURED",
                                           ![request[p].payment].providerPaymentId = TRUE]
  BY <1>b, <1>1 DEF Capture
<1>2. ASSUME \/ \E p \in Requests : RefundMark(p)
             \/ \E o \in Payments : RefundedWebhook(o)
             \/ FailedWebhook
      PROVE  OnlyStatus /\ UNCHANGED reservation
  BY <1>2, StatusSteps
<1>5. ASSUME NEW p \in Requests, CreateOrder(p)
      PROVE  \E n \in Payments :
                /\ ~Exists(n)
                /\ payment' = [payment EXCEPT ![n] =
                    [status |-> "CREATED", amount |-> request[p].amount, providerPaymentId |-> FALSE]]
  BY <1>5 DEF CreateOrder
<1> QED
  BY <1>1, <1>2, <1>5 DEF ServerStep, Next, Handler, vars, CreateOrderRead, VerifyRead,
     CapturedWebhookRead, ReadForCapture, CaptureFails, RefundRead, RefundCall, RefundReadReservation,
     RefundWrite, ExtendRead, Extend, AttemptFails, GuestPays, EventAges, Expire, Cancel, Restart

\* Rows stay, what was recorded of them stays, and only an order that is made adds one.
LEMMA RowsKept ==
    ASSUME TypeOK, RowsRead, ServerStep
    PROVE  /\ \A o \in Payments : payment[o].status # "NONE" => payment'[o].status # "NONE"
           /\ \A o \in Payments : RecordedIn(payment, o) => RecordedIn(payment', o)
           /\ \A o \in Payments :
                /\ payment'[o].status = "CAPTURED" => payment'[o].providerPaymentId
                /\ payment'[o].providerPaymentId => payment'[o].status # "NONE"
<1> USE DEF RowsRead, Exists, RecordedIn
<1>a. payment \in [Payments -> PaymentRow]
  BY DEF TypeOK
<1>1. CASE UNCHANGED payment
  BY <1>1
<1>2. ASSUME NEW p \in Requests, NEW n \in Payments, CreateOrder(p), ~Exists(n),
             payment' = [payment EXCEPT ![n] =
                [status |-> "CREATED", amount |-> request[p].amount, providerPaymentId |-> FALSE]]
      PROVE  /\ \A o \in Payments : payment[o].status # "NONE" => payment'[o].status # "NONE"
             /\ \A o \in Payments : payment[o].providerPaymentId => payment'[o].providerPaymentId
             /\ \A o \in Payments :
                /\ payment'[o].status = "CAPTURED" => payment'[o].providerPaymentId
                /\ payment'[o].providerPaymentId => payment'[o].status # "NONE"
  <2>1. \A o \in Payments :
            \/ payment'[o] = payment[o]
            \/ /\ payment[o].status = "NONE"
               /\ payment'[o] = [status |-> "CREATED", amount |-> request[p].amount,
                                 providerPaymentId |-> FALSE]
    BY <1>a, <1>2
  <2> QED BY <2>1
<1>3. ASSUME NEW n \in Payments, Exists(n),
             payment' = [payment EXCEPT ![n].status = "CAPTURED", ![n].providerPaymentId = TRUE]
      PROVE  /\ \A o \in Payments : payment'[o].status = "NONE" <=> payment[o].status = "NONE"
             /\ \A o \in Payments : payment[o].providerPaymentId => payment'[o].providerPaymentId
             /\ \A o \in Payments :
                /\ payment'[o].status = "CAPTURED" => payment'[o].providerPaymentId
                /\ payment'[o].providerPaymentId => payment'[o].status # "NONE"
  <2>1. \A o \in Payments : o # n => payment'[o] = payment[o]
    BY <1>a, <1>3
  <2>2. payment'[n].status = "CAPTURED" /\ payment'[n].providerPaymentId /\ payment[n].status # "NONE"
    BY <1>a, <1>3 DEF PaymentRow
  <2> QED BY <2>1, <2>2
<1>4. CASE OnlyStatus
  BY <1>4 DEF OnlyStatus
<1> QED
  BY <1>1, <1>2, <1>3, <1>4, RowsEffect

\* A handler holds what it held, or has read a row that is there.
LEMMA RowsStep ==
    ASSUME TypeOK, RowsRead, ServerStep
    PROVE  RowsRead'
<1> DEFINE Held == {"capture", "refundCall", "refundMark"}
<1>a. payment \in [Payments -> PaymentRow] /\ request \in [Requests -> RequestState]
      /\ provider \in [Payments -> ProviderOrder]
  BY DEF TypeOK
<1>b. \A p \in Requests : request[p].at \in Held => request[p].payment \in Payments
  BY <1>a, RequestShape
<1>c. \A o \in Payments :
        /\ payment[o].status # "NONE" => payment'[o].status # "NONE"
        /\ payment'[o].status = "CAPTURED" => payment'[o].providerPaymentId
        /\ payment'[o].providerPaymentId => payment'[o].status # "NONE"
  BY RowsKept
<1>d. ASSUME \A p \in Requests : request'[p].at \in Held =>
                \/ request[p].at \in Held /\ request'[p].payment = request[p].payment
                \/ request'[p].payment \in Payments /\ Exists(request'[p].payment),
             \A o \in Payments : provider'[o].captured => provider[o].captured \/ Exists(o)
      PROVE  RowsRead'
  BY <1>b, <1>c, <1>d DEF RowsRead, Exists
<1>1. ASSUME NEW p \in Requests,
             \/ request' = [request EXCEPT ![p] = Idle]
             \/ CreateOrderRead(p) \/ ExtendRead(p) \/ RefundReadReservation(p),
             \A o \in Payments : provider'[o].captured => provider[o].captured
      PROVE  RowsRead'
  <2>1. \A q \in Requests : request'[q].at \in Held => request'[q] = request[q]
    BY <1>a, <1>1 DEF CreateOrderRead, ExtendRead, RefundReadReservation, Idle
  <2> QED BY <1>d, <1>1, <2>1
<1>2. ASSUME NEW p \in Requests, NEW o \in Payments, NEW webhook \in BOOLEAN, ReadForCapture(p, o, webhook)
      PROVE  RowsRead'
  <2>1. Exists(o) /\ UNCHANGED provider
        /\ \A q \in Requests : request'[q] = request[q] \/ request'[q].payment = o
    BY <1>a, <1>2 DEF ReadForCapture
  <2> QED BY <1>d, <2>1
<1>3. ASSUME NEW p \in Requests, RefundRead(p) PROVE RowsRead'
  <2>1. PICK o \in Payments : Refundable(o) /\ \E amount \in 1..payment[o].amount :
            request' = [request EXCEPT ![p] = [at |-> "refundCall", payment |-> o, amount |-> amount]]
    BY <1>3 DEF RefundRead
  <2>2. Exists(o) /\ UNCHANGED provider
    BY <1>3, <2>1 DEF RefundRead, Refundable, Exists
  <2>3. \A q \in Requests : request'[q] = request[q] \/ request'[q].payment = o
    BY <1>a, <2>1
  <2> QED BY <1>d, <2>1, <2>2, <2>3
<1>4. ASSUME NEW p \in Requests, RefundCall(p) \/ RefundMark(p) PROVE RowsRead'
  <2>1. request[p].at \in {"refundCall", "refundMark"}
    BY <1>4 DEF RefundCall, RefundMark
  <2>2. request[p] \in [at: {"refundCall", "refundMark", "refundRead"}, payment: Payments, amount: Amounts]
    BY <1>a, <2>1 DEF RequestState, Idle
  <2>3. \E at \in {"refundMark", "refundRead"} :
            request' = [request EXCEPT ![p].at = at] \/ request' = [request EXCEPT ![p] = Idle]
    BY <1>4 DEF RefundCall, RefundMark
  <2>4. \A q \in Requests : request'[q].at \in Held =>
            request[q].at \in Held /\ request'[q].payment = request[q].payment
    BY <1>a, <2>1, <2>2, <2>3 DEF Idle
  <2>5. \A o \in Payments : provider'[o].captured = provider[o].captured
    BY <1>a, <1>4, RequestShape DEF RefundCall, RefundMark, ProviderOrder
  <2> QED BY <1>d, <2>4, <2>5
<1>5. ASSUME NEW o \in Payments, AttemptFails(o) \/ GuestPays(o) \/ EventAges(o) PROVE RowsRead'
  <2>1. UNCHANGED request
    BY <1>5 DEF AttemptFails, GuestPays, EventAges
  <2>2. \A n \in Payments : provider'[n].captured => provider[n].captured \/ Exists(n)
    BY <1>a, <1>5 DEF AttemptFails, GuestPays, EventAges, ProviderOrder
  <2> QED BY <1>d, <2>1, <2>2
<1>6. ASSUME NEW p \in Requests, CaptureFails(p) PROVE RowsRead'
  <2>1. \A o \in Payments : provider'[o].captured = provider[o].captured
    BY <1>a, <1>6 DEF CaptureFails, ProviderOrder
  <2> QED BY <1>1, <1>6, <2>1 DEF CaptureFails
<1>7. CASE UNCHANGED <<request, provider>>
  BY <1>d, <1>7
<1>8. CASE Restart
  BY <1>d, <1>8 DEF Restart, Idle
<1>9. ASSUME NEW p \in Requests,
             CreateOrder(p) \/ Capture(p) \/ RefundWrite(p) \/ Extend(p) \/ CreateOrderRead(p)
                \/ ExtendRead(p) \/ RefundReadReservation(p)
      PROVE  RowsRead'
  BY <1>1, <1>9 DEF CreateOrder, Capture, RefundWrite, Extend, CreateOrderRead, ExtendRead,
                    RefundReadReservation
<1> QED
  BY <1>2, <1>3, <1>4, <1>5, <1>6, <1>7, <1>8, <1>9 DEF ServerStep, Next, Handler, vars, VerifyRead,
     CapturedWebhookRead, RefundedWebhook, FailedWebhook, Expire, Cancel

\* A tab whose call makes an order.
LEMMA OrderMadeStep ==
    ASSUME BrowserOK, NEW t \in Tabs, OrderMade(t), TypeOK', WithinTotal', HistoryOK',
           \A o \in Payments : RecordedIn(payment, o) => RecordedIn(payment', o)
    PROVE  BrowserOK'
<1>a. t \in Requests
  BY TabsAssumption
<1>1. PICK o \in Payments :
        /\ ~Exists(o) /\ payment'[o].status = "CREATED"
        /\ created' = Append(created, o)
        /\ tab' = [tab EXCEPT ![t] =
                IF On(t, "pay") /\ tab[t].asked THEN [tab[t] EXCEPT !.offered = o] ELSE @]
  BY DEF OrderMade
<1>2. \E n \in Payments : payment' = [payment EXCEPT ![n] =
                [status |-> "CREATED", amount |-> request[t].amount, providerPaymentId |-> FALSE]]
  BY DEF OrderMade, CreateOrder
<1>3. \A n \in Payments : payment'[n].status # "NONE" <=> n = o \/ payment[n].status # "NONE"
  BY <1>1, <1>2 DEF BrowserOK, TypeOK, Exists
<1>4. request' = [request EXCEPT ![t] = Idle] /\ request'[t].at = "idle"
  BY <1>a DEF OrderMade, CreateOrder, BrowserOK, TypeOK, Idle
<1>5. /\ created' \in Seq(Payments)
      /\ {created'[i] : i \in DOMAIN created'} = {created[i] : i \in DOMAIN created} \cup {o}
  <2>1. created \in Seq(Payments)
    BY DEF BrowserOK
  <2>2. /\ Len(created) \in Nat /\ DOMAIN created = 1..Len(created)
        /\ created' \in Seq(Payments) /\ DOMAIN created' = 1..(Len(created) + 1)
        /\ created'[Len(created) + 1] = o
        /\ \A i \in 1..Len(created) : created'[i] = created[i]
    BY <1>1, <2>1
  <2> QED BY <2>2
<1>6. {created'[i] : i \in DOMAIN created'} = {n \in Payments : payment'[n].status # "NONE"}
  BY <1>3, <1>5 DEF BrowserOK, Exists
<1> DEFINE x == IF On(t, "pay") /\ tab[t].asked THEN [tab[t] EXCEPT !.offered = o] ELSE tab[t]
<1>7. tab' = [tab EXCEPT ![t] = x]
  BY <1>1
<1>8. PageOK(tab[t], request'[t], payment')
  <2>1. PageOK(tab[t], request[t], payment)
    BY DEF BrowserOK
  <2> QED BY <1>4, <2>1, PageKept
<1>9. PageOK(x, request'[t], payment')
  <2>1. CASE On(t, "pay") /\ tab[t].asked
    <3>1. tab[t] \in PaymentPage
      BY <2>1, OnPay
    <3> QED BY <1>8, <2>1, <3>1, Turned
  <2>2. CASE ~(On(t, "pay") /\ tab[t].asked)
    BY <1>8, <2>2
  <2> QED BY <2>1, <2>2
<1>10. \A u \in Tabs : u # t => request'[u] = request[u]
  BY <1>4, TabsAssumption DEF BrowserOK, TypeOK
<1>11. hold' \in {"NONE", "ACTIVE", "EXPIRED", "CONVERTED"}
  BY DEF OrderMade, BrowserOK
<1> HIDE DEF x
<1> QED
  BY <1>5, <1>6, <1>7, <1>9, <1>10, <1>11, Shown

\* A tab whose call verifies the payment, and a guest who pays or is declined.
LEMMA VerifyStep ==
    ASSUME BrowserOK, RowsRead', NEW t \in Tabs,
           VerifyBegins(t) \/ VerifyEnds(t) \/ VerifyBreaks(t) \/ PaymentFailed(t) \/ Pay(t),
           TypeOK', WithinTotal', HistoryOK',
           \A o \in Payments : RecordedIn(payment, o) => RecordedIn(payment', o),
           \A o \in Payments : payment'[o].status = "NONE" <=> payment[o].status = "NONE"
    PROVE  BrowserOK'
<1>a. t \in Requests /\ request \in [Requests -> RequestState] /\ payment \in [Payments -> PaymentRow]
  BY TabsAssumption DEF BrowserOK, TypeOK
<1>b. /\ created' \in Seq(Payments) /\ hold' \in {"NONE", "ACTIVE", "EXPIRED", "CONVERTED"}
      /\ {created'[i] : i \in DOMAIN created'} = {o \in Payments : payment'[o].status # "NONE"}
  <2>1. UNCHANGED <<hold, created>>
    BY DEF VerifyBegins, VerifyEnds, VerifyBreaks, PaymentFailed, Pay
  <2> QED BY <2>1 DEF BrowserOK, Exists
<1>c. PageOK(tab[t], request[t], payment)
  BY DEF BrowserOK
<1>d. ASSUME NEW x, tab' = [tab EXCEPT ![t] = x], PageOK(x, request'[t], payment'),
             \A u \in Tabs : u # t => request'[u] = request[u]
      PROVE  BrowserOK'
  BY <1>b, <1>d, Shown
<1>1. CASE VerifyBegins(t)
  <2>1. On(t, "pay") /\ tab[t].verify = "sent" /\ tab' = [tab EXCEPT ![t] = [tab[t] EXCEPT !.verify = "read"]]
    BY <1>1 DEF VerifyBegins, Show
  <2>2. tab[t] \in PaymentPage
    BY <2>1, OnPay
  <2>3. PageOK(tab[t], request'[t], payment')
    BY <1>c, <2>1 DEF PageOK
  <2>4. request'[t].payment = tab[t].reported
    BY <1>1 DEF VerifyBegins
  <2>5. PageOK([tab[t] EXCEPT !.verify = "read"], request'[t], payment')
    BY <2>1, <2>2, <2>3, <2>4, Turned
  <2>6. \A u \in Tabs : u # t => request'[u] = request[u]
    BY <1>1, <1>a, TabsAssumption DEF VerifyBegins, VerifyRead, ReadForCapture
  <2> QED BY <1>d, <2>1, <2>5, <2>6
<1>2. CASE VerifyEnds(t)
  <2> DEFINE x == IF On(t, "pay") /\ tab[t].verify = "read" THEN [tab[t] EXCEPT !.verify = "done"]
                                                            ELSE tab[t]
  <2>1. tab' = [tab EXCEPT ![t] = x] /\ request[t].at = "capture" /\ request' = [request EXCEPT ![t] = Idle]
    BY <1>2 DEF VerifyEnds, Capture
  <2>2. PageOK(tab[t], request'[t], payment')
    <3>1. request'[t].at = "idle"
      BY <1>a, <2>1 DEF Idle
    <3> QED BY <1>c, <3>1, PageKept
  <2>3. PageOK(x, request'[t], payment')
    <3>1. CASE On(t, "pay") /\ tab[t].verify = "read"
      <4>1. tab[t] \in PaymentPage
        BY <3>1, OnPay
      <4>2. request[t].payment = tab[t].reported /\ tab[t].reported \in Payments
        BY <1>c, <2>1, <3>1 DEF PageOK, On
      <4>3. payment'[request[t].payment].status = "CAPTURED"
        BY <1>2, <1>a, <4>2 DEF VerifyEnds, Capture, PaymentRow
      <4>4. RecordedIn(payment', tab[t].reported)
        BY <4>2, <4>3 DEF RecordedIn, RowsRead
      <4> QED BY <2>2, <3>1, <4>1, <4>4, Turned
    <3>2. CASE ~(On(t, "pay") /\ tab[t].verify = "read")
      BY <2>2, <3>2
    <3> QED BY <3>1, <3>2
  <2>4. \A u \in Tabs : u # t => request'[u] = request[u]
    BY <1>a, <2>1, TabsAssumption
  <2> HIDE DEF x
  <2> QED BY <1>d, <2>1, <2>3, <2>4
<1>4. CASE VerifyBreaks(t)
  <2> DEFINE x == IF On(t, "pay") /\ tab[t].verify = "read"
                  THEN [tab[t] EXCEPT !.step = "error", !.verify = "none"] ELSE tab[t]
  <2>1. /\ tab' = [tab EXCEPT ![t] = x] /\ request' = [request EXCEPT ![t] = Idle] /\ UNCHANGED payment
    BY <1>4 DEF VerifyBreaks, CaptureFails
  <2>2. PageOK(tab[t], request'[t], payment')
    <3>1. request'[t].at = "idle"
      BY <1>a, <2>1 DEF Idle
    <3> QED BY <1>c, <3>1, PageKept
  <2>3. PageOK(x, request'[t], payment')
    <3>1. CASE On(t, "pay") /\ tab[t].verify = "read"
      <4>1. tab[t] \in PaymentPage
        BY <3>1, OnPay
      <4> QED BY <2>2, <3>1, <4>1, Turned
    <3>2. CASE ~(On(t, "pay") /\ tab[t].verify = "read")
      BY <2>2, <3>2
    <3> QED BY <3>1, <3>2
  <2>4. \A u \in Tabs : u # t => request'[u] = request[u]
    BY <1>a, <2>1, TabsAssumption
  <2> HIDE DEF x
  <2> QED BY <1>d, <2>1, <2>3, <2>4
<1>5. CASE PaymentFailed(t)
  <2>1. /\ On(t, "pay") /\ tab' = [tab EXCEPT ![t] = [tab[t] EXCEPT !.step = "error"]]
        /\ UNCHANGED <<payment, request>>
    BY <1>5 DEF PaymentFailed, AttemptFails, Show
  <2>2. tab[t] \in PaymentPage
    BY <2>1, OnPay
  <2>3. PageOK([tab[t] EXCEPT !.step = "error"], request'[t], payment')
    BY <1>c, <2>1, <2>2, Turned
  <2> QED BY <1>d, <2>1, <2>3
<1>3. CASE Pay(t)
  <2>1. /\ On(t, "pay") /\ tab[t].widget = "open" /\ tab' = [tab EXCEPT ![t] = [tab[t] EXCEPT !.widget = "paid"]]
        /\ UNCHANGED <<payment, request>>
    BY <1>3 DEF Pay, GuestPays, Show
  <2>2. tab[t] \in PaymentPage
    BY <2>1, OnPay
  <2>3. PageOK([tab[t] EXCEPT !.widget = "paid"], request'[t], payment')
    BY <1>c, <2>1, <2>2, Turned
  <2> QED BY <1>d, <2>1, <2>3
<1> QED
  BY <1>1, <1>2, <1>3, <1>4, <1>5

\* A crash fails the calls the server was handling.
LEMMA CrashStep ==
    ASSUME BrowserOK, Crash, TypeOK', WithinTotal', HistoryOK'
    PROVE  BrowserOK'
<1>1. /\ UNCHANGED <<payment, hold, created>> /\ request' = [p \in Requests |-> Idle]
      /\ tab' = [t \in Tabs |->
            IF On(t, "pay") /\ tab[t].asked /\ request[t] # Idle
            THEN [tab[t] EXCEPT !.step = "error", !.asked = FALSE]
            ELSE IF On(t, "pay") /\ tab[t].verify = "read"
            THEN [tab[t] EXCEPT !.step = "error", !.verify = "none"]
            ELSE tab[t]]
  BY DEF Crash, Restart
<1>2. ASSUME NEW t \in Tabs PROVE PageOK(tab'[t], request'[t], payment')
  <2>1. request'[t].at = "idle"
    BY <1>1, TabsAssumption DEF Idle
  <2>2. PageOK(tab[t], request[t], payment)
    BY DEF BrowserOK
  <2>3. PageOK(tab[t], request'[t], payment)
    BY <2>1, <2>2, PageKept
  <2>4. CASE On(t, "pay") /\ tab[t].asked /\ request[t] # Idle
    <3>1. tab[t] \in PaymentPage
      BY <2>4, OnPay
    <3>2. PageOK([tab[t] EXCEPT !.step = "error", !.asked = FALSE], request'[t], payment)
      BY <2>3, <3>1, Turned
    <3> QED BY <1>1, <2>4, <3>2
  <2>5. CASE ~(On(t, "pay") /\ tab[t].asked /\ request[t] # Idle) /\ On(t, "pay") /\ tab[t].verify = "read"
    <3>1. tab[t] \in PaymentPage
      BY <2>5, OnPay
    <3>2. PageOK([tab[t] EXCEPT !.step = "error", !.verify = "none"], request'[t], payment)
      BY <2>3, <3>1, Turned
    <3> QED BY <1>1, <2>5, <3>2
  <2>6. CASE /\ ~(On(t, "pay") /\ tab[t].asked /\ request[t] # Idle)
             /\ ~(On(t, "pay") /\ tab[t].verify = "read")
    BY <1>1, <2>3, <2>6
  <2> QED BY <2>4, <2>5, <2>6
<1>3. tab' = [t \in Tabs |-> tab'[t]]
  BY <1>1
<1> QED
  BY <1>1, <1>2, <1>3, ZenonT(40) DEF BrowserOK, Exists

\* What is said of the browser is inductive, together with what handlers have read.
LEMMA BrowserStep ==
    BrowserOK /\ RowsRead /\ [CheckoutNext]_checkoutVars => BrowserOK' /\ RowsRead'
<1> SUFFICES ASSUME BrowserOK, RowsRead, [CheckoutNext]_checkoutVars PROVE BrowserOK' /\ RowsRead'
  OBVIOUS
<1>a. ServerStep /\ TypeOK /\ WithinTotal
  BY ServerSteps DEF BrowserOK
<1>b. TypeOK' /\ WithinTotal'
  BY <1>a, TypeStep DEF ServerStep
<1>c. \A o \in Payments : RecordedIn(payment, o) => RecordedIn(payment', o)
  BY <1>a, RowsKept
<1>d. RowsRead'
  BY <1>a, RowsStep
<1>f. HistoryOK'
  <2>1. HistoryOK /\ Overlap' \in BOOLEAN /\ Declined \in BOOLEAN /\ RecordedAgain \in BOOLEAN
    BY DEF BrowserOK, Overlap, Declined, RecordedAgain
  <2>2. /\ raced' = (raced \/ Overlap') \/ raced' = raced
        /\ declined' = (declined \/ Declined) \/ declined' = declined
        /\ again' = (again \/ RecordedAgain) \/ again' = again
    BY DEF CheckoutNext, checkoutVars
  <2> QED BY <2>1, <2>2 DEF HistoryOK
<1>g. hold \in {"NONE", "ACTIVE", "EXPIRED", "CONVERTED"} /\ request \in [Requests -> RequestState]
  BY DEF BrowserOK, TypeOK
<1>h. ASSUME NEW p \in Requests, Capture(p)
      PROVE  \A o \in Payments : payment'[o].status = "NONE" <=> payment[o].status = "NONE"
  <2>1. /\ request[p].at = "capture"
        /\ \/ payment' = payment
           \/ payment' = [payment EXCEPT ![request[p].payment].status = "CAPTURED",
                                         ![request[p].payment].providerPaymentId = TRUE]
    BY <1>h DEF Capture
  <2>2. request[p].payment \in Payments /\ payment[request[p].payment].status # "NONE"
    BY <1>g, <2>1, RequestShape DEF RowsRead, Exists
  <2> QED BY <1>a, <2>1, <2>2 DEF TypeOK, PaymentRow
<1>1. ASSUME NEW t \in Tabs, TabNext(t) PROVE BrowserOK'
  <2>a. t \in Requests
    BY TabsAssumption
  <2>1. CASE \/ OpenDetails(t) \/ Hold(t) \/ HandleSubmit(t) \/ OpenPayment(t)
             \/ ShowConfirmation(t) \/ Redirect(t)
    BY <1>f, <2>1, DetailsStep
  <2>2. CASE \/ LoadFails(t) \/ Load(t) \/ ScriptLoads(t) \/ StartPayment(t) \/ OpenCheckout(t)
             \/ StartPaymentFails(t) \/ PaymentReported(t) \/ Dismiss(t)
             \/ Verified(t) \/ VerifyFails(t) \/ OrderRefused(t) \/ OrderReused(t)
    BY <1>f, <2>2, PageStep
  <2>3. CASE OrderRead(t)
    <3>1. /\ request' = [request EXCEPT ![t] = [at |-> "createOrder", amount |-> reservation.amountDue]]
          /\ UNCHANGED <<payment, tab, hold, created>>
      BY <2>3 DEF OrderRead, CreateOrderRead
    <3>2. \A u \in Tabs : request'[u] = request[u] \/ request'[u].at # "capture"
      BY <1>g, <3>1, TabsAssumption
    <3> QED BY <1>b, <1>c, <1>f, <1>g, <3>1, <3>2, ServerAlone
  <2>4. CASE OrderMade(t)
    BY <1>b, <1>c, <1>f, <2>4, OrderMadeStep
  <2>5. CASE VerifyBegins(t) \/ VerifyEnds(t) \/ VerifyBreaks(t) \/ PaymentFailed(t) \/ Pay(t)
    <3>1. \A o \in Payments : payment'[o].status = "NONE" <=> payment[o].status = "NONE"
      <4>1. CASE ~VerifyEnds(t)
        BY <2>5, <4>1 DEF VerifyBegins, VerifyRead, ReadForCapture, VerifyBreaks, CaptureFails,
                          PaymentFailed, AttemptFails, Pay, GuestPays
      <4>2. CASE VerifyEnds(t)
        BY <1>h, <2>a, <4>2 DEF VerifyEnds
      <4> QED BY <4>1, <4>2
    <3> QED BY <1>b, <1>c, <1>d, <1>f, <2>5, <3>1, VerifyStep
  <2> QED BY <1>1, <2>1, <2>2, <2>3, <2>4, <2>5 DEF TabNext
<1>2. CASE HoldLapses
  <2>1. UNCHANGED <<payment, request, tab, created>>
    BY <1>2 DEF HoldLapses, vars
  <2>3. hold' \in {"NONE", "ACTIVE", "EXPIRED", "CONVERTED"} /\ UNCHANGED <<tab, created>>
    BY <1>2 DEF HoldLapses
  <2>2. /\ \A o \in Payments : payment'[o].status = "NONE" <=> payment[o].status = "NONE"
        /\ \A t \in Tabs : request'[t] = request[t] \/ request'[t].at # "capture"
    BY <2>1
  <2> QED BY <1>b, <1>c, <1>d, <1>f, <2>2, <2>3, ServerAlone
<1>3. CASE Elsewhere
  <2>1. UNCHANGED <<tab, hold, created>>
    BY <1>3 DEF Elsewhere
  <2>2. /\ \A u \in Tabs : request'[u] = request[u] \/ request'[u].at # "capture"
        /\ \A o \in Payments : payment'[o].status = "NONE" <=> payment[o].status = "NONE"
    <3>1. \A o \in Payments : payment'[o].status = "NONE" <=> payment[o].status = "NONE"
      <4>1. ASSUME NEW p \in Requests, Capture(p)
            PROVE  \A o \in Payments : payment'[o].status = "NONE" <=> payment[o].status = "NONE"
        BY <4>1, <1>h
      <4>2. CASE OnlyStatus
        BY <4>2 DEF OnlyStatus, Exists
      <4>3. CASE \/ \E p \in Requests : RefundMark(p)
                 \/ \E o \in Payments : RefundedWebhook(o)
                 \/ FailedWebhook
        BY <1>a, <4>2, <4>3, StatusSteps
      <4>4. CASE \/ \E p \in Requests :
                    \/ \E o \in Payments : CapturedWebhookRead(p, o)
                    \/ CaptureFails(p) \/ RefundRead(p) \/ RefundCall(p)
                    \/ RefundReadReservation(p) \/ RefundWrite(p)
                    \/ ExtendRead(p) \/ Extend(p)
                 \/ \E o \in Payments : EventAges(o)
                 \/ Expire \/ Cancel
        <5>1. UNCHANGED payment
          BY <4>4 DEF CapturedWebhookRead, ReadForCapture, CaptureFails, RefundRead, RefundCall,
                      RefundReadReservation, RefundWrite, ExtendRead, Extend, EventAges, Expire, Cancel
        <5> QED BY <5>1
      <4> QED BY <1>3, <4>1, <4>3, <4>4 DEF Elsewhere
    <3>2. \A u \in Tabs : request'[u] = request[u]
      <4>1. ASSUME NEW p \in Requests \ Tabs, \E x : request' = [request EXCEPT ![p] = x]
            PROVE  \A u \in Tabs : request'[u] = request[u]
        BY <1>g, <4>1, TabsAssumption
      <4>2. ASSUME NEW p \in Requests \ Tabs,
                   \/ \E o \in Payments : CapturedWebhookRead(p, o)
                   \/ Capture(p) \/ CaptureFails(p)
                   \/ RefundRead(p) \/ RefundCall(p) \/ RefundMark(p)
                   \/ RefundReadReservation(p) \/ RefundWrite(p)
                   \/ ExtendRead(p) \/ Extend(p)
            PROVE  \A u \in Tabs : request'[u] = request[u]
        <5>1. \/ \E x : request' = [request EXCEPT ![p] = x]
              \/ \E at : request' = [request EXCEPT ![p].at = at]
          BY <4>2 DEF CapturedWebhookRead, ReadForCapture, Capture, CaptureFails, RefundRead, RefundCall,
                      RefundMark, RefundReadReservation, RefundWrite, ExtendRead, Extend
        <5> QED BY <1>g, <4>1, <5>1, TabsAssumption
      <4>3. ASSUME \/ \E o \in Payments : EventAges(o) \/ RefundedWebhook(o)
                   \/ FailedWebhook \/ Expire \/ Cancel
            PROVE  UNCHANGED request
        BY <4>3 DEF EventAges, RefundedWebhook, FailedWebhook, Expire, Cancel
      <4> QED BY <1>3, <4>2, <4>3 DEF Elsewhere
    <3> QED BY <3>1, <3>2
  <2>3. hold' \in {"NONE", "ACTIVE", "EXPIRED", "CONVERTED"} /\ UNCHANGED <<tab, created>>
    BY <1>g, <2>1
  <2> QED BY <1>b, <1>c, <1>d, <1>f, <2>2, <2>3, ServerAlone
<1>4. CASE Crash
  BY <1>4, <1>b, <1>d, <1>f, CrashStep
<1>5. CASE UNCHANGED checkoutVars
  <2>1. UNCHANGED <<reservation, payment, provider, request, tab, hold, created>>
    BY <1>5 DEF checkoutVars, vars
  <2>2. /\ \A o \in Payments : payment'[o].status = "NONE" <=> payment[o].status = "NONE"
        /\ \A t \in Tabs : request'[t] = request[t] \/ request'[t].at # "capture"
    BY <2>1
  <2>3. hold' \in {"NONE", "ACTIVE", "EXPIRED", "CONVERTED"} /\ UNCHANGED <<tab, created>>
    BY <1>g, <2>1
  <2> QED BY <1>b, <1>c, <1>d, <1>f, <2>2, <2>3, ServerAlone
<1>6. BrowserOK'
  BY <1>1, <1>2, <1>3, <1>4, <1>5 DEF CheckoutNext
<1> QED
  BY <1>6, <1>d

\* It holds when nothing is open yet.
LEMMA BrowserInit == CheckoutInit => BrowserOK /\ RowsRead
<1> SUFFICES ASSUME CheckoutInit PROVE BrowserOK /\ RowsRead
  OBVIOUS
<1>0. Init /\ \A p \in Requests : request[p].at = "idle"
  BY DEF CheckoutInit, Init, Idle
<1>1. TypeOK /\ WithinTotal /\ RowsRead
  <2>1. TypeOK /\ WithinTotal
    BY <1>0, AmountsAssumption DEF Init, TypeOK, WithinTotal, Amounts, ReservationRow, PaymentRow, NoPayment,
                ProviderOrder, OpenOrder, RequestState, Idle
  <2>2. \A o \in Payments :
            payment[o].status = "NONE" /\ ~payment[o].providerPaymentId /\ ~provider[o].captured
    BY <1>0 DEF Init, NoPayment, OpenOrder
  <2> QED BY <1>0, <2>1, <2>2 DEF RowsRead
<1>2. \A t \in Tabs : PageOK(tab[t], request[t], payment)
  BY DEF CheckoutInit, PageOK, Blank, Page
<1>3. created = << >> /\ \A o \in Payments : payment[o].status = "NONE"
  BY DEF CheckoutInit, Init, NoPayment
<1>4. /\ tab = [t \in Tabs |-> tab[t]] /\ HistoryOK
      /\ hold \in {"NONE", "ACTIVE", "EXPIRED", "CONVERTED"}
  BY DEF CheckoutInit, HistoryOK
<1>5. created \in Seq(Payments) /\ {created[i] : i \in DOMAIN created} = {o \in Payments : Exists(o)}
  BY <1>3 DEF Exists
<1> QED
  BY <1>1, <1>2, <1>4, <1>5 DEF BrowserOK

\* Hence it always holds.
LEMMA BrowserAlways == CheckoutSpec => [](BrowserOK /\ RowsRead)
  BY BrowserInit, BrowserStep, PTL DEF CheckoutSpec

\* The checkout is the payments' server with a browser in front of it: every
\* behaviour of the pages, the guest and everybody else is one of Payments.tla.
THEOREM CheckoutIsPayments == CheckoutSpec => Spec
<1>1. CheckoutInit => Init
  BY DEF CheckoutInit
<1>2. BrowserOK /\ [CheckoutNext]_checkoutVars => [Next]_vars
  BY ServerSteps DEF ServerStep
<1> QED
  BY <1>1, <1>2, BrowserAlways, PTL DEF CheckoutSpec, Spec

\* Every tab, the rows' order and the handlers' slots are well formed.
THEOREM CheckoutTypeCorrect == CheckoutSpec => []CheckoutTypeOK
<1>1. BrowserOK => CheckoutTypeOK
  <2> SUFFICES ASSUME BrowserOK PROVE CheckoutTypeOK
    OBVIOUS
  <2>1. tab = [t \in Tabs |-> tab[t]]
        /\ \A t \in Tabs : tab[t] \in {Blank} \cup DetailsPage \cup PaymentPage \cup ConfirmationPage
    BY DEF BrowserOK, PageOK
  <2> HIDE DEF Blank
  <2>2. tab \in [Tabs -> {Blank} \cup DetailsPage \cup PaymentPage \cup ConfirmationPage]
    BY <2>1
  <2> QED BY <2>2 DEF BrowserOK, CheckoutTypeOK, HistoryOK
<1> QED
  BY <1>1, BrowserAlways, PTL

\* What is captured and what handlers hold is real below the browser, too.
LEMMA RealAlways == CheckoutSpec => []CapturesAreReal
<1>1. CheckoutInit => CapturesAreReal
  BY DEF CheckoutInit, Init, CapturesAreReal, RecordedOnlyIfCaptured, Recorded, NoPayment, OpenOrder, Idle
<1>2. BrowserOK /\ CapturesAreReal /\ [CheckoutNext]_checkoutVars => CapturesAreReal'
  BY ServerSteps, RealStep DEF BrowserOK, ServerStep
<1> QED
  BY <1>1, <1>2, BrowserAlways, PTL DEF CheckoutSpec

\* Whatever is lost, reloaded, dismissed, declined, refunded or crashes, a page that
\* says the payment was received names a payment that the provider captured and of
\* which the capture was recorded, and a page that spins waits for a call or for the
\* widget.
THEOREM PagesAreTrue == CheckoutSpec => []PageIsTrue
<1>1. BrowserOK /\ CapturesAreReal => PageIsTrue
  BY DEF BrowserOK, PageOK, PageIsTrue, SuccessIsRecorded, SpinnerWaits, At, On, RecordedIn, CapturesAreReal
<1> QED
  BY <1>1, BrowserAlways, RealAlways, PTL

-------------------------------------------------------------------------------
(* The money                                                               *)

\* The amount of each row.
AmountOf(rows) == [o \in Payments |-> rows[o].amount]
\* The rows of which a capture was recorded.
RecordedRows(rows) == {o \in Payments : rows[o].providerPaymentId}
\* What they come to.
Credited(rows) == SumFunctionOnSet(AmountOf(rows), RecordedRows(rows))

\* The sum is one of finitely many natural numbers.
LEMMA RowsAreFinite ==
    ASSUME NEW rows \in [Payments -> PaymentRow]
    PROVE  /\ \A S \in SUBSET Payments : IsFiniteSet(S)
           /\ \A o \in Payments : AmountOf(rows)[o] = rows[o].amount /\ rows[o].amount \in Nat
           /\ RecordedRows(rows) \in SUBSET Payments
           /\ Credited(rows) \in Nat
<1>1. \A S \in SUBSET Payments : IsFiniteSet(S)
  BY OrdersAssumption, FS_Subset
<1>2. \A o \in Payments : AmountOf(rows)[o] = rows[o].amount /\ rows[o].amount \in Nat
  BY AmountsAssumption DEF AmountOf, PaymentRow, Amounts
<1>3. RecordedRows(rows) \in SUBSET Payments
  BY DEF RecordedRows
<1>4. IsFiniteSet(RecordedRows(rows)) /\ \A o \in RecordedRows(rows) : AmountOf(rows)[o] \in Nat
  BY <1>1, <1>2, <1>3
<1>5. Credited(rows) \in Nat
  BY <1>4, SumNat DEF Credited
<1> QED
  BY <1>1, <1>2, <1>3, <1>5

\* What is credited depends on the rows that are recorded and on their amounts.
LEMMA CreditSame ==
    ASSUME NEW rows \in [Payments -> PaymentRow], NEW rows2 \in [Payments -> PaymentRow],
           RecordedRows(rows2) = RecordedRows(rows),
           \A o \in RecordedRows(rows) : rows2[o].amount = rows[o].amount
    PROVE  Credited(rows2) = Credited(rows)
<1>1. \A o \in Payments : AmountOf(rows)[o] = rows[o].amount /\ rows[o].amount \in Nat
  BY RowsAreFinite
<1>2. \A o \in Payments : AmountOf(rows2)[o] = rows2[o].amount
  BY RowsAreFinite
<1>3. RecordedRows(rows) \in SUBSET Payments /\ IsFiniteSet(RecordedRows(rows))
  BY RowsAreFinite
<1>4. \A o \in RecordedRows(rows) : AmountOf(rows)[o] \in Int /\ AmountOf(rows)[o] = AmountOf(rows2)[o]
  BY <1>1, <1>2, <1>3
<1>5. SumFunctionOnSet(AmountOf(rows), RecordedRows(rows)) = SumFunctionOnSet(AmountOf(rows2), RecordedRows(rows))
  BY <1>3, <1>4, SumSame
<1> QED
  BY <1>5 DEF Credited

\* A capture that is recorded for the first time credits the amount of its order.
LEMMA CreditOfCapture ==
    ASSUME NEW rows \in [Payments -> PaymentRow], NEW n \in Payments, ~rows[n].providerPaymentId,
           NEW rows2, rows2 = [rows EXCEPT ![n].status = "CAPTURED", ![n].providerPaymentId = TRUE]
    PROVE  Credited(rows2) = rows[n].amount + Credited(rows)
<1> DEFINE S == RecordedRows(rows)
           g == AmountOf(rows)
<1>1. /\ \A o \in Payments : o # n => rows2[o] = rows[o]
      /\ rows2[n].providerPaymentId /\ rows2[n].amount = rows[n].amount
  BY DEF PaymentRow
<1>2. RecordedRows(rows2) = S \cup {n} /\ n \notin S
  BY <1>1 DEF RecordedRows
<1>3. AmountOf(rows2) = g
  BY <1>1 DEF AmountOf
<1>4. IsFiniteSet(S) /\ (\A o \in S \cup {n} : g[o] \in Int) /\ g[n] = rows[n].amount
  BY RowsAreFinite DEF RecordedRows
<1> HIDE DEF S, g
<1>5. SumFunctionOnSet(g, S \cup {n}) = g[n] + SumFunctionOnSet(g, S)
  BY <1>2, <1>4, SumAdd
<1> QED
  BY <1>2, <1>3, <1>4, <1>5 DEF Credited, S, g

\* Nothing but a capture changes what is credited.
LEMMA CreditEffect ==
    ASSUME TypeOK, TypeOK', RowsRead, ServerStep, \A p \in Requests : Capture(p) => UNCHANGED payment
    PROVE  Credited(payment') = Credited(payment)
<1>a. payment \in [Payments -> PaymentRow] /\ payment' \in [Payments -> PaymentRow]
  BY DEF TypeOK
<1>1. CASE UNCHANGED payment
  BY <1>1
<1>2. ASSUME NEW p \in Requests, NEW n \in Payments, ~Exists(n),
             payment' = [payment EXCEPT ![n] =
                [status |-> "CREATED", amount |-> request[p].amount, providerPaymentId |-> FALSE]]
      PROVE  Credited(payment') = Credited(payment)
  <2>1. ~payment[n].providerPaymentId /\ ~payment'[n].providerPaymentId
    BY <1>a, <1>2 DEF RowsRead
  <2>2. \A o \in Payments : o # n => payment'[o] = payment[o]
    BY <1>a, <1>2
  <2>3. RecordedRows(payment') = RecordedRows(payment)
    BY <2>1, <2>2 DEF RecordedRows
  <2>4. \A o \in RecordedRows(payment) : payment'[o].amount = payment[o].amount
    BY <2>1, <2>2 DEF RecordedRows
  <2> QED BY <1>a, <2>3, <2>4, CreditSame
<1>3. CASE OnlyStatus
  <2>1. /\ RecordedRows(payment') = RecordedRows(payment)
        /\ \A o \in RecordedRows(payment) : payment'[o].amount = payment[o].amount
    BY <1>3 DEF OnlyStatus, RecordedRows
  <2> QED BY <1>a, <2>1, CreditSame
<1> QED
  BY <1>1, <1>2, <1>3, RowsEffect

\* A capture finds its payment CAPTURED, or records it and credits its amount; or it
\* records anew what was recorded before.
LEMMA CaptureEffect ==
    ASSUME TypeOK, RowsRead, NEW p \in Requests, Capture(p)
    PROVE  /\ request' = [request EXCEPT ![p] = Idle] /\ UNCHANGED provider
           /\ request[p].payment \in Payments /\ Exists(request[p].payment)
           /\ \/ UNCHANGED <<reservation, payment>>
              \/ /\ payment[request[p].payment].status # "CAPTURED"
                 /\ payment' = [payment EXCEPT ![request[p].payment].status = "CAPTURED",
                                               ![request[p].payment].providerPaymentId = TRUE]
                 /\ \/ RecordedAgain
                    \/ /\ ~payment[request[p].payment].providerPaymentId
                       /\ Credited(payment') = payment[request[p].payment].amount + Credited(payment)
                 /\ reservation'.amountPaid =
                        AtMost(request[p].paid + payment[request[p].payment].amount, request[p].total)
                 /\ reservation'.amountDue = Less(request[p].total, reservation'.amountPaid)
                 /\ reservation'.totalAmount = reservation.totalAmount
<1> DEFINE o == request[p].payment
           paid == AtMost(request[p].paid + payment[o].amount, request[p].total)
<1>1. request' = [request EXCEPT ![p] = Idle] /\ UNCHANGED provider
  BY DEF Capture
<1>2. o \in Payments /\ Exists(o) /\ payment \in [Payments -> PaymentRow] /\ reservation \in ReservationRow
  BY RequestShape DEF Capture, RowsRead, TypeOK
<1>3. CASE payment[o].status = "CAPTURED"
  BY <1>1, <1>2, <1>3 DEF Capture
<1>4. CASE payment[o].status # "CAPTURED"
  <2>2. /\ payment' = [payment EXCEPT ![o].status = "CAPTURED", ![o].providerPaymentId = TRUE]
        /\ reservation' = [reservation EXCEPT !.amountPaid = paid, !.amountDue = Less(request[p].total, paid),
                                              !.status = IF request[p].confirms THEN "CONFIRMED" ELSE @]
    BY <1>4 DEF Capture
  <2>3. ~payment[o].providerPaymentId => Credited(payment') = payment[o].amount + Credited(payment)
    BY <1>2, <2>2, CreditOfCapture
  <2>5. payment[o].providerPaymentId => RecordedAgain
    <3>1. payment'[o].status = "CAPTURED"
      BY <1>2, <2>2 DEF PaymentRow
    <3> QED BY <1>2, <1>4, <3>1 DEF RecordedAgain
  <2> HIDE DEF paid
  <2>4. /\ reservation'.amountPaid = paid /\ reservation'.amountDue = Less(request[p].total, paid)
        /\ reservation'.totalAmount = reservation.totalAmount
    BY <1>2, <2>2 DEF ReservationRow
  <2> QED BY <1>1, <1>2, <1>4, <2>2, <2>3, <2>4, <2>5 DEF paid
<1> QED
  BY <1>3, <1>4

\* What a reservation is credited with, and what a capture or a refund in flight has
\* read of it, is in rows of which a capture was recorded.
CreditOK ==
    ~again =>
        /\ reservation.amountPaid <= Credited(payment)
        /\ \A p \in Requests :
            request[p].at \in {"capture", "refundWrite"} => request[p].paid <= Credited(payment)

\* What handlers carry of the amount paid, they carried before or have just read.
LEMMA PaidRead ==
    ASSUME TypeOK, ServerStep, NEW q \in Requests, request'[q].at \in {"capture", "refundWrite"}
    PROVE  request'[q] = request[q] \/ request'[q].paid = reservation.amountPaid
<1>a. request \in [Requests -> RequestState]
  BY DEF TypeOK
<1>1. ASSUME NEW p \in Requests, NEW o \in Payments, NEW webhook \in BOOLEAN, ReadForCapture(p, o, webhook)
      PROVE  request'[q] = request[q] \/ request'[q].paid = reservation.amountPaid
  BY <1>1, <1>a DEF ReadForCapture
<1>2. ASSUME NEW p \in Requests, RefundReadReservation(p)
      PROVE  request'[q] = request[q] \/ request'[q].paid = reservation.amountPaid
  BY <1>2, <1>a DEF RefundReadReservation
<1>3. ASSUME NEW p \in Requests, request' = [request EXCEPT ![p] = Idle]
      PROVE  request'[q] = request[q]
  BY <1>3, <1>a DEF Idle
<1>4. ASSUME NEW p \in Requests, RefundCall(p) \/ RefundMark(p)
      PROVE  request'[q] = request[q]
  <2>1. request[p].at \in {"refundCall", "refundMark"}
    BY <1>4 DEF RefundCall, RefundMark
  <2>2. request[p] \in [at: {"refundCall", "refundMark", "refundRead"}, payment: Payments, amount: Amounts]
    BY <1>a, <2>1 DEF RequestState, Idle
  <2>3. \E at \in {"refundMark", "refundRead"} :
            request' = [request EXCEPT ![p].at = at] \/ request' = [request EXCEPT ![p] = Idle]
    BY <1>4 DEF RefundCall, RefundMark
  <2> QED BY <1>a, <2>1, <2>2, <2>3 DEF Idle
<1>5. ASSUME NEW p \in Requests, CreateOrderRead(p) \/ RefundRead(p) \/ ExtendRead(p)
      PROVE  request'[q] = request[q]
  BY <1>5, <1>a DEF CreateOrderRead, RefundRead, ExtendRead
<1>6. CASE Restart
  BY <1>6 DEF Restart, Idle
<1>7. CASE UNCHANGED request
  BY <1>7
<1> QED
  BY <1>1, <1>2, <1>3, <1>4, <1>5, <1>6, <1>7 DEF ServerStep, Next, Handler, vars, VerifyRead,
     CapturedWebhookRead, CreateOrder, Capture, CaptureFails, RefundWrite, Extend, AttemptFails, GuestPays,
     EventAges, RefundedWebhook, FailedWebhook, Expire, Cancel

\* Besides a capture, the amount paid is written by a refund, which takes off it.
LEMMA PaidEffect ==
    ASSUME TypeOK, ServerStep, \A p \in Requests : ~Capture(p)
    PROVE  \/ reservation'.amountPaid = reservation.amountPaid
           \/ \E p \in Requests :
                /\ request[p].at = "refundWrite"
                /\ reservation'.amountPaid = Less(request[p].paid, request[p].amount)
<1>a. reservation \in ReservationRow
  BY DEF TypeOK
<1>1. ASSUME NEW p \in Requests, RefundWrite(p)
      PROVE  /\ request[p].at = "refundWrite"
             /\ reservation'.amountPaid = Less(request[p].paid, request[p].amount)
  <2> DEFINE paid == Less(request[p].paid, request[p].amount)
             due == AtMost(request[p].total - paid, request[p].total)
  <2>1. /\ request[p].at = "refundWrite"
        /\ reservation' = [reservation EXCEPT !.amountPaid = paid, !.amountDue = due]
    BY <1>1 DEF RefundWrite
  <2> HIDE DEF paid, due
  <2>2. reservation'.amountPaid = paid
    BY <1>a, <2>1 DEF ReservationRow
  <2> QED BY <2>1, <2>2 DEF paid
<1>2. ASSUME NEW p \in Requests, Extend(p) PROVE reservation'.amountPaid = reservation.amountPaid
  BY <1>2, <1>a DEF Extend, ReservationRow
<1>3. CASE Expire \/ Cancel
  BY <1>3, <1>a DEF Expire, Cancel, ReservationRow
<1>4. CASE UNCHANGED reservation
  BY <1>4
<1> QED
  BY <1>1, <1>2, <1>3, <1>4 DEF ServerStep, Next, Handler, vars, VerifyRead, CapturedWebhookRead,
     ReadForCapture, CreateOrderRead, CreateOrder, CaptureFails, RefundRead, RefundCall, RefundMark,
     RefundReadReservation, ExtendRead, AttemptFails, GuestPays, EventAges, RefundedWebhook, FailedWebhook,
     Restart

\* Whoever steps, the credit stays in the rows.
LEMMA CreditStep ==
    ASSUME TypeOK, TypeOK', RowsRead, CreditOK, ServerStep, again' = (again \/ RecordedAgain)
    PROVE  CreditOK'
<1> SUFFICES ASSUME ~again, ~RecordedAgain
             PROVE  /\ reservation'.amountPaid <= Credited(payment')
                    /\ \A q \in Requests : request'[q].at \in {"capture", "refundWrite"} =>
                            request'[q].paid <= Credited(payment')
  BY DEF CreditOK
<1>a. /\ payment \in [Payments -> PaymentRow] /\ request \in [Requests -> RequestState]
      /\ payment' \in [Payments -> PaymentRow]
  BY DEF TypeOK
<1>b. /\ reservation.amountPaid \in Nat /\ Credited(payment) \in Nat /\ Credited(payment') \in Nat
      /\ reservation.amountPaid <= Credited(payment)
  BY <1>a, AmountsAssumption, RowsAreFinite DEF CreditOK, TypeOK, ReservationRow, Amounts
<1>c. \A q \in Requests : request[q].at \in {"capture", "refundWrite"} =>
            request[q].paid \in Nat /\ request[q].paid <= Credited(payment)
  BY <1>a, RequestShape, AmountsAssumption DEF CreditOK, Amounts
<1>1. ASSUME NEW p \in Requests, Capture(p), ~UNCHANGED payment
      PROVE  Credited(payment') >= Credited(payment) /\ reservation'.amountPaid <= Credited(payment')
  <2> DEFINE o == request[p].payment
             amount == payment[o].amount
             rest == request[p].paid
             total == request[p].total
  <2>1. /\ o \in Payments
        /\ Credited(payment') = amount + Credited(payment)
        /\ reservation'.amountPaid = AtMost(rest + amount, total)
    BY <1>1, CaptureEffect
  <2>2. amount \in Nat /\ rest \in Nat /\ total \in Nat /\ rest <= Credited(payment)
    BY <1>a, <1>c, <1>1, <2>1, RequestShape, AmountsAssumption DEF Capture, PaymentRow, Amounts
  <2> HIDE DEF o, amount, rest, total
  <2> QED BY <1>b, <2>1, <2>2 DEF AtMost
<1>2. CASE \E p \in Requests : Capture(p) /\ ~UNCHANGED payment
  <2>1. Credited(payment') >= Credited(payment) /\ reservation'.amountPaid <= Credited(payment')
    BY <1>1, <1>2
  <2>2. ASSUME NEW q \in Requests, request'[q].at \in {"capture", "refundWrite"}
        PROVE  request'[q].paid <= Credited(payment')
    BY <1>b, <1>c, <2>1, <2>2, PaidRead
  <2> QED BY <2>1, <2>2
<1>3. CASE \A p \in Requests : Capture(p) => UNCHANGED payment
  <2>1. Credited(payment') = Credited(payment)
    BY <1>3, CreditEffect
  <2>2. ASSUME NEW q \in Requests, request'[q].at \in {"capture", "refundWrite"}
        PROVE  request'[q].paid <= Credited(payment')
    BY <1>b, <1>c, <2>1, <2>2, PaidRead
  <2>3. reservation'.amountPaid <= Credited(payment')
    <3>1. CASE \E p \in Requests : Capture(p)
      <4>1. UNCHANGED reservation
        <5>1. PICK p \in Requests : Capture(p) /\ UNCHANGED payment
          BY <1>3, <3>1
        <5>2. ASSUME request[p].payment \in Payments, payment[request[p].payment].status # "CAPTURED",
                     payment' = [payment EXCEPT ![request[p].payment].status = "CAPTURED",
                                               ![request[p].payment].providerPaymentId = TRUE]
              PROVE  FALSE
          BY <1>a, <5>1, <5>2 DEF PaymentRow
        <5> QED BY <5>1, <5>2, CaptureEffect
      <4> QED BY <1>b, <2>1, <4>1
    <3>2. CASE \A p \in Requests : ~Capture(p)
      <4>1. CASE reservation'.amountPaid = reservation.amountPaid
        BY <1>b, <2>1, <4>1
      <4>2. ASSUME NEW p \in Requests, request[p].at = "refundWrite",
                   reservation'.amountPaid = Less(request[p].paid, request[p].amount)
            PROVE  reservation'.amountPaid <= Credited(payment')
        <5>1. request[p].paid \in Nat /\ request[p].amount \in Nat /\ request[p].paid <= Credited(payment)
          BY <1>a, <1>c, <4>2, RequestShape, AmountsAssumption DEF Amounts
        <5> QED BY <1>b, <2>1, <4>2, <5>1 DEF Less
      <4> QED BY <3>2, <4>1, <4>2, PaidEffect
    <3> QED BY <3>1, <3>2
  <2> QED BY <2>2, <2>3
<1> QED
  BY <1>2, <1>3

\* It holds before anything is paid.
LEMMA CreditInit == CheckoutInit => CreditOK
<1> SUFFICES ASSUME CheckoutInit PROVE CreditOK
  OBVIOUS
<1>1. reservation.amountPaid = 0 /\ \A p \in Requests : request[p].at = "idle"
  BY DEF CheckoutInit, Init, Idle
<1>2. payment \in [Payments -> PaymentRow]
  BY BrowserInit DEF BrowserOK, TypeOK
<1>3. Credited(payment) \in Nat
  BY <1>2, RowsAreFinite
<1> QED
  BY <1>1, <1>3 DEF CreditOK

\* Hence the credit is always in the rows.
LEMMA CreditAlways == CheckoutSpec => []CreditOK
<1>1. BrowserOK /\ RowsRead /\ BrowserOK' /\ CreditOK /\ [CheckoutNext]_checkoutVars => CreditOK'
  <2> SUFFICES ASSUME BrowserOK, RowsRead, BrowserOK', CreditOK, [CheckoutNext]_checkoutVars PROVE CreditOK'
    OBVIOUS
  <2>1. CASE CheckoutNext
    BY <2>1, ServerSteps, CreditStep DEF BrowserOK, CheckoutNext
  <2>2. CASE UNCHANGED checkoutVars
    BY <2>2 DEF checkoutVars, vars, CreditOK
  <2> QED BY <2>1, <2>2
<1> QED
  BY <1>1, CreditInit, BrowserAlways, PTL DEF CheckoutSpec

\* However often a payment is reported, declined or refunded, and whatever the
\* handlers read before, the reservation is not credited with more than the provider
\* captured, unless a payment recorded before was recorded anew.
THEOREM CreditIsReal == CheckoutSpec => []CreditIsCaptured
<1>1. TypeOK /\ CreditOK /\ CapturesAreReal => CreditIsCaptured
  <2> SUFFICES ASSUME TypeOK, CreditOK, CapturesAreReal, ~again PROVE reservation.amountPaid <= AmountCaptured
    BY DEF CreditIsCaptured
  <2> DEFINE S == {o \in Payments : provider[o].captured}
  <2>1. payment \in [Payments -> PaymentRow] /\ reservation.amountPaid \in Nat
    BY AmountsAssumption DEF TypeOK, ReservationRow, Amounts
  <2>2. /\ IsFiniteSet(S) /\ \A o \in S : AmountOf(payment)[o] \in Nat
        /\ Credited(payment) \in Nat
    <3>1. S \in SUBSET Payments
      OBVIOUS
    <3> QED BY <2>1, <3>1, RowsAreFinite
  <2>3. RecordedRows(payment) \in SUBSET S
    BY DEF RecordedRows, CapturesAreReal
  <2>4. SumFunctionOnSet(AmountOf(payment), S) \in Nat
    BY <2>2, SumNat
  <2>5. Credited(payment) <= SumFunctionOnSet(AmountOf(payment), S)
    BY <2>2, <2>3, SumSubset DEF Credited
  <2>6. AmountCaptured = SumFunctionOnSet(AmountOf(payment), S)
    BY DEF AmountCaptured, AmountOf
  <2> HIDE DEF S
  <2> QED BY <2>1, <2>2, <2>4, <2>5, <2>6 DEF CreditOK
<1>2. BrowserOK => TypeOK
  BY DEF BrowserOK
<1> QED
  BY <1>1, <1>2, BrowserAlways, CreditAlways, RealAlways, PTL

-------------------------------------------------------------------------------
(* Charged once, unless requests overlap or an order is declined            *)

\* While requests do not overlap that must not, and no payment is declined,
\* refunded or recorded anew: the amounts add up, the credit is exactly what the
\* recorded rows come to, one order at most is open and fits into what is due, all
\* others are recorded, and what handlers have read is still so.
Calm ==
    /\ AmountsAddUp
    /\ Credited(payment) = reservation.amountPaid
    /\ \A o, n \in Payments :
            payment[o].status = "CREATED" /\ payment[n].status = "CREATED" => o = n
    /\ \A p \in Requests : request[p].at = "createOrder" =>
            /\ \A o \in Payments : payment[o].status # "CREATED"
            /\ request[p].amount + reservation.amountPaid <= reservation.totalAmount
    /\ \A o \in Payments : payment[o].status = "CREATED" =>
            /\ ~payment[o].providerPaymentId
            /\ payment[o].amount + reservation.amountPaid <= reservation.totalAmount
    /\ \A o \in Payments : payment[o].status \notin {"NONE", "CREATED"} => payment[o].providerPaymentId
    /\ \A p \in Requests : request[p].at = "capture" /\ payment[request[p].payment].status = "CREATED" =>
            request[p].paid = reservation.amountPaid /\ request[p].total = reservation.totalAmount
    /\ \A p \in Requests : request[p].at = "extend" => request[p].paid = reservation.amountPaid
    /\ \A p \in Requests : request[p].at = "refundCall" => request[p].amount > 0
    /\ \A p \in Requests : request[p].at \notin {"refundMark", "refundRead", "refundWrite"}

\* What the provider returned stays returned.
LEMMA RefundsStay ==
    ASSUME TypeOK, ServerStep, NothingRefunded'
    PROVE  NothingRefunded
<1>a. /\ provider \in [Payments -> ProviderOrder] /\ request \in [Requests -> RequestState]
      /\ \A o \in Payments : provider[o].refunded \in Nat
  BY AmountsAssumption DEF TypeOK, ProviderOrder, Amounts
<1>1. ASSUME NEW o \in Payments PROVE provider[o].refunded <= provider'[o].refunded
  <2>1. ASSUME NEW p \in Requests, RefundCall(p) PROVE provider[o].refunded <= provider'[o].refunded
    <3>1. request[p].at = "refundCall" /\ request[p].payment \in Payments /\ request[p].amount \in Nat
      BY <1>a, <2>1, RequestShape, AmountsAssumption DEF RefundCall, Amounts
    <3>2. \/ provider' = provider
          \/ provider' = [provider EXCEPT ![request[p].payment].refunded =
                            provider[request[p].payment].refunded + request[p].amount]
      BY <2>1 DEF RefundCall
    <3> QED BY <1>a, <3>1, <3>2 DEF ProviderOrder
  <2>2. ASSUME NEW n \in Payments, AttemptFails(n) \/ GuestPays(n) \/ EventAges(n)
        PROVE  provider'[o].refunded = provider[o].refunded
    BY <1>a, <2>2 DEF AttemptFails, GuestPays, EventAges, ProviderOrder
  <2>3. ASSUME NEW p \in Requests, CaptureFails(p) PROVE provider'[o].refunded = provider[o].refunded
    BY <1>a, <2>3 DEF CaptureFails, ProviderOrder
  <2>4. CASE UNCHANGED provider
    BY <1>a, <2>4
  <2>5. \/ UNCHANGED provider
        \/ \E p \in Requests : RefundCall(p) \/ CaptureFails(p)
        \/ \E n \in Payments : AttemptFails(n) \/ GuestPays(n) \/ EventAges(n)
    BY DEF ServerStep, Next, Handler, vars, VerifyRead, CapturedWebhookRead, ReadForCapture, CreateOrderRead,
       CreateOrder, Capture, RefundRead, RefundMark, RefundReadReservation, RefundWrite, ExtendRead, Extend,
       RefundedWebhook, FailedWebhook, Expire, Cancel, Restart
  <2>6. provider[o].refunded <= provider[o].refunded
    BY <1>a
  <2> QED BY <2>1, <2>2, <2>3, <2>4, <2>5, <2>6
<1> QED
  BY <1>a, <1>1 DEF NothingRefunded

\* Every step keeps the calm, as long as no two requests overlap before it and it
\* declines, refunds and records anew nothing.
LEMMA CalmStep ==
    ASSUME TypeOK, TypeOK', RowsRead, Calm, ~Overlap, ServerStep,
           ~Declined, ~RecordedAgain, NothingRefunded'
    PROVE  Calm'
<1> USE DEF Calm, AmountsAddUp
<1>a. /\ payment \in [Payments -> PaymentRow] /\ request \in [Requests -> RequestState]
      /\ provider \in [Payments -> ProviderOrder] /\ reservation \in ReservationRow
      /\ payment' \in [Payments -> PaymentRow]
  BY DEF TypeOK
<1>b. /\ reservation.amountPaid \in Nat /\ reservation.amountDue \in Nat
      /\ reservation.totalAmount \in Nat /\ reservation.totalAmount <= ExtendedTotal /\ ExtendedTotal \in Nat
  BY <1>a, AmountsAssumption DEF ReservationRow, Amounts
<1>c. \A p \in Requests :
        /\ request[p].at = "createOrder" => request[p].amount \in Nat
        /\ request[p].at = "capture" => /\ request[p].payment \in Payments
                                        /\ payment[request[p].payment].status # "NONE"
  BY <1>a, RequestShape, AmountsAssumption DEF RowsRead, Exists, Amounts
<1>d. \A o \in Payments : payment[o].amount \in Nat
  BY <1>a, RowsAreFinite
<1>e. NothingRefunded
  BY RefundsStay
<1>f. ASSUME UNCHANGED <<reservation, payment>>,
             \A q \in Requests : request'[q] = request[q] \/ request'[q].at = "idle"
      PROVE  Calm'
  BY <1>f
<1>1. ASSUME NEW p \in Requests, CreateOrderRead(p) PROVE Calm'
  <2>1. /\ request' = [request EXCEPT ![p] = [at |-> "createOrder", amount |-> reservation.amountDue]]
        /\ UNCHANGED <<reservation, payment, provider>>
        /\ \A o \in Payments : payment[o].status # "CREATED"
    BY <1>1 DEF CreateOrderRead
  <2> QED BY <1>a, <1>b, <1>c, <2>1
<1>2. ASSUME NEW p \in Requests, CreateOrder(p) PROVE Calm'
  <2>1. PICK n \in Payments :
            /\ payment[n].status = "NONE"
            /\ payment' = [payment EXCEPT ![n] =
                [status |-> "CREATED", amount |-> request[p].amount, providerPaymentId |-> FALSE]]
    BY <1>2 DEF CreateOrder, Exists
  <2>3. /\ request[p].at = "createOrder" /\ request' = [request EXCEPT ![p] = Idle]
        /\ UNCHANGED <<reservation, provider>>
    BY <1>2 DEF CreateOrder
  <2>4. \A q \in Requests : request'[q].at = "createOrder" => FALSE
    BY <1>a, <2>3 DEF Overlap, Idle
  <2>5. /\ payment'[n].status = "CREATED" /\ payment'[n].amount = request[p].amount
        /\ ~payment'[n].providerPaymentId /\ ~payment[n].providerPaymentId
        /\ \A o \in Payments : o # n => payment'[o] = payment[o] /\ payment'[o].status # "CREATED"
    BY <1>a, <2>1, <2>3 DEF RowsRead, Exists
  <2>2. Credited(payment') = Credited(payment)
    <3>1. RecordedRows(payment') = RecordedRows(payment)
      BY <2>5 DEF RecordedRows
    <3>2. \A o \in RecordedRows(payment) : payment'[o].amount = payment[o].amount
      BY <2>5 DEF RecordedRows
    <3> QED BY <1>a, <3>1, <3>2, CreditSame
  <2>6. \A q \in Requests : request'[q] = request[q] \/ request'[q].at = "idle"
    BY <1>a, <2>3 DEF Idle
  <2>7. \A q \in Requests : request'[q].at = "capture" => payment'[request'[q].payment].status # "CREATED"
    BY <1>c, <2>1, <2>5, <2>6
  <2> QED BY <2>2, <2>3, <2>4, <2>5, <2>6, <2>7
<1>3. ASSUME NEW p \in Requests, NEW o \in Payments, NEW webhook \in BOOLEAN, ReadForCapture(p, o, webhook)
      PROVE  Calm'
  BY <1>3, <1>a DEF ReadForCapture
<1>4. ASSUME NEW p \in Requests, Capture(p) PROVE Calm'
  <2> DEFINE o == request[p].payment
             amount == payment[o].amount
             rest == request[p].paid
             total == request[p].total
  <2>0. request[p].at = "capture"
    BY <1>4 DEF Capture
  <2>1. /\ request' = [request EXCEPT ![p] = Idle] /\ UNCHANGED provider
        /\ \/ UNCHANGED <<reservation, payment>>
           \/ /\ o \in Payments
              /\ payment[o].status = "CREATED"
              /\ payment' = [payment EXCEPT ![o].status = "CAPTURED", ![o].providerPaymentId = TRUE]
              /\ Credited(payment') = amount + Credited(payment)
              /\ reservation'.amountPaid = AtMost(rest + amount, total)
              /\ reservation'.amountDue = Less(total, reservation'.amountPaid)
              /\ reservation'.totalAmount = reservation.totalAmount
    <3>1. ~payment[o].providerPaymentId /\ Exists(o) /\ o \in Payments => payment[o].status = "CREATED"
      BY DEF Exists
    <3> HIDE DEF Calm, AmountsAddUp, o, amount, rest, total
    <3> QED BY <1>4, <3>1, CaptureEffect DEF o, amount, rest, total
  <2>2. CASE UNCHANGED <<reservation, payment>>
    BY <1>a, <1>f, <2>1, <2>2 DEF Idle
  <2>3. CASE ~UNCHANGED <<reservation, payment>>
    <3>1. /\ o \in Payments
          /\ payment[o].status = "CREATED"
          /\ payment' = [payment EXCEPT ![o].status = "CAPTURED", ![o].providerPaymentId = TRUE]
          /\ Credited(payment') = amount + Credited(payment)
          /\ reservation'.amountPaid = AtMost(rest + amount, total)
          /\ reservation'.amountDue = Less(total, reservation'.amountPaid)
          /\ reservation'.totalAmount = reservation.totalAmount
      BY <2>1, <2>3
    <3>2. /\ rest = reservation.amountPaid /\ total = reservation.totalAmount
          /\ amount \in Nat /\ amount + reservation.amountPaid <= reservation.totalAmount
      BY <1>d, <2>0, <3>1
    <3>8. payment'[o].status = "CAPTURED" /\ payment'[o].providerPaymentId
          /\ \A n \in Payments : n # o => payment'[n] = payment[n]
      BY <1>a, <3>1 DEF PaymentRow
    <3>11. /\ \A n \in Payments : payment[n].status = "CREATED" => n = o
           /\ \A n \in Payments : payment[n].status \notin {"NONE", "CREATED"} =>
                payment[n].providerPaymentId
      BY <3>1
    <3>3. /\ \A n \in Payments : payment'[n].status # "CREATED"
          /\ \A n \in Payments : payment'[n].status # "NONE" => payment'[n].providerPaymentId
      <4> SUFFICES ASSUME NEW n \in Payments
                   PROVE  /\ payment'[n].status # "CREATED"
                          /\ payment'[n].status # "NONE" => payment'[n].providerPaymentId
        OBVIOUS
      <4>1. CASE n = o
        BY <3>8, <4>1
      <4>2. CASE n # o
        <5>1. payment'[n] = payment[n]
          BY <3>8, <4>2
        <5>2. QED
          BY <3>11, <4>2, <5>1
      <4>3. QED
        BY <4>1, <4>2
    <3>9. \A q \in Requests : request'[q] = request[q] \/ request'[q].at = "idle"
      BY <1>a, <2>1 DEF Idle
    <3>4. \A q \in Requests : request'[q].at \notin {"createOrder", "extend"}
      BY <2>0, <3>1, <3>9 DEF Overlap
    <3>5. \A q \in Requests : request'[q].at = "capture" => payment'[request'[q].payment].status # "CREATED"
      BY <1>c, <3>3, <3>9
    <3>10. \A q \in Requests : /\ request'[q].at = "refundCall" => request'[q].amount > 0
                               /\ request'[q].at \notin {"refundMark", "refundRead", "refundWrite"}
      BY <3>9
    <3> HIDE DEF o, amount, rest, total
    <3>6. /\ reservation'.amountPaid = reservation.amountPaid + amount
          /\ reservation'.amountDue = reservation.totalAmount - reservation'.amountPaid
      BY <1>b, <3>1, <3>2 DEF AtMost, Less
    <3>7. /\ reservation'.amountPaid + reservation'.amountDue = reservation'.totalAmount
          /\ Credited(payment') = reservation'.amountPaid
      BY <1>b, <3>1, <3>2, <3>6
    <3> QED BY <3>3, <3>4, <3>5, <3>7, <3>10
  <2> QED BY <2>2, <2>3
<1>5. ASSUME NEW p \in Requests, ExtendRead(p) PROVE Calm'
  BY <1>5, <1>a DEF ExtendRead
<1>6. ASSUME NEW p \in Requests, Extend(p) PROVE Calm'
  <2>1. /\ request[p].at = "extend" /\ request' = [request EXCEPT ![p] = Idle]
        /\ UNCHANGED <<payment, provider>>
        /\ reservation' = [reservation EXCEPT !.totalAmount = ExtendedTotal,
                                              !.amountDue = ExtendedTotal - request[p].paid]
    BY <1>6 DEF Extend
  <2>2. /\ reservation'.amountPaid = reservation.amountPaid
        /\ reservation'.totalAmount = ExtendedTotal
        /\ reservation'.amountDue = ExtendedTotal - request[p].paid
    BY <1>a, <2>1 DEF ReservationRow
  <2>4. \A q \in Requests : request'[q] = request[q] \/ request'[q].at = "idle"
    BY <1>a, <2>1 DEF Idle
  <2>3. \A q \in Requests : request'[q].at # "capture"
    BY <2>1, <2>4 DEF Overlap
  <2> QED BY <1>b, <1>c, <1>d, <2>1, <2>2, <2>3, <2>4
<1>7. ASSUME NEW o \in Payments, AttemptFails(o) \/ GuestPays(o) \/ EventAges(o) PROVE Calm'
  BY <1>7, <1>f DEF AttemptFails, GuestPays, EventAges
<1>8. CASE Expire \/ Cancel
  <2>1. /\ reservation'.amountPaid = reservation.amountPaid
        /\ reservation'.amountDue = reservation.amountDue
        /\ reservation'.totalAmount = reservation.totalAmount
    BY <1>8, <1>a DEF Expire, Cancel, ReservationRow
  <2> QED BY <1>8, <2>1 DEF Expire, Cancel
<1>9. CASE UNCHANGED vars
  BY <1>9, <1>f DEF vars
<1>10. CASE Restart
  BY <1>10, <1>a, <1>f DEF Restart, Idle
<1>11. ASSUME NEW p \in Requests, CaptureFails(p) PROVE Calm'
  <2>1. \A q \in Requests : request'[q] = request[q] \/ request'[q].at = "idle"
    BY <1>a, <1>11 DEF CaptureFails, Idle
  <2> QED BY <1>f, <1>11, <2>1 DEF CaptureFails
<1>12. ASSUME NEW p \in Requests, RefundRead(p) PROVE Calm'
  <2>0. PICK o \in Payments : \E amount \in 1..payment[o].amount :
            request' = [request EXCEPT ![p] = [at |-> "refundCall", payment |-> o, amount |-> amount]]
    BY <1>12 DEF RefundRead
  <2>1. PICK amount \in 1..payment[o].amount :
            request' = [request EXCEPT ![p] = [at |-> "refundCall", payment |-> o, amount |-> amount]]
    BY <2>0
  <2>2. amount > 0
    BY <1>d, <2>1
  <2>3. \A q \in Requests :
            \/ request'[q] = request[q]
            \/ request'[q].at = "refundCall" /\ request'[q].amount > 0
    BY <1>a, <2>1, <2>2
  <2> QED BY <1>12, <2>3 DEF RefundRead
<1>13. ASSUME NEW p \in Requests, RefundCall(p) PROVE Calm'
  <2>1. request[p].at = "refundCall" /\ request[p].payment \in Payments /\ request[p].amount \in Nat
        /\ request[p].amount > 0
    BY <1>a, <1>13, RequestShape, AmountsAssumption DEF RefundCall, Amounts
  <2>2. provider[request[p].payment].refunded = 0
    BY <1>e, <2>1 DEF NothingRefunded
  <2>3. ~(provider' = [provider EXCEPT ![request[p].payment].refunded =
                                provider[request[p].payment].refunded + request[p].amount])
    <3> SUFFICES ASSUME provider' = [provider EXCEPT ![request[p].payment].refunded =
                                provider[request[p].payment].refunded + request[p].amount]
                 PROVE  FALSE
      OBVIOUS
    <3>1. provider'[request[p].payment].refunded = 0
      BY <2>1 DEF NothingRefunded
    <3>2. provider'[request[p].payment].refunded = request[p].amount
      BY <1>a, <2>1, <2>2 DEF ProviderOrder
    <3> QED BY <2>1, <3>1, <3>2
  <2>4. request' = [request EXCEPT ![p] = Idle] /\ UNCHANGED <<reservation, payment>>
    BY <1>13, <2>3 DEF RefundCall
  <2>5. \A q \in Requests : request'[q] = request[q] \/ request'[q].at = "idle"
    BY <1>a, <2>4 DEF Idle
  <2> QED BY <1>f, <2>4, <2>5
<1>14. ASSUME NEW p \in Requests, RefundMark(p) \/ RefundReadReservation(p) \/ RefundWrite(p) PROVE FALSE
  BY <1>14 DEF RefundMark, RefundReadReservation, RefundWrite
<1>15. ASSUME NEW o \in Payments, RefundedWebhook(o) PROVE FALSE
  BY <1>e, <1>15 DEF RefundedWebhook, NothingRefunded
<1>16. CASE FailedWebhook
  <2>1. OnlyStatus /\ UNCHANGED reservation
    BY <1>16, StatusSteps
  <2>2. UNCHANGED request
    BY <1>16 DEF FailedWebhook
  <2>3. PICK failed : payment' = [o \in Payments |->
                            IF o \in failed /\ Exists(o)
                            THEN [payment[o] EXCEPT !.status = "FAILED"]
                            ELSE payment[o]]
    BY <1>16 DEF FailedWebhook
  <2>4. \A o \in Payments :
            \/ payment'[o].status = payment[o].status
            \/ payment'[o].status = "FAILED" /\ payment[o].status # "NONE"
    BY <1>a, <2>3 DEF PaymentRow, Exists
  <2>5. \A o \in Payments : /\ payment'[o].status = "CREATED" <=> payment[o].status = "CREATED"
                            /\ payment'[o].status = "NONE" <=> payment[o].status = "NONE"
    BY <2>4 DEF Declined
  <2>6. Credited(payment') = Credited(payment)
    <3>1. /\ RecordedRows(payment') = RecordedRows(payment)
          /\ \A o \in RecordedRows(payment) : payment'[o].amount = payment[o].amount
      BY <2>1 DEF OnlyStatus, RecordedRows
    <3> QED BY <1>a, <3>1, CreditSame
  <2>7. \A o \in Payments : /\ payment'[o].amount = payment[o].amount
                            /\ payment'[o].providerPaymentId = payment[o].providerPaymentId
    BY <2>1 DEF OnlyStatus
  <2> QED BY <1>c, <2>1, <2>2, <2>5, <2>6, <2>7
<1> QED
  BY <1>1, <1>2, <1>3, <1>4, <1>5, <1>6, <1>7, <1>8, <1>9, <1>10, <1>11, <1>12, <1>13, <1>14, <1>15, <1>16
     DEF ServerStep, Next, Handler, VerifyRead, CapturedWebhookRead

\* Nothing is paid, open or in flight at first.
LEMMA CalmInit == CheckoutInit => Calm /\ ~Overlap
<1> SUFFICES ASSUME CheckoutInit PROVE Calm /\ ~Overlap
  OBVIOUS
<1>1. /\ reservation.amountPaid = 0 /\ reservation.amountDue = Total /\ reservation.totalAmount = Total
      /\ \A o \in Payments : payment[o].status = "NONE" /\ ~payment[o].providerPaymentId
      /\ \A p \in Requests : request[p].at = "idle"
  BY DEF CheckoutInit, Init, NoPayment, Idle
<1>2. Credited(payment) = 0
  <2>1. RecordedRows(payment) = {}
    BY <1>1 DEF RecordedRows
  <2> QED BY <2>1, SumEmpty DEF Credited
<1> QED
  BY <1>1, <1>2, AmountsAssumption DEF Calm, AmountsAddUp, Overlap

\* As long as the history has no such overlap, decline or refund.
Unhurried == ~raced /\ ~declined /\ ~again /\ NothingRefunded => Calm /\ ~Overlap

\* A step that leaves the history clean leaves the calm.
LEMMA UnhurriedStep ==
    ASSUME BrowserOK, BrowserOK', RowsRead, Unhurried, [CheckoutNext]_checkoutVars
    PROVE  Unhurried'
<1>1. CASE CheckoutNext
  <2>1. ASSUME ~raced', ~declined', ~again', NothingRefunded' PROVE Calm' /\ ~Overlap'
    <3>1. ~raced /\ ~Overlap' /\ ~declined /\ ~Declined /\ ~again /\ ~RecordedAgain
      BY <1>1, <2>1 DEF CheckoutNext
    <3>2. ServerStep /\ TypeOK /\ TypeOK'
      BY ServerSteps DEF BrowserOK
    <3>3. NothingRefunded
      BY <2>1, <3>2, RefundsStay
    <3>4. Calm /\ ~Overlap
      BY <3>1, <3>3 DEF Unhurried
    <3>5. Calm'
      BY <2>1, <3>1, <3>2, <3>4, CalmStep
    <3> QED BY <3>1, <3>5
  <2> QED BY <2>1 DEF Unhurried
<1>2. CASE UNCHANGED checkoutVars
  BY <1>2 DEF checkoutVars, vars, Unhurried, Overlap, Calm, AmountsAddUp, NothingRefunded
<1> QED
  BY <1>1, <1>2

\* Hence an unhurried history has been calm throughout.
LEMMA UnhurriedAlways == CheckoutSpec => []Unhurried
<1>1. CheckoutInit => Unhurried
  BY CalmInit DEF Unhurried
<1> QED
  BY <1>1, UnhurriedStep, BrowserAlways, PTL DEF CheckoutSpec

\* For any number of tabs, orders and calls in flight, and any amounts: whatever is
\* reloaded, lost, repeated or crashes, the guest is not charged more than the stay
\* costs, unless two orders were made at once, an extension was priced during a
\* capture, an open order was declined, or a payment was refunded or recorded anew.
THEOREM GuestIsChargedOnce == CheckoutSpec => []ChargedOnceUnhurried
<1>1. TypeOK /\ RowsRead /\ Unhurried => ChargedOnceUnhurried
  <2> SUFFICES ASSUME TypeOK, RowsRead, Calm PROVE AmountCaptured <= reservation.totalAmount
    BY DEF ChargedOnceUnhurried, Unhurried
  <2> DEFINE g == AmountOf(payment)
             S == {o \in Payments : provider[o].captured}
             C == RecordedRows(payment)
  <2>1. /\ payment \in [Payments -> PaymentRow] /\ reservation.amountPaid \in Nat
        /\ reservation.amountDue \in Nat /\ reservation.totalAmount \in Nat
    BY AmountsAssumption DEF TypeOK, ReservationRow, Amounts
  <2>2. /\ \A o \in Payments : g[o] = payment[o].amount /\ g[o] \in Nat
        /\ C \in SUBSET Payments /\ \A T \in SUBSET Payments : IsFiniteSet(T)
        /\ SumFunctionOnSet(g, C) \in Nat
    BY <2>1, RowsAreFinite DEF Credited
  <2>3. SumFunctionOnSet(g, C) = reservation.amountPaid /\ reservation.amountPaid <= reservation.totalAmount
    BY <2>1 DEF Calm, AmountsAddUp, Credited
  <2>4. AmountCaptured = SumFunctionOnSet(g, S) /\ S \in SUBSET Payments
    BY DEF AmountCaptured, AmountOf
  <2>5. SumFunctionOnSet(g, S) \in Nat
    <3> HIDE DEF g, S, C
    <3> QED BY <2>2, <2>4, SumNat
  <2>6. \A o \in S : o \in C \/ payment[o].status = "CREATED"
    BY DEF RowsRead, Calm, Exists, RecordedRows
  <2>7. \A o \in C : payment[o].status # "CREATED"
    BY DEF RecordedRows, Calm
  <2>8. CASE \E o \in Payments : payment[o].status = "CREATED"
    <3>1. PICK o \in Payments : payment[o].status = "CREATED"
      BY <2>8
    <3>2. /\ \A n \in Payments : payment[n].status = "CREATED" => n = o
          /\ payment[o].amount + reservation.amountPaid <= reservation.totalAmount
      BY <3>1 DEF Calm
    <3>3. S \in SUBSET (C \cup {o}) /\ o \notin C
      <4>1. \A n \in S : n \in Payments
        OBVIOUS
      <4> HIDE DEF S, C
      <4> QED BY <2>6, <2>7, <3>1, <3>2, <4>1
    <3> HIDE DEF g, S, C
    <3>4. C \cup {o} \in SUBSET Payments
      BY <2>2
    <3>5. /\ IsFiniteSet(C \cup {o}) /\ IsFiniteSet(C)
          /\ \A n \in C \cup {o} : g[n] \in Nat /\ g[n] \in Int
      BY <2>2, <3>4
    <3>6. SumFunctionOnSet(g, C \cup {o}) = g[o] + SumFunctionOnSet(g, C)
      BY <3>3, <3>5, SumAdd
    <3>7. SumFunctionOnSet(g, S) <= SumFunctionOnSet(g, C \cup {o})
      BY <3>3, <3>5, SumSubset
    <3> QED BY <2>1, <2>2, <2>3, <2>4, <2>5, <3>2, <3>6, <3>7
  <2>9. CASE \A o \in Payments : payment[o].status # "CREATED"
    <3>1. S \in SUBSET C
      <4>1. \A n \in S : n \in Payments
        OBVIOUS
      <4> HIDE DEF S, C
      <4> QED BY <2>6, <2>9, <4>1
    <3> HIDE DEF g, S, C
    <3>2. IsFiniteSet(C) /\ \A n \in C : g[n] \in Nat
      BY <2>2
    <3>3. SumFunctionOnSet(g, S) <= SumFunctionOnSet(g, C)
      BY <3>1, <3>2, SumSubset
    <3> QED BY <2>1, <2>2, <2>3, <2>4, <2>5, <3>3
  <2> QED BY <2>8, <2>9
<1>2. BrowserOK => TypeOK
  BY DEF BrowserOK
<1> QED
  BY <1>1, <1>2, BrowserAlways, UnhurriedAlways, PTL
================================================================================
