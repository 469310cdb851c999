CONSTANTS
    Payments = {o1, o2}
    Requests = {t1, t2, w}
    Tabs = {t1, t2}
    Total = 2
    ExtendedTotal = 3
    FailingOrders = {o1, o2}
    RefundedOrders = {o1, o2}
    NoOrder = NoOrder
    Prices = {1000, 1530}
    GstSettings = {1200, 1250, 0, 20000}
    TotalUnits = 2
    MaxNights = 2
    MaxRooms = 3
    MaxChanges = 2
    Scenes = {"tabs", "extension", "declined", "refunds", "tariff"}
SYMMETRY Interchangeable
SPECIFICATION MCSpec
INVARIANTS
    CreditIsCaptured
    ChargedOnceUnhurried
    PageIsTrue
    BillAddsUp
    QuoteStands
PROPERTIES
    ExtensionChargesAddedNights
CHECK_DEADLOCK FALSE
