CONSTANTS
    MaxHolds = 3
    MaxReservations = 1
    Requests = {p1}
    Sweepers = {}
    Sessions = {s1}
    NoSession = NoSession
    TotalUnits = 2
    LastNight = 1
    MaxQuantity = 2
    HoldDuration = 1
    SweepBatch = 2
    MaxTime = 1
    Rooms = {r201}
SPECIFICATION AvailabilitySpec
SYMMETRY Symmetry
INVARIANTS
    OfferLeavesEveryNightCovered
PROPERTIES
    NewHoldFitsEveryNight
    ImplementsLedger
CHECK_DEADLOCK FALSE
