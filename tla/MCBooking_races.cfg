CONSTANTS
    MaxHolds = 2
    MaxReservations = 1
    Requests = {p1, p2}
    Sweepers = {w1}
    Sessions = {s1}
    NoSession = NoSession
    TotalUnits = 1
    LastNight = 1
    MaxQuantity = 1
    HoldDuration = 1
    SweepBatch = 1
    MaxTime = 2
SPECIFICATION Spec
SYMMETRY Symmetry
INVARIANTS
    GrantsFit
    OversoldOnlyByUnbacked
    NoDoubleCount
PROPERTIES
    PaidBookingKept
CHECK_DEADLOCK FALSE
