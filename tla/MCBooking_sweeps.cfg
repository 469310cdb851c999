CONSTANTS
    MaxHolds = 2
    MaxReservations = 2
    Requests = {p1}
    Sweepers = {w1}
    Sessions = {s1}
    NoSession = NoSession
    TotalUnits = 2
    LastNight = 0
    MaxQuantity = 1
    HoldDuration = 1
    SweepBatch = 1
    MaxTime = 2
SPECIFICATION FairSpec
PROPERTIES
    UnpaidReservationResolved
    ExpiredHoldSwept
CHECK_DEADLOCK FALSE
