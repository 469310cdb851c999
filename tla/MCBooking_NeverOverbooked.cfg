CONSTANTS
    MaxHolds = 2
    MaxReservations = 2
    Requests = {p1, p2}
    Sweepers = {w1}
    Sessions = {s1, s2}
    NoSession = NoSession
    TotalUnits = 1
    LastNight = 0
    MaxQuantity = 1
    HoldDuration = 1
    SweepBatch = 1
    MaxTime = 2
SPECIFICATION Spec
INVARIANT NeverOverbooked
CHECK_DEADLOCK FALSE
