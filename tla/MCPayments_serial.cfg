CONSTANTS
    Payments = {o1, o2}
    Requests = {p1}
    Total = 1
    ExtendedTotal = 2
    FailingOrders = {o1}
    RefundedOrders = {o1}
SPECIFICATION FairSpec
INVARIANTS
    AmountsAddUp
PROPERTIES
    FreshCaptureIsRecorded
CHECK_DEADLOCK FALSE
