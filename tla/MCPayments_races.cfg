CONSTANTS
    Payments = {o1, o2}
    Requests = {p1, p2}
    Total = 2
    ExtendedTotal = 2
    FailingOrders = {o1}
    RefundedOrders = {o2}
SPECIFICATION Spec
SYMMETRY RequestSymmetry
INVARIANTS
    RecordedOnlyIfCaptured

    
CHECK_DEADLOCK FALSE
