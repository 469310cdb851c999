CONSTANTS
    Reservations = {1, 2}
    Enquiries = {q1}
    MaxRows = 2
    Rooms = {r1, r2}
    NoRoom = NoRoom
    RoomTypes = {"deluxe", "suite"}
    Bookings <- MCBookings
    StaffSets = {"OUT_OF_ORDER"}
    LastDay = 2
    LastNow = 2
    Zones <- MCZones
    CardRows = 1
    EastOfGreenwich = TRUE
    Editors = {e1, e2}
    Calls = {c1, c2}
    Units = {1, 2, 3}
    MaxBegun = 2
    Closed = Closed
    NoCall = NoCall
    Desks = {"figures", "catalogue"}
SYMMETRY Interchangeable
SPECIFICATION BackOfficeSpec
INVARIANTS
    EveryStayOnItsNights
    ChartsAgree
    CountedAlike
    ChangesStand
PROPERTIES
    OneTabKeepsItsWork
CHECK_DEADLOCK FALSE
