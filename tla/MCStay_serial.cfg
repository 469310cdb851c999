CONSTANTS
    Reservations = {r1, r2}
    Rooms = {m1, m2}
    NoRoom = NoRoom
    Assignments = {a1, a2, a3}
    Tasks = {t1}
    Extensions = {x1}
    Requests = {p1}
    LastDay = 2
    StaffSets = {"OUT_OF_ORDER"}
SPECIFICATION Spec
SYMMETRY Symmetry
INVARIANTS
    SharedOnlyByExtension
PROPERTIES
    OfferedExtensionFits
    EndsAreFinal
CHECK_DEADLOCK FALSE
