CONSTANTS
    Reservations = {r1, r2}
    Rooms = {m1, m2}
    NoRoom = NoRoom
    Assignments = {a1, a2, a3}
    Tasks = {t1}
    Extensions = {}
    Requests = {p1, p2}
    LastDay = 1
    StaffSets = {}
SPECIFICATION Spec
SYMMETRY Symmetry
INVARIANTS
    CheckedInHasRoom
CHECK_DEADLOCK FALSE
