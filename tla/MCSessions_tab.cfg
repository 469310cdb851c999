CONSTANTS
    t1 = t1
    t2 = t2
    c1 = c1
    c2 = c2
    MaxSessions = 3
    Tabs = {t1}
    Calls = {c1, c2}
    TabOf <- OneTab
    Attempts = {a1, a2}
    Links = {l1, l2}
    NoLink = NoLink
    MAX_FAILED = 2
    MaxCount = 5
    Concerns = {"sessions", "accounts", "guests"}
    Members = {m1, m2}
    Grades = {"OWNER", "HOUSEKEEPING", "VIEWER"}
    OwnRoles <- Viewer
    Texts = {"x"}
    Markup = "<i>"
    Blank = ""
    Null = Null
    MaxChanges = 2
SPECIFICATION MCSpec
INVARIANTS
    RotatedIsRevoked
    StaysSignedIn
    GuessesAreLimitedUnhurried
    ResetIsFinalUnhurried
PROPERTIES
    WaitEnds
    MaskNeverSaved
    OwnWorkKept
CHECK_DEADLOCK FALSE
