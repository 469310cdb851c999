CONSTANTS
    Sockets = {1, 2}
    Tokens = {t1, t2}
    NoSocket = NoSocket
    NoToken = NoToken
    Pages = {"dashboard", "bell", "bookings", "bookingDetail", "rooms", "housekeeping", "pricing", "settings"}
    MaxWrites = 2
SPECIFICATION FairSpec
INVARIANTS
    NeverDeaf
PROPERTIES
    DeadClientDropped
    HeardAgain
    WrittenIsShown
    HeardIsShown
CHECK_DEADLOCK FALSE
