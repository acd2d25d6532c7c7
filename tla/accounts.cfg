SPECIFICATION InboxSpec
CONSTANTS
    None = None
    NoAccount = NoAccount
    Idle = Idle
    Boxes = {b1}
    Visitors = {v1, v2}
    Catalogue <- MCCatalogue
    Countries = {"GR", "IT"}
    DefaultCountry = "GR"
    Messages = {m1}
    Servers = {s1, s2}
    Bookings <- MCBookings
    MaxLost = 2
SYMMETRY MCSymmetry
CHECK_DEADLOCK FALSE
INVARIANTS InboxTypeOK RegisteredCanLogin RepostedOnlyIfLost CrashLosesNoEmail
