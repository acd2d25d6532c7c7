SPECIFICATION LiveSpec
CONSTANTS
    None = None
    NoRow = NoRow
    Jobs = {j1}
    Users = {u1}
    Workers = {w1}
    Hotels = {h1}
    Owner <- MCOwner
    Original <- MCOriginal
    CheckOut <- MCCheckOut
    Prices <- MCPrices
    Offers <- MCFewOffers
    Deadlines <- MCDeadlines
    DropFloorAbs = 10
    DropFloorPct = 3
    MaxTime = 7
    Faults = {"crash", "check_fails"}
    Daily = 3
    TwiceDaily = 2
    FourTimesDaily = 1
    FarHours = 4
    NearHours = 3
    GuardHours = 2
    RetryHours = 1
    Jitters = {0}
    RequireRebookUrl = TRUE
    MaxCrashes = 1
PROPERTIES MonitoringEnds
