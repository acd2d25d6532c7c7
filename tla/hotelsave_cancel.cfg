SPECIFICATION SystemSpec
CONSTANTS
    None = None
    NoRow = NoRow
    Idle = Idle
    Jobs = {j1}
    Users = {u1}
    Workers = {w1}
    Clients = {c1}
    Hotels = {h1}
    Owner <- MCOwner
    Original <- MCOriginal
    CheckOut <- MCCheckOut
    Prices = {85}
    Offers <- MCOneOffer
    Deadlines = {2}
    DropFloorAbs = 10
    DropFloorPct = 3
    MaxTime = 2
    Faults = {}
    Daily = 3
    TwiceDaily = 2
    FourTimesDaily = 1
    FarHours = 4
    NearHours = 3
    GuardHours = 1
    RetryHours = 1
    Jitters = {0}
    RequireRebookUrl = TRUE
    MaxCrashes = 0
    PatchDeadlines = {2}
    PatchStatuses = {}
    MaxRequests = 3
    MaxPlanEvents = 1
    StripeStatuses = {"unpaid"}
PROPERTIES CancelStopsMonitoring
