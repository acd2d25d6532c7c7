SPECIFICATION ClockSpec
CONSTANTS
    None = None
    NoRow = NoRow
    Jobs = {j1}
    Users = {u1}
    Workers = {w1}
    Hotels = {h1}
    Owner <- MCOwner
    Original <- MCOriginal
    CheckOut <- MCCheckOut
    Prices = {85}
    Offers <- MCOffers
    Deadlines = {80}
    MovedTo = {60, 90}
    MoveHours = {26, 80}
    DropFloorAbs = 10
    DropFloorPct = 3
    MaxTime = 102
    Faults = {"failed", "crash", "check_fails"}
    Daily = 24
    TwiceDaily = 12
    FourTimesDaily = 6
    FarHours = 336
    NearHours = 72
    GuardHours = 48
    RetryHours = 1
    Jitters = {0, 1}
    RequireRebookUrl = TRUE
    MaxCrashes = 1
    MaxMoves = 1
    MaxTrouble = 2
CHECK_DEADLOCK FALSE
INVARIANTS InTime
PROPERTIES EndsOnlyWhenOver
