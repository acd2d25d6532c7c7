SPECIFICATION Spec
CONSTANTS
    None = None
    NoRow = NoRow
    Jobs = {j1}
    Users = {u1}
    Workers = {w1, w2}
    Hotels = {h1}
    Owner <- MCOwner
    Original <- MCOriginal
    CheckOut <- MCShortStay
    Prices <- MCPrices
    Offers <- MCTwoOffers
    Deadlines <- MCOneDeadline
    DropFloorAbs = 10
    DropFloorPct = 3
    MaxTime = 3
    Faults = {"failed"}
    Daily = 3
    TwiceDaily = 2
    FourTimesDaily = 1
    FarHours = 4
    NearHours = 3
    GuardHours = 2
    RetryHours = 1
    Jitters = {0}
    RequireRebookUrl = TRUE
    MaxCrashes = 0
SYMMETRY MCSymmetry
INVARIANTS RecordsAreHonest ChecksNotOverstated
