SPECIFICATION ApiSpec
CONSTANTS
    None = None
    NoRow = NoRow
    Idle = Idle
    Jobs = {j1}
    Users = {u1}
    Clients = {c1, c2}
    Hotels = {h1, h2}
    Owner <- MCOwner
    Original <- MCOriginal
    CheckOut <- MCCheckOut
    Prices = {85}
    DropFloorAbs = 10
    DropFloorPct = 3
    MaxTime = 1
    Faults = {"failed"}
    PatchDeadlines = {2}
    PatchStatuses = {"active"}
    MaxRequests = 4
SYMMETRY MCSymmetry
CHECK_DEADLOCK FALSE
INVARIANTS ApiTypeOK ReadyIsActivated MonitoredIsScheduled
PROPERTIES CancelLostOnlyToOlderRequest
