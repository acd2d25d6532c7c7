SPECIFICATION Spec
CONSTANTS
    None = None
    DropFloorAbs = 10
    DropFloorPct = 3
    Bookings <- MCBookings
    RawRates <- MCRawRates
    MaxRates = 2
CHECK_DEADLOCK FALSE
INVARIANTS NoPhantomDrop NothingMissed
