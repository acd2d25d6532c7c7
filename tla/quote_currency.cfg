SPECIFICATION Spec
CONSTANTS
    None = None
    DropFloorAbs = 10
    DropFloorPct = 3
    Bookings <- MCForeignBookings
    RawRates <- MCRawRates
    MaxRates = 2
CHECK_DEADLOCK FALSE
INVARIANTS QuotedInBookingCurrency
