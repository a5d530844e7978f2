SPECIFICATION FairSpec
CONSTANTS
    p1 = p1
    p2 = p2
    b1 = b1
    b2 = b2
    a1 = a1
    a2 = a2
    Keys = {p1}
    Links = {p2}
    Bookings = {b1, b2}
    Attempts = {a1, a2}
    MaxSends = 2
    MaxFaults = 1
    Nobody = Nobody
    NoBooking = NoBooking
    NoAttempt = NoAttempt
INVARIANTS
    OneBookingPerKey
    ChargesAreTraceable
    ScreensTellStatus
PROPERTY OutcomeIsShown
CHECK_DEADLOCK FALSE
