SPECIFICATION Spec
CONSTANTS
    b1 = b1
    r1 = r1
    r2 = r2
    Bookings = {b1}
    RefundIds = {r1, r2}
    BookingOf <- OneBooking
    Workers = {w1, w2}
    Admins = {adm}
    NoRefund = NoRefund
    Total = 2
    MaxTries = 2
    QueueTakesJobIds = TRUE
    MaxCaptures = 2
    MaxRetries = 1
    MaxFaults = 1
SYMMETRY RowSymmetry
INVARIANTS
    RecordedOnce
    RollupIsSupported
    PayoutsHaveACause
    CoveredBookingIsClosed
CHECK_DEADLOCK FALSE
