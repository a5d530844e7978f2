SPECIFICATION FairSpec
CONSTANTS
    b1 = b1
    r1 = r1
    r2 = r2
    Bookings = {b1}
    RefundIds = {r1, r2}
    BookingOf <- OneBooking
    Workers = {w1}
    Admins = {adm}
    NoRefund = NoRefund
    Total = 2
    MaxTries = 2
    QueueTakesJobIds = FALSE
    MaxCaptures = 1
    MaxRetries = 0
    MaxFaults = 0
PROPERTY PendingIsResolved
CHECK_DEADLOCK FALSE
