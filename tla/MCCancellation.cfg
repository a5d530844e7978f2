SPECIFICATION SpecCancel
CONSTANTS
    b1 = b1
    r1 = r1
    r2 = r2
    c1 = c1
    c2 = c2
    Bookings = {b1}
    RefundIds = {r1, r2}
    BookingOf <- OneBooking
    Workers = {w1}
    Admins = {adm}
    NoRefund = NoRefund
    Total = 2
    MaxTries = 1
    QueueTakesJobIds = TRUE
    MaxCaptures = 1
    MaxRetries = 0
    MaxFaults = 0
    MaxPageFaults = 1
    CustomerPages = {c1, c2}
    AdminPages = {d1}
    Markup = 1
SYMMETRY RowSymmetry
INVARIANTS
    CancellationsAgree
    SupplierRefundBookedOnce
    CustomerMadeWhole
PROPERTY KeepsToRefunds
CHECK_DEADLOCK FALSE
