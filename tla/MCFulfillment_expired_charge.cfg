SPECIFICATION FairSpec
CONSTANTS
    b1 = b1
    b2 = b2
    a1 = a1
    a2 = a2
    t1 = t1
    t2 = t2
    Bookings = {b1}
    Attempts = {a1}
    Transactions = {t1}
    AttemptOf <- OneAttempt
    BookingOf <- AttemptsOfB1
    Workers = {w1}
    NoBooking = NoBooking
    MaxPosts = 1
    MaxStalls = 0
PROPERTY CapturedIsSettled
CHECK_DEADLOCK FALSE
