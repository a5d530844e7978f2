SPECIFICATION FairSpec
CONSTANTS
    b1 = b1
    b2 = b2
    a1 = a1
    a2 = a2
    t1 = t1
    t2 = t2
    Bookings = {b1}
    Attempts = {a1, a2}
    Transactions = {t1, t2}
    AttemptOf <- TwoAttempts
    BookingOf <- AttemptsOfB1
    Workers = {w1, w2}
    NoBooking = NoBooking
    MaxPosts = 3
    MaxStalls = 1
INVARIANTS
    OutcomeAppliedOnce
    ConfirmedHoldsItsOrder
    AtMostOneEmail
    PostsAreAccounted
    NoRefundWhileTicketed
PROPERTIES
    ImplementsLifecycle
    PaidIsResolved
CHECK_DEADLOCK FALSE
