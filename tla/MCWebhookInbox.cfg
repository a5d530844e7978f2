SPECIFICATION FairSpec
CONSTANTS
    b1 = b1
    a1 = a1
    t1 = t1
    t2 = t2
    q1 = q1
    q2 = q2
    Bookings = {b1}
    Attempts = {a1}
    Tries = {t1, t2}
    AttemptOf <- TwoTries
    BookingOf <- OneAttempt
    Events <- Callbacks
    Requests = {q1, q2}
    NoEvent = NoEvent
    MaxJobs = 1
    MaxFaults = 1
    Deletable <- OldCallbacks
    MaxDeletions = 1
INVARIANTS
    OrdersFollowCredits
    AttemptTellsItsTries
PROPERTIES
    CreditsOnce
    AckedIsProcessed
CHECK_DEADLOCK FALSE
