SPECIFICATION FairSpec
CONSTANTS
    q1 = q1
    q2 = q2
    w1 = w1
    w2 = w2
    MaxChanges = 3
    DepartureOf <- Departures
    Events <- Notices
    Requests = {q1}
    NoEvent = NoEvent
    Workers = {w1, w2}
    MaxJobs = 1
    MaxFaults = 1
INVARIANTS
    SettledMeansCurrent
    MailAgreesWithTable
PROPERTY ScheduleCatchesUp
CHECK_DEADLOCK FALSE
