SPECIFICATION SpecPages
CONSTANTS
    x0 = x0
    x1 = x1
    x2 = x2
    y1 = y1
    y2 = y2
    c1 = c1
    t1 = t1
    n1 = n1
    open = open
    done = done
    Queries = {x1, x2, x0}
    Incomplete = {x0}
    Requests = {y1, y2}
    Callers = {c1}
    Nothing = Nothing
    Lives = {1, 3}
    Capacity = 1
    Refill = 1
    CacheSeconds = 1
    PageTicks = 1
    MaxTime = 2
    MaxSearches = 2
    MaxParty = 3
    Admins = {x1, x2}
    Rules = {y1, y2}
    Tickets = {t1}
    Notes = {n1}
    NoNote = NoNote
    NoRow = NoRow
    MaxEdits = 5
    Tags = {open, done}
    All = All
    Filters = {All, open}
    Limit = 1
    MaxRows = 3
    MaxOut = 2
    MaxEvents = 3
SYMMETRY Same
INVARIANTS
    SpendingIsCovered
    CachedOffersLive
    ResultsAnswerSearch
    OrderFitsOffer
    AuditIsUnbroken
    PageFollowsControls
    WalkIsComplete
PROPERTY ActiveRuleStays
CHECK_DEADLOCK FALSE
