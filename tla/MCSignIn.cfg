SPECIFICATION SpecSignIn
CONSTANTS
    x1 = x1
    x2 = x2
    k1 = k1
    l1 = l1
    l2 = l2
    l3 = l3
    a1 = a1
    a2 = a2
    Tabs = {x1, x2}
    Kinds = {}
    Tokens = {k1}
    NoToken = NoToken
    MaxCalls = 2
    MaxFlips = 1
    MaxLost = 1
    Links = {l1, l2, l3}
    NoLink = NoLink
    Askers = {a1, a2}
    MaxPerEmail = 1
    MaxMishaps = 1
SYMMETRY Symmetry
INVARIANTS
    LinkOpensOnce
    MailsBounded
CHECK_DEADLOCK FALSE
