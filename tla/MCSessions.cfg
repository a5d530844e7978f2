SPECIFICATION Spec
CONSTANTS
    x1 = x1
    x2 = x2
    k1 = k1
    k2 = k2
    k3 = k3
    Tabs = {x1, x2}
    Kinds = {"mount", "retry", "logout"}
    Tokens = {k1, k2, k3}
    NoToken = NoToken
    MaxCalls = 2
    MaxFlips = 1
    MaxLost = 1
SYMMETRY Symmetry
INVARIANTS
    OneHolderPerFamily
    DeactivationTakesEffect
    CookieWorks
CHECK_DEADLOCK FALSE
