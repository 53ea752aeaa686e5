CONSTANTS
    k1 = k1
    k2 = k2
    p1 = p1
    p2 = p2
    a = a
    b = b
    x = x
    none = none
    Nobody = Nobody
    Callers = {k1, k2}
    Entry = {p1}
    Pools = {p1, p2}
    Creds = {a, b, x}
    NoPool = none
    Ring <- MCRing
    Fallback <- MCFallback
    Ticks <- MCTicks
    MaxCool = 1
SPECIFICATION FairSpec
PROPERTIES KeepsPromise CallReturns NoStarvation
