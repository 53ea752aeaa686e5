CONSTANTS
    r1 = r1
    p1 = p1
    p2 = p2
    a = a
    b = b
    x = x
    none = none
    flash = flash
    Requests = {r1}
    Streaming = {r1}
    Pools = {p1, p2}
    Creds = {a, b, x}
    NoPool = none
    Models = {flash}
    Ring <- MCRing
    Core <- MCCore
    Routes <- MCRoutes
    Provider <- MCProvider
    Ticks <- MCTicks
    Replies = {}
    AttemptCap = 20
    MaxCool = 2
    Shared = {b}
    MaxFailovers = 2
    Fallback <- Cascade
SPECIFICATION StreamSpec
INVARIANTS StreamSpendBounded
PROPERTIES StreamPenaltyIsolated HeardIsFinal StreamKeepsAnswer
CHECK_DEADLOCK FALSE
