CONSTANTS
    r1 = r1
    r2 = r2
    p1 = p1
    p2 = p2
    p3 = p3
    a = a
    b = b
    x = x
    y = y
    none = none
    llama = llama
    gemma = gemma
    NoPool = none
    Models = {llama, gemma}
    Ticks <- MCTicks
    Routes <- MixedRoutes
    Streaming = {}
    AttemptCap = 20
    MaxCool = 2
    Requests = {r1}
    Pools = {p1, p2, p3}
    Creds = {a, b, x, y}
    Shared = {b}
    Ring <- MixedRing
    Fallback <- MixedFallback
    Provider <- MixedProvider
    Replies <- MixedReplies
    Core <- MixedCore
SPECIFICATION FairSpec
INVARIANTS TypeOK SpendBounded PayloadFaultsBounded ModelOrItsFallback
PROPERTIES PenaltyIsolated CancelledPenalizesNoKey KeepsAnswer Termination
CHECK_DEADLOCK FALSE
