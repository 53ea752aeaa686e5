\* Two nodes, four requests, a limit of two, two minutes of two ticks, one call
\* of Redis that fails.
SPECIFICATION Spec
SYMMETRY Symmetry
CONSTANTS
    n1 = n1 n2 = n2 r1 = r1 r2 = r2 r3 = r3 r4 = r4
    Nodes = {n1, n2}
    Requests = {r1, r2, r3, r4}
    Callers = {"admin", "tenant"}
    Limit = 2
    Window = 2
    MaxTime = 3
    MaxFaults = 1
INVARIANTS WindowKept MinuteKept
CHECK_DEADLOCK FALSE
