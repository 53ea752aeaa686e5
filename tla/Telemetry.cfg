\* Two nodes, two requests of tenants or of the admin, a queue of one, batches
\* of two, one fault.
SPECIFICATION Spec
CONSTANTS
    n1 = n1 n2 = n2 r1 = r1 r2 = r2 r3 = r3
    Nodes = {n1, n2}
    Requests = {r1, r2}
    Callers = {"tenant", "admin"}
    QueueSize = 1
    BatchSize = 2
    PushSize = 2
    MaxSends = 2
    MaxFaults = 1
INVARIANTS EntryAccounted EmitSafe
PROPERTIES LogSettles
CHECK_DEADLOCK FALSE
