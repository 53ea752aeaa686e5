\* One node, one admin with three requests, one run, one fault.
SPECIFICATION Spec
CONSTANTS
    n1 = n1 j1 = j1 c1 = c1 c2 = c2 c3 = c3 r1 = r1 r2 = r2
    Nodes = {n1}
    Jobs = {j1}
    Timed = {j1}
    Calls = {c1, c2, c3}
    Runs = {r1}
    Alone = TRUE
    MaxEntries = 3
    MaxFaults = 1
INVARIANTS SuccessEarned ScheduledAsDefined
PROPERTIES RunsEnd
CHECK_DEADLOCK FALSE
