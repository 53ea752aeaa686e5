\* Two runs of one job, two attempts each, one fault of any kind.
SPECIFICATION FairSpec
CONSTANTS
    r1 = r1
    r2 = r2
    w1 = w1
    w2 = w2
    scan = scan
    Workers = {w1, w2}
    HostOf <- OwnHost
    Guarded = {scan}
    Unknown = {scan}
    DelayCovers = TRUE
    DLQEnabled = TRUE
    Runs = {r1, r2}
    JobOf <- ScanTwice
    MaxRetries = 2
    MaxBodies = 1
    MaxFaults = 1
INVARIANTS Accounted SettledStatus
PROPERTY RunsSettle
CHECK_DEADLOCK FALSE
