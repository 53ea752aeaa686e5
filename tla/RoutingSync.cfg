\* One node, with Redis or without, changes by an admin or to a tenant, each of
\* one row, news from another node, one fault; a reloadChan of one notification.
SPECIFICATION SyncFairSpec
CONSTANTS
    Nodes = {n1}
    Admins = {n1}
    Patterns = {m1}
    Tenants = {t1}
    ChanCap = 1
    SubCap = 2
    MaxRows = 1
    MaxChanges = 3
    MaxFaults = 1
INVARIANTS ConvergedWhenQuiet OnePoolObject
PROPERTY Settles
CHECK_DEADLOCK FALSE
