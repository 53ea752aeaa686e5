\* Two at a time of two re-discoveries, a registration, a deletion and a purge; one edit.
SPECIFICATION Spec
CONSTANTS
    Patterns <- Alphabet
    Accounts <- Keys
    Endpoint <- Same
    Offers <- Lists
    Registrars = {"r"}
    Scanners = {"s1", "s2"}
    Sweepers = {"d", "z"}
    Purgers = {"z"}
    Initial <- Bound
    FirstID = 3
    MaxCalls = 2
    MaxEdits = 1
INVARIANTS BatchesNeverDeadlock ScanAccounted
PROPERTIES BatchBindsOnce
CHECK_DEADLOCK FALSE
