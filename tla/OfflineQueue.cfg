SPECIFICATION FairSpec
CONSTANTS
    a = a
    b = b
    d = d
    t1 = t1
    t2 = t2
    NoCode = NoCode
    Tabs = {t1, t2}
    Codes = {a, b, d}
    Foreign = {b, d}
    Poisoned = {b}
    Plan = 1
    MaxConsecutiveFailures = 2
    BlockedLimit = 1
    WebLocks = TRUE
    MaxScans = 2
    MaxFaults = 1
INVARIANTS
    NoScanLost
PROPERTIES
    Drains
CHECK_DEADLOCK FALSE
