SPECIFICATION PanelSpec
CONSTANTS
    a = a
    b = b
    d = d
    t1 = t1
    t2 = t2
    NoCode = NoCode
    Tabs = {t1, t2}
    Codes = {a}
    Foreign = {}
    Poisoned = {}
    Plan = 1
    MaxConsecutiveFailures = 2
    BlockedLimit = 1
    WebLocks = TRUE
    MaxScans = 2
    MaxFaults = 2
INVARIANT NoScanLostEver
PROPERTY UndoneNeverReachedServer
CHECK_DEADLOCK FALSE
