SPECIFICATION FairSpec
CONSTANTS
    a = a
    b = b
    x = x
    y = y
    u = u
    v = v
    o1 = o1
    o2 = o2
    o3 = o3
    o4 = o4
    o5 = o5
    Nobody = Nobody
    Events = {a, x}
    Telegram = {a}
    Workers = {u, v}
    Owners = {o1, o2, o3, o4, o5}
    MaxFaults = 2
INVARIANTS
    CompletedIsSent
    PostedOnce
PROPERTIES
    LeasesImplemented
    Ends
CHECK_DEADLOCK FALSE
