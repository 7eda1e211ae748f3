SPECIFICATION Spec
CONSTANTS
    a = a
    b = b
    x = x
    y = y
    u = u
    v = v
    o1 = o1
    o2 = o2
    o3 = o3
    o4 = o4
    o5 = o5
    Nobody = Nobody
    Events = {x}
    Telegram = {}
    Workers = {u, v}
    Owners = {o1, o2, o3, o4, o5}
    MaxFaults = 2
PROPERTIES
    OnlyHolderDecides
CHECK_DEADLOCK FALSE
