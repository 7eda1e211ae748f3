SPECIFICATION FairSpec
CONSTANTS
    a = a
    b = b
    None = None
    Orders = {a, b}
    FromFile = {a}
    MaxFaults = 3
INVARIANTS
    AtMostOneRequest
    LinkIsOwn
PROPERTIES
    CreateIsOneCall
    StaysLinked
    Settles
CHECK_DEADLOCK FALSE
