SPECIFICATION Spec
CONSTANTS
    a = a
    b = b
    None = None
    Orders = {a, b}
    FromFile = {a}
    MaxFaults = 2
INVARIANT RequestLinkedOnce
CHECK_DEADLOCK FALSE
