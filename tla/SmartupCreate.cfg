SPECIFICATION Spec
CONSTANTS
    d1 = d1
    d2 = d2
    worker = worker
    once = once
    Deals = {d1, d2}
    Processes = {worker}
    LastSlot = 2
    MayLeave = {d2}
    MayReturn = {}
    MayChat = {}
    MaxFaults = 1
INVARIANT CreateIsConfirmed
CHECK_DEADLOCK FALSE
