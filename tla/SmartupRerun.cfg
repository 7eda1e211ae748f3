SPECIFICATION Spec
CONSTANTS
    d1 = d1
    d2 = d2
    worker = worker
    once = once
    Deals = {d1}
    Processes = {worker, once}
    LastSlot = 2
    MayLeave = {d1}
    MayReturn = {}
    MayChat = {d1}
    MaxFaults = 2
INVARIANTS
    ConfirmedIsWritten
    CompletedSlotIsCovered
CHECK_DEADLOCK FALSE
