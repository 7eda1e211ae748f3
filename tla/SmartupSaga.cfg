SPECIFICATION FairSpec
CONSTANTS
    d1 = d1
    d2 = d2
    worker = worker
    once = once
    Deals = {d1, d2}
    Processes = {worker}
    LastSlot = 2
    MayLeave = {d2}
    MayReturn = {d1}
    MayChat = {}
    MaxFaults = 1
INVARIANTS
    NoBlindWrite
    FileIsConfirmed
PROPERTIES
    FileIsOneCall
    SagaIsFinished
CHECK_DEADLOCK FALSE
