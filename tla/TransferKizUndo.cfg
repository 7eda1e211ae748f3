SPECIFICATION Spec
CONSTANTS
    i1 = i1
    i2 = i2
    Items = {i1, i2}
    Orders = {{i1}, {i2}}
    MayAct = {}
    MayRelease = {i1}
    MaxScans = 2
    MaxDeliveries = 1
    MaxPreSendAttempts = 2
    MaxFaults = 0
INVARIANT DeliveredUndoAlerted
CHECK_DEADLOCK FALSE
