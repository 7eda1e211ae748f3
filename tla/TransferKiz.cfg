SPECIFICATION FairSpec
CONSTANTS
    i1 = i1
    i2 = i2
    Items = {i1, i2}
    Orders = {{i1}, {i2}}
    MayAct = {{i1}}
    MayRelease = {i1}
    MaxScans = 2
    MaxDeliveries = 2
    MaxPreSendAttempts = 2
    MaxFaults = 1
INVARIANTS
    SentIsComplete
    UndoneIsAlerted
PROPERTIES
    DeliveryIsOneCall
    DeliveryEnds
    ReadyIsQueued
CHECK_DEADLOCK FALSE
