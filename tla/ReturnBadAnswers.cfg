CONSTANTS
    a = a
    b = b
    Orders = {a}
    Workers = {w1}
    Requests = {r1, r2}
    Body <- DistinctBodies
    None = None
    RetryLimit = 2
    RepostLimit = 1
    AdminRace = FALSE
    SoundDetails = FALSE
SPECIFICATION Spec
INVARIANTS
    AtMostOneRequest
    RejectedHasNoRequest
CHECK_DEADLOCK FALSE
