CONSTANTS
    a = a
    b = b
    Orders = {a, b}
    Workers = {w1}
    Requests = {r1, r2}
    Body <- SameBody
    None = None
    RetryLimit = 2
    RepostLimit = 1
    AdminRace = FALSE
    SoundDetails = TRUE
SPECIFICATION Spec
INVARIANT RequestLinkedOnce
CHECK_DEADLOCK FALSE
