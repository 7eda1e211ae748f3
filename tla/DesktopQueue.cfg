CONSTANTS
    Codes = {a, b}
    Plan = 2
    Done = Done
    MaxTurns = 2
    CrashBeforeRecord = FALSE
SPECIFICATION Spec
INVARIANTS NothingLost NotResurrected SavedIsOnServer
CHECK_DEADLOCK FALSE
SYMMETRY Symmetry
