CONSTANTS
    Codes = {a, b}
    Plan = 2
    Done = Done
    MaxTurns = 3
    CrashBeforeRecord = FALSE
SPECIFICATION Spec
INVARIANTS NothingLostEver
CHECK_DEADLOCK FALSE
SYMMETRY Symmetry
