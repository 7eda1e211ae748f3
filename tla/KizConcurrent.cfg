CONSTANTS
    o1 = o1
    o2 = o2
    i1 = i1
    i2 = i2
    i3 = i3
    c1 = c1
    c2 = c2
    box = box
    Orders = {o1}
    Items = {i1}
    Codes = {c1, c2}
    RequiresKiz = {i1}
    Releasers = {w1, w2}
    OrderOf <- MCOrderOf
    Plan <- MCPlan
    Blocks <- MCBlocks
    BlocksIn <- MCBlocksIn
    Fits <- MCFits
    None = None
    MaxReleased = 1
    Overlap = TRUE
    Faults = TRUE
SPECIFICATION Spec
INVARIANTS
    BusyCodeHasScan
    CountersMatchScans
CHECK_DEADLOCK FALSE
SYMMETRY Symmetry
