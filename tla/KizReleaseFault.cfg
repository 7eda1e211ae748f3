CONSTANTS
    o1 = o1
    o2 = o2
    i1 = i1
    i2 = i2
    i3 = i3
    c1 = c1
    c2 = c2
    box = box
    Orders = {o1, o2}
    Items = {i1, i2}
    Codes = {c1, c2, box}
    RequiresKiz = {i1, i2}
    Releasers = {w1}
    OrderOf <- MCOrderOf
    Plan <- MCPlan
    Blocks <- MCBlocks
    BlocksIn <- MCBlocksIn
    Fits <- MCFits
    None = None
    MaxReleased = 1
    Overlap = FALSE
    Faults = TRUE
SPECIFICATION Spec
PROPERTY StatusAlwaysRestored
CHECK_DEADLOCK FALSE
