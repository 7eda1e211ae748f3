SPECIFICATION Spec
CONSTANTS
    w1 = w1
    w2 = w2
    r1 = r1
    r2 = r2
    r3 = r3
    r4 = r4
    r5 = r5
    p = p
    d1 = d1
    d2 = d2
    NoDeal = NoDeal
    Rows = {r1, r2, r3, r4, r5}
    Deal <- MCDeal
    Product <- MCProduct
    Events = {"e1", "e4"}
    File <- MCFile
    Addresses = {"street", "gps"}
    Importers = {w1, w2}
    MaxScans = 0
INVARIANT RowCountedOnce
CHECK_DEADLOCK FALSE
