SPECIFICATION Spec
CONSTANTS
    w1 = w1
    w2 = w2
    r1 = r1
    r2 = r2
    r3 = r3
    r4 = r4
    r5 = r5
    p = p
    d1 = d1
    d2 = d2
    NoDeal = NoDeal
    Rows = {r1, r2, r3, r4, r5}
    Deal <- MCDeal
    Product <- MCProduct
    Events = {"e1", "e2", "e3", "e4"}
    File <- MCFile
    Addresses = {"street"}
    Importers = {w1, w2}
    MaxScans = 4
INVARIANTS
    RowCountedOnce
    PlanIsSumOfRows
    OneActiveOrderPerKey
    DealsKeptApart
CHECK_DEADLOCK FALSE
SYMMETRY Symmetry
