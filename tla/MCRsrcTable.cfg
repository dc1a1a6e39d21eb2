CONSTANTS
    b1 = b1
    b2 = b2
    b3 = b3
    b4 = b4
    m1 = m1
    m2 = m2
    rmax = 4
    Block = {b1, b2, b3, b4}
    Null = Null
    Types = {"RSRC_PORT", "RSRC_SEM"}
    Teams = {m1, m2}
SYMMETRY MCSymmetry
SPECIFICATION TableSpec
INVARIANTS FreeListExact FindIsRight OwnerLists
PROPERTY ImplementsIdPool
CHECK_DEADLOCK FALSE
