CONSTANTS
    g = g
    a1 = a1
    a2 = a2
    a3 = a3
    b2 = b2
    b3 = b3
    c1 = c1
    d1 = d1
    None = None
    Genesis = g
    Blocks <- MCBlocks
    Parent <- MCParent
    Bad = {c1}
    Refused = {d1}
    Own = {a2, b3}
    MaxBatch = 2
    MaxLate = 1
    MaxFaults = 2
SPECIFICATION Spec
PROPERTY EveryInsertReturns
CHECK_DEADLOCK FALSE
