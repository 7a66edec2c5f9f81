CONSTANTS
    x1 = x1
    x2 = x2
    pt1 = pt1
    w1 = w1
    w2 = w2
    Line = {x1, x2}
    PageTable = {pt1}
    NoLine = NoLine
    Way = {w1, w2}
    RQ_SIZE = 3
    WQ_SIZE = 1
    PQ_SIZE = 2
    MSHR_SIZE = 1
    L1I_MSHR_SIZE = 1
    L1D_MSHR_SIZE = 1
    LLC_RQ_SIZE = 1
    MaxRequests = 4
SPECIFICATION MCSpec
PROPERTIES
    Drains
CHECK_DEADLOCK FALSE
