CONSTANTS
    l1 = l1
    l2 = l2
    Line = {l1, l2}
    IFETCH_SIZE = 3
    DECODE_SIZE = 2
    DECODE_WIDTH = 2
    MaxRequests = 2
    MaxInstr = 4
SPECIFICATION FairSpec
INVARIANTS
    NoAssertionFails
    InTraceOrder
    StallMatchesBranch
    WaitersAreAnswered
PROPERTIES
    FrontendDrains
