CONSTANTS
    Region <- MCRegion
    Page = 2
    LargePage = 4
    PaddrTop = 12
    Size <- MCSize
    Addr <- MCAddr
SPECIFICATION FairSpec
INVARIANTS AllocInv NoOverlap
PROPERTIES RefinesRegionAlloc AllocationEnds
CHECK_DEADLOCK FALSE
