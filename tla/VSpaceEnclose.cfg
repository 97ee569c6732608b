CONSTANTS
    LargePage = 4
    Start = 16
    Size <- MCSize
    Vaddr <- MCVaddr
    MaxMaps = 2
SPECIFICATION Spec
INVARIANT NoOverlap
CHECK_DEADLOCK FALSE
