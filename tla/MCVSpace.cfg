CONSTANTS
    LargePage = 4
    Start = 16
    Size <- MCSize
    Vaddr <- MCVaddr
    MaxMaps = 4
SPECIFICATION Spec
INVARIANTS NoPartialOverlap AutomapsDisjoint GuardPages AutomapAligned AutomapSucceeds
CHECK_DEADLOCK FALSE
