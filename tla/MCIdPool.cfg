CONSTANTS
    p1 = p1  p2 = p2  p3 = p3
    a1 = a1  a2 = a2  b1 = b1  b2 = b2  c1 = c1  c2 = c2
    i1 = i1  i2 = i2  o1 = o1  o2 = o2
    PD = {p1, p2}
    End <- ThreeEnds
    Irq = {i1, i2}
    IoPort = {}
    EndPd <- ThreeEndPd
    CanPp = {}
    CanNotify = {a1, b1}
    MaxIds = 2
    ReqId = {0, 3}
    Priority = {1}
    PriorityMoves = TRUE
SPECIFICATION Spec
INVARIANTS TypeOK UniqueIds
PROPERTY IdsKept
SYMMETRY Symmetry
CHECK_DEADLOCK FALSE
