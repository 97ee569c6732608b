CONSTANTS
    p1 = p1  p2 = p2  p3 = p3
    a1 = a1  a2 = a2  b1 = b1  b2 = b2  c1 = c1  c2 = c2
    i1 = i1  i2 = i2  o1 = o1  o2 = o2
    PD = {p1, p2, p3}
    End <- SixEnds
    Irq = {i1}
    IoPort = {o1, o2}
    EndPd <- SixEndPd
    CanPp = {a1, b1, c1}
    CanNotify = {}
    MaxIds = 2
    ReqId = {}
    Priority = {1, 2, 3}
    PriorityMoves = FALSE
SPECIFICATION Spec
INVARIANTS PpcAcyclic NoIdLost PortIdsUnique
SYMMETRY SixSymmetry
CHECK_DEADLOCK FALSE
