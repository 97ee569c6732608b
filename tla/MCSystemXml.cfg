CONSTANTS
  p1 = p1  p2 = p2  p3 = p3  r1 = r1  s1 = s1  c1 = c1  v1 = v1
  PD = {p1, p2, p3}
  MaxIds = 2
  ReqId = {1}
  MR = {r1}
  IOAS = {s1}
  Chan = {c1}
  VM = {v1}
  Scheduled = {v1}
  X86 = FALSE
  MapArg <- Maps
  IOMapArg <- IoMaps
  VcpuIds <- Vcpus
  CapArg <- Caps
  MaxCalls = 5
SPECIFICATION XmlSpec
SYMMETRY Symmetry
INVARIANTS TreeInv RenderEnds NothingMissing
PROPERTIES ChildKept SaidKept
CHECK_DEADLOCK FALSE
