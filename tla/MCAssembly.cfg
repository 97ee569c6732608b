CONSTANTS
  s1 = s1
  s2 = s2
  s3 = s3
  p1 = p1
  Subsystem = {s1, s2, s3}
  NoClients = {s3}
  Hooks = 2
  ConnectHook = 2
  HookDoes <- Everything
  MaxErrors = 2
  PD = {p1}
SPECIFICATION FairSpec
INVARIANTS AssemblyInv FinalMeansBuilt ClientsConnected
PROPERTIES NoRepeatedBuild TerminalEnds
CHECK_DEADLOCK FALSE
