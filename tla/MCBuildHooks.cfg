CONSTANTS
  Name = {"g", "h"}
  Body <- Bodies
  MaxBases = 2
  MaxClasses = 4
SPECIFICATION HookSpec
INVARIANTS HooksResolve OwnLast
CHECK_DEADLOCK FALSE
