CONSTANTS
  Word = 4
  Page = 2
  ArchID = {"aarch64", "riscv64", "x86_64"}
  Source <- Trees
SPECIFICATION FairSpec
INVARIANTS ReadsRight PageOfRegister GicRight IrqsRight
PROPERTY WalkEnds
CHECK_DEADLOCK FALSE
