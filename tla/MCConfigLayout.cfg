CONSTANTS
  Byte = 4
  MaxNesting = 7
  Value <- LayoutValues
  Struct <- LayoutStructs
  Programs <- DumpedPrograms
  Serialise <- Blob
  NoBlob <- Fail
  Dumps <- LayoutDumps
  PathOf <- OnePath
  MaxStructs = 1
  MaxCalls = 1
SPECIFICATION Spec
INVARIANTS BlobsRight StringsTerminated RepresentableAccepted TypesHeld
CHECK_DEADLOCK FALSE
