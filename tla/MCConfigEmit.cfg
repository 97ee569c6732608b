CONSTANTS
  Byte = 4
  MaxNesting = 7
  Value <- EmitValues
  Struct <- EmitStructs
  Programs <- DumpedPrograms
  Serialise <- Blob
  NoBlob <- Fail
  Dumps <- EmitDumps
  PathOf <- OwnPaths
  MaxStructs = 2
  MaxCalls = 2
SPECIFICATION Spec
INVARIANTS BlobsRight OkMeansWritten
CHECK_DEADLOCK FALSE
