SPECIFICATION Spec
CONSTANTS
  f1 = f1
  f2 = f2
  f3 = f3
  Files <- OneFile
  BufferCount = 1
  BufferSize = 2
  InitialBytes <- Empty
  OpenModes = {"append"}
  ReadSizes <- NoSizes
  WriteSizes = {1}
  Distances <- NoDistances
  MaxBytes = 3
  MaxPos = 0
  MaxFailures = 0
  Careful = FALSE
INVARIANTS
  WritesAreKept
