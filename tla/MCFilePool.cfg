SPECIFICATION Spec
CONSTANTS
  f1 = f1
  f2 = f2
  f3 = f3
  Files <- ThreeFiles
  BufferCount = 2
  BufferSize = 2
  InitialBytes <- Empty
  OpenModes = {"append"}
  ReadSizes <- NoSizes
  WriteSizes = {1}
  Distances <- NoDistances
  MaxBytes = 4
  MaxPos = 0
  MaxFailures = 1
  Careful = TRUE
INVARIANTS
  BuffersOwned
VIEW
  ButLast
