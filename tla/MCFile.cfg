SPECIFICATION Spec
CONSTANTS
  f1 = f1
  f2 = f2
  f3 = f3
  Files <- OneFile
  BufferCount = 1
  BufferSize = 3
  InitialBytes <- ThreeBytes
  OpenModes = {"read", "write", "append"}
  ReadSizes = {1, 3}
  WriteSizes = {1, 3}
  Distances <- SeekDistances
  MaxBytes = 4
  MaxPos = 4
  MaxFailures = 1
  Careful = TRUE
INVARIANTS
  WellFormed
PROPERTY
  ImplementsStreams
VIEW
  ButLast
