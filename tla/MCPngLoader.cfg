SPECIFICATION Spec
CONSTANTS
  Files <- AllFiles
  FastBits = 3
INVARIANTS
  WellFormed
  InflatesInOrder
  LoadsTheImage
