SPECIFICATION MCSpec
CONSTANTS
  Keys = {1, 2, 3, 4}
  Values = {v1, v2}
  HashCodes <- Codes
  InitialBucketCount = 4
  EntrySize = 2
  ReserveCounts = {0, 3}
  MaxBuckets = 7
  Careful = TRUE
  NoEntry = NoEntry
  Missing = Missing
INVARIANTS
  WellFormed
PROPERTIES
  ImplementsMap
  CallsReturn
