SPECIFICATION Spec
CONSTANTS
  Files <- MCFiles
  Times = {0, 1, 3, 6}
  MaxUpdates = 2
INVARIANTS
  DocumentsParse
  NothingMisread
  LoadsTheScene
  JointsFollowParents
