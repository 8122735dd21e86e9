SPECIFICATION Spec
CONSTANTS
  Base = 102
  Words = 19
  Sizes = {1, 5, 6}
  Alignments = {1, 2}
  Handles <- ThreeHandles
  NoBlock = NoBlock
INVARIANTS
  WellFormed
  ContentsKept
PROPERTY
  FailuresUndone
  OnlyFreeLoses
CHECK_DEADLOCK FALSE
