SPECIFICATION Spec
CONSTANTS
  Handles = {h1, h2, h3}
  Sizes = {1, 6}
  Alignments = {1, 2}
  HeaderSize = 2
  PageHeaderSize = 1
  FirstPageSize = 9
  DefaultPageSize = 8
  Bases = {0, 1}
  MaxPages = 2
  MaxUsed = 12
  MaxScopes = 1
  NoBlock = NoBlock
SYMMETRY HandlesAreAlike
INVARIANTS
  WellFormed
  ScopesProtectOlder
  NoPageLeak
  UsedExactWithoutScopes
CHECK_DEADLOCK FALSE
