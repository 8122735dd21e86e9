SPECIFICATION Spec
CONSTANTS
  FrameCount = 2
  FramePasses <- EinsFrames
  Textures <- SomeTextures
  PitchAlignment = 4
  PlaceAlignment = 8
  UploadSize = 80
  MaxFence = 6
  MaxTextures = 2
  MaxResizes = 2
INVARIANTS
  WellFormed
  RulesKept
  LagsOnce
  TexturesArrive
PROPERTY
  WaitsEnd
CHECK_DEADLOCK FALSE
