SPECIFICATION Spec
CONSTANTS
  ImageCounts = {2, 3}
  ResizesPasses = TRUE
  MaxResizes = 2
INVARIANTS
  DrawsSafely
  OnlyTheSemaphore
PROPERTY
  FramesGoOn
CHECK_DEADLOCK FALSE
