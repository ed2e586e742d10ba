SPECIFICATION Spec
CONSTANTS
  Cores = {c1, c2}
  None = None
  PageFrameCount = 5
  Reserved = {0, 3}
  Counts = {1, 2, 3}
  SingleFrames = TRUE
INVARIANT FramesGivenOnce
CHECK_DEADLOCK FALSE
