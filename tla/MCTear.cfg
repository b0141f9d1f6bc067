SPECIFICATION Spec
CONSTANTS
  Writers = {w1, w2}
  Sizes = {2, 3}
  LenMod = 4
  MaxFrames = 2
INVARIANT FramesIntact
CHECK_DEADLOCK FALSE
