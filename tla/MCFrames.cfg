SPECIFICATION FairSpec
CONSTANTS
  Writers = {w1, w2}
  Sizes = {2, 3, 4, 5}
  LenMod = 4
  MaxFrames = 3
INVARIANTS TypeOK CleanFramesIntact CleanReaderLives
PROPERTY CleanFramesArrive
CHECK_DEADLOCK FALSE
