SPECIFICATION MCSpec
CONSTANTS
  BlockSize = 2
  MaxFeed = 3
  MaxBytes = 9
  SeqMod = 8
  MaxPieces = 7
  e1 = e1
  e2 = e2
  w1 = w1
  w2 = w2
  Encoders <- TwoEncoders
  Workers <- TwoWorkers
  MaxRects = 2
  MaxBlocks = 2
  MaxFrames = 1
INVARIANTS
  OutputInOrder
  NoSeqClash
  NoUseAfterFree
PROPERTIES
  SyncFlushes
  SyncReturns
  FramesEncoded
CHECK_DEADLOCK FALSE
