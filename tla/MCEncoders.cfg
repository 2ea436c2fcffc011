SPECIFICATION Spec
CONSTANTS
  Composites <- TheComposites
  Damages <- TheDamages
  Qualities = {"lossless", "jpeg"}
  NStreams = 2
  NSrcBufs = 2
  MaxRects = 1
  MaxFrames = 3
  MaxBackEnds = 4
  DropsFrames = FALSE
INVARIANTS
  DamageEncoded
  Decodable
  Lifetimes
  BarrierCounts
PROPERTIES
  FrameFinishes
CHECK_DEADLOCK FALSE
