SPECIFICATION FairSpec
CONSTANTS
  a = a
  b = b
  Areas <- TwoAreas
  Msgs <- PlainMsgs
  EncodingSets <- FlowEncs
  Events <- FrameEvents
  MaxMsgs = 3
  MaxEvents = 3
  BufferSize = 3
  Pipelines <- Both
  EncodeFaults <- NoFaults
  Throttle = TRUE
  NDEBUG = FALSE
  Congestion = TRUE
  Disconnects = FALSE
  SendErrors = FALSE
INVARIANTS
  NoLostDamage
PROPERTIES
  Served
  Delivered
CHECK_DEADLOCK FALSE
