SPECIFICATION Spec
CONSTANTS
  a = a
  b = b
  Areas <- OneArea
  Msgs <- NestedMsgs
  EncodingSets <- NestedEncs
  Events <- CursorEvents
  MaxMsgs = 4
  MaxEvents = 1
  BufferSize = 4
  Pipelines <- Both
  EncodeFaults <- AllFaults
  Throttle = FALSE
  NDEBUG = TRUE
  Congestion = FALSE
  Disconnects = TRUE
  SendErrors = TRUE

  
PROPERTIES
  FenceAfterFrame
CHECK_DEADLOCK FALSE
