SPECIFICATION FairSpec
CONSTANTS
  a = a
  b = b
  Areas <- TwoAreas
  Msgs <- FenceMsgs
  EncodingSets <- FenceEncs
  Events <- NotifyEvents
  MaxMsgs = 4
  MaxEvents = 2
  BufferSize = 4
  Pipelines <- Both
  EncodeFaults <- NoFaults
  Throttle = FALSE
  NDEBUG = TRUE
  Congestion = FALSE
  Disconnects = FALSE
  SendErrors = FALSE
PROPERTIES
  Unblocked
CHECK_DEADLOCK FALSE
