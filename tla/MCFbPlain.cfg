SPECIFICATION Spec
CONSTANTS
  a = a
  b = b
  Areas <- TwoAreas
  Msgs <- FaultMsgs
  EncodingSets <- AllEncs
  Events <- AllEvents
  MaxMsgs = 3
  MaxEvents = 3
  BufferSize = 3
  Pipelines <- Both
  EncodeFaults <- AllFaults
  Throttle = FALSE
  NDEBUG = FALSE
  Congestion = TRUE
  Disconnects = TRUE
  SendErrors = FALSE
INVARIANTS
  OneUpdateInFlight
  Accounting
  NoAbort
CHECK_DEADLOCK FALSE
