SPECIFICATION Spec
CONSTANTS
  MsgBufferSize = 4
  MaxCutText = 6
  Sessions <- TheSessions
  MaxSent = 3
  Texts = {0, 1, 2}
  Displays <- TheDisplays
PROPERTIES
  HandledInOrder
  ProvidesLatest
  DroppedOnlyBlocked
  HandledAll
CHECK_DEADLOCK FALSE
