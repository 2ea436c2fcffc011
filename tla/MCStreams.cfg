SPECIFICATION Spec
CONSTANTS
  Kinds <- AllKinds
  Messages = {1, 2}
  Size = 2
  Frames <- SomeFrames
  PeerFrames = 2
  Space = 3
  BufferSize = 5
  KeySize = 2
PROPERTIES
  SendsInOrder
  ReadsInOrder
CHECK_DEADLOCK FALSE
