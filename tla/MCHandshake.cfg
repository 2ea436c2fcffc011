SPECIFICATION FairSpec
CONSTANTS
  Clients <- ThreeClients
  Configs <- TypicalConfigs
  BufferSize = 3
  MaxConns <- TwoOrThree
  MaxReads <- OneGoesFirst
INVARIANTS
  Authenticated
  CredsMatchState
  NothingUnread
  CredsThroughTls
PROPERTIES
  ExclusiveAccess
  HandshakeEnds
CHECK_DEADLOCK FALSE
