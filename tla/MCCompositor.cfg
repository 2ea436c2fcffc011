SPECIFICATION FairSpec
CONSTANTS
  Workers = 2
  Sizes <- TwoSizes
  Buffers <- FourBuffers
  MaxFeeds = 3
INVARIANTS
  BufferExclusive
  JobsInOrder
PROPERTIES
  ImplementsOrderedJobs
  DestroyReturns
CHECK_DEADLOCK FALSE
