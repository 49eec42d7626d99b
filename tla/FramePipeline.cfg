\* After the last of MaxSessions sessions nothing happens any more.
CHECK_DEADLOCK FALSE
SPECIFICATION MCSpec
CONSTANTS
  NumBuffers = 2
  Consumers <- MCConsumers
  NoFrame = NoFrame
  MaxSeq = 3
  MaxFaults = 1
  NumWorkers = 2
  MaxSessions = 2
  MaxReloads = 1
  full = full
  part = part
  Sizes <- MCSizes
  NoSize = NoSize
  Outputs = 2
  MaxFrame = 3
INVARIANTS  NoUseAfterClose EngineIsSound SourceIsSession
PROPERTIES StopEnds
