\* After the last of MaxSessions sessions nothing happens any more.
CHECK_DEADLOCK FALSE
SPECIFICATION MCSpec
CONSTANTS
  NumBuffers = 3
  Consumers <- MCConsumers
  NoFrame = NoFrame
  MaxSeq = 4
  MaxFaults = 0
  NumWorkers = 2
  MaxSessions = 1
  MaxReloads = 0
  full = full
  part = part
  Sizes <- MCSizes
  NoSize = NoSize
  Outputs = 2
  MaxFrame = 3
INVARIANT FrameKept
