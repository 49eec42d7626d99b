\* The process may be stopped at any time, and then the check is over.
CHECK_DEADLOCK FALSE
CONSTANTS
  Docs = {d1, d2}
  NoDoc = NoDoc
  Chunks = 2
  Inodes = {i1, i2, i3, i4}
  NoInode = NoInode
  Pids = {p1, p2}
  NoPid = NoPid
  Doc = Doc
  Writers = {w1}
  MaxFaults = 1
  MaxCrashes = 1
  NoLicence = NoLicence
  Grant = Grant
  Lifetimes = {2, 6}
  HeartbeatInterval = 2
  ThreadHeartbeat = 4
  BackoffBase = 1
  BackoffCap = 3
  MaxClock = 16
SPECIFICATION MCSpec
INVARIANTS
  SavedStaysSaved
  OutageIsBridged
PROPERTY ImplementsRegister
SYMMETRY MCSymmetry
