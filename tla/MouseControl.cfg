\* The clients and the mouse may have nothing more to say.
CHECK_DEADLOCK FALSE
SPECIFICATION MCSpec
CONSTANTS
  Buttons = {b1}
  Deltas <- MCDeltas
  StepMax = 1  WheelMax = 1  Backlog = 2  PendCap = 3
  WheelWritable = FALSE
  Clients = {c1}
  Subs = {s1}  NoSub = NoSub
  ChanMax = 1
  MaxMoves = 1  MaxCommands = 1  MaxReports = 2  MaxRefusals = 1  MaxLosses = 1
  N = 2  Kind = "mouse"  Layouts <- MCLayouts  Nothing = Nothing
  MaxHidReports = 5  MaxFaults = 1
 
PROPERTIES  ReaderCatchesUp RingIsAQueue
