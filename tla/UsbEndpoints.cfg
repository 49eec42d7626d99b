\* After the proxy has ended nothing happens any more.
CHECK_DEADLOCK FALSE
SPECIFICATION MCSpec
CONSTANTS
  mouse = mouse  led = led  i1 = i1  i2 = i2
  Injectors <- MCInjectors
  NumIfaces = 2
  Alts <- MCAlts
  Eps <- MCEps
  IfaceOf <- MCIfaceOf
  AltOf <- MCAltOf
  IsIn <- MCIsIn
  HidIfaces = {0, 1}
  MouseIface = 0
  Compat = TRUE
  QueueMax = 1
  OutBound = 1
  NoEp = NoEp
  Depth = 2
  RingMax = 1
INVARIANTS QueuesAlive NoStaleThreads 
PROPERTIES StopsEnd MotionLeaves
