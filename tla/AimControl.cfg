SPECIFICATION MCSpec
CONSTANTS
  Configs <- MCConfigs
  Grace = 1
  ConfirmFrames = 2
  Rifle = FALSE
  ClickCount = 1
  Stability = 1
  FireDelay = 1
  FirstDelay = 0
  Tapped = TRUE
  FirstWait = 1
  Interval = 2
  Retarget = 1
  Press = 1
  Throttle = 1
  Faults = {FALSE, TRUE}
  MaxConfigs = 1
  MaxStarts = 2
  MaxPresses = 3
  Places <- MCPlaces
  Inputs <- MCInputs
  Radius = 16
  LockR = 2
  RectR = 4
  ReuseR = 5
  LostGrace = 2
  Cooldown = 3
  Hold = 3
  Hysteresis = 2
  HeadBody = TRUE
  Scoring = FALSE
  Buffer = 2
  MaxTracks = 2
  MaxIds = 3
INVARIANTS NoCarryOver TriggersKeepToThePress LockIsSound
PROPERTIES SuspensionKept NoSwitchInGrace
CHECK_DEADLOCK FALSE
