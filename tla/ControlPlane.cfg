\* After a stop nothing moves but the end of the process; a profile that does
\* not validate ends it for good.
CHECK_DEADLOCK FALSE
SPECIFICATION MCSpec
CONSTANTS
  Ids = {"a"}
  Contents = {"g", "h"}
  Loads = {"g"}
  Legacy = {"a"}
  MaxMishaps = 1
  Conns = {c1, c2}
  MaxConnections = 1
  Factories <- MCFactories
  DeviceDocs <- MCDeviceDocs
  Requests <- MCRequests
  Hotkeys = {"left", "right", "outside"}
  Models = {"m1", "m2"}
  MaxRequests = 2
  MaxFaults = 2
  MaxCrashes = 2
  MaxUpgrades = 2
INVARIANTS
  LibraryIsSound
  ThreadsAreAccounted
  
  UpgradeKeepsSettings
PROPERTIES
  
  StopEnds
