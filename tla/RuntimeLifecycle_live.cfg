SPECIFICATION FairSpec
CONSTANTS
  Models = {m1}
  NoModel = NoModel
  Versions = {v1, v2}
  NoVersion = NoVersion
  Cards = {{"capture", "inference", "aim"}}
  Faults = {"none", "capture", "noframes"}
  Writes = {TRUE, FALSE}
  Preload = TRUE
  MaxKills = 1
  MaxUpdates = 1
  MaxCards = 1
  MaxFaults = 1
INVARIANTS StopHolds
PROPERTIES SmokeEnds Recovers
