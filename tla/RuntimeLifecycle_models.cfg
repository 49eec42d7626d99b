SPECIFICATION MCSpec
CONSTANTS
  Models = {m1, m2}
  NoModel = NoModel
  Versions = {v1}
  NoVersion = NoVersion
  Cards = {{"capture", "inference", "aim"}, {"capture"}, {}}
  Faults = {"none", "workers", "noinfer"}
  Writes = {TRUE, FALSE}
  Preload = FALSE
  MaxKills = 0
  MaxUpdates = 0
  MaxCards = 1
  MaxFaults = 2
  Packages <- MCPackages
  Fit <- MCFit
  First = 1
  Keep = 2
  MaxJobs = 2
  MaxUpdateKills = 1
  MaxUpdateFaults = 2
INVARIANTS  CurrentIsSound
PROPERTIES NoSessionWithoutLicence UpdatesEnd
