CONSTANTS
  NoLicence = NoLicence
  old = old  new = new  forged = forged  junk = junk
  lasting = lasting  endless = endless
  Cards = {old, forged}
  Clouds = {lasting}
  Expiry <- MCExpiry
  IssuedAt <- MCIssuedAt
  Verdict <- MCVerdict
  InitDisks <- FewDisks
  KeyFileCard = NoLicence
  Callers = {c1}
  Main = main
  Heartbeat = 1
  MaxClock = 3
  MaxCalls = 2
  MaxCrashes = 1
  MaxFaults = 1
  EarlyIpc = FALSE
SPECIFICATION FairSpec
INVARIANTS
  NoMixedLicence
  RestartRestoresAcked
  
PROPERTIES
  
  ExpiredCloudClosesGate
