CONSTANTS
  NoLicence = NoLicence
  old = old  new = new  forged = forged  junk = junk
  lasting = lasting  endless = endless
  Cards = {junk}
  Clouds = {lasting}
  Expiry <- MCExpiry
  IssuedAt <- MCIssuedAt
  Verdict <- MCVerdict
  InitDisks <- GrantedDisk
  KeyFileCard = NoLicence
  Callers = {c1, c2}
  Main = main
  Heartbeat = 1
  MaxClock = 1
  MaxCalls = 2
  MaxCrashes = 0
  MaxFaults = 0
  EarlyIpc = FALSE
SPECIFICATION Spec
INVARIANT RevokedStaysLocked
