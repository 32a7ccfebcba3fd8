SPECIFICATION FairSpec
CONSTANTS
  p1 = p1
  p2 = p2
  r1 = r1
  r2 = r2
  Procs = {p1, p2}
  Runs <- MCRuns
  Devices <- MCDevices
  Radio <- MCRadio
  UeRails <- MCUeRails
  Slow <- MCSlow
  SerialUse = TRUE
  MaxFaults = 1
PROPERTY ClaimIsReleased
