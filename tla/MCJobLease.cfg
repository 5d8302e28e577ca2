SPECIFICATION FairLeaseSpec
CONSTANTS
  p1 = p1
  p2 = p2
  Leaders <- MCLeaders
  Jobs = {"publisher", "reaper"}
  Reaper = "reaper"
  TTL = 1
  ReapAfter = 1
  MaxEpoch = 3
INVARIANTS
  LeaseTypeOK
  FencingUnique
PROPERTIES
  StaleRunHarmless
  EpochMonotonic
  TakenOnlyExpired
  JobKeepsRunning
