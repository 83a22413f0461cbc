\* Two releases, an update and its successor, one power loss at any step.
CONSTANTS
  Releases = {r1, r2}
  Bad = Bad
  MaxUpdates = 2
  MaxPowerLoss = 1
SPECIFICATION FwFairSpec
INVARIANTS
  FwTypeOK
  BootsCompleteRelease
  NrfVersionHonest
  NrfReadyMatches
  NotDead
  LedsAssertOnlyOnSecondUpdate
PROPERTY BootCompletes
