\* The confirmation of an auto-updated image, against the comment in app_main.
CONSTANTS
  Releases = {r1, r2}
  Bad = Bad
  MaxUpdates = 1
  MaxPowerLoss = 1
SPECIFICATION FwSpec
INVARIANT AutoUpdateConfirmedByCommunication
