SPECIFICATION Spec
CONSTANTS
  Updater = {u1, u2}
  u1 = u1
  u2 = u2
  Nobody = Nobody
  MaxVersion = 3
  FreshInstall = FALSE
  MaxRuns = 3
  MaxStops = 2
  MaxPowerLosses = 1
SYMMETRY Symmetry
INVARIANT TypeOK
INVARIANT LastGoodKept
INVARIANT SettledIsWhole
PROPERTY StateFollowsTarget
CHECK_DEADLOCK FALSE
