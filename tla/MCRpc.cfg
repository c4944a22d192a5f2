SPECIFICATION FairSpec
CONSTANTS
  c1 = c1
  c2 = c2
  k1 = k1
  k2 = k2
  w1 = w1
  Caller = {c1, c2}
  Key = {k1, k2}
  Worker = {w1}
  QueuePlaces = 1
  MaxActive = 1
  Failing <- AllFail
  MaxRequests = 2
  MaxEvents = 1
  MaxRestarts = 1
  MaxPanics = 1
INVARIANT TypeOK
INVARIANT OneRequestPerKey
INVARIANT PermitsHeld
INVARIANT StartedGoesOn
PROPERTY KeyedSpec
PROPERTY StartedIsDone
PROPERTY DrainEnds
CHECK_DEADLOCK FALSE
