SPECIFICATION Spec
CONSTANTS
  None = None
  h1 = h1
  h2 = h2
  j1 = j1
  j2 = j2
  Host = {h1, h2}
  Job = {j1, j2}
  MaxParallel = 1
  MaxChildren = 1
  MaxCrashes = 1
  Failing <- AllFail
  Calls <- AllCalls
  MaxCalls = 2
SYMMETRY Symmetry
INVARIANT TypeOK
INVARIANT EndedIsStopped
INVARIANT NoLostWakeup
INVARIANT SlotGivenBack
PROPERTY EndedForGood
CHECK_DEADLOCK FALSE
