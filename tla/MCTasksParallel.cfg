SPECIFICATION Spec
CONSTANTS
  None = None
  h1 = h1
  h2 = h2
  j1 = j1
  j2 = j2
  j3 = j3
  Host = {h1, h2}
  Job = {j1, j2, j3}
  MaxParallel = 1
  MaxChildren = 1
  MaxCrashes = 0
  Failing <- NoneFail
  Calls <- SpawnCalls
  MaxCalls = 4
SYMMETRY Symmetry
INVARIANT ParallelKept
CHECK_DEADLOCK FALSE
