SPECIFICATION FairSpec
CONSTANTS
  None = None
  h1 = h1
  j1 = j1
  j2 = j2
  Host = {h1}
  Job = {j1, j2}
  MaxParallel = 2
  MaxChildren = 1
  MaxCrashes = 0
  Failing <- NoneFail
  Calls <- WaitCalls
  MaxCalls = 3
PROPERTY PollReturns
CHECK_DEADLOCK FALSE
