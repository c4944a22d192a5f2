SPECIFICATION Spec
CONSTANTS
  Job = {j1}
  j1 = j1
  Worker = {1}
  Descriptor <- OneSlot
  Time = {0}
  LeaseMs = 1
  EventPhase = {"Running"}
  MaxAttempts = 1
  MaxEvents = 0
  MaxIncarnation = 1
  MaxEpoch = 2
INVARIANT CancelledNeverSucceeds
CHECK_DEADLOCK FALSE
