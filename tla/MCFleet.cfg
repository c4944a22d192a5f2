SPECIFICATION Spec
CONSTANTS
  Job = {j1}
  j1 = j1
  Worker = {1, 2}
  Descriptor <- Changing
  Time = {0, 1}
  LeaseMs = 1
  EventPhase = {"Running", "Failed"}
  MaxAttempts = 2
  MaxEvents = 2
  MaxIncarnation = 1
  MaxEpoch = 3
INVARIANT TypeOK
INVARIANT LeaseIsLatest
INVARIANT RunningIsHeld
INVARIANT SupersededFailed
INVARIANT OutcomeIsLatest
INVARIANT EventsGapless
PROPERTY TerminalIsFinal
PROPERTY CancelledNotRetried
PROPERTY FencedSpec
CHECK_DEADLOCK FALSE
