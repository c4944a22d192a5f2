SPECIFICATION Spec
CONSTANTS
  None = None
  a1 = a1
  a2 = a2
  b1 = b1
  p1 = p1
  here = here
  there = there
  Thread = {a1, a2, b1}
  Process = {here, there}
  ProcessOf <- TwoProcesses
  Ops <- AllOps
  Pending = {p1}
  Tears <- AllTears
  MaxLines = 5
  MaxEach = 1
  MaxFailures = 1
  MaxEdits = 1
SYMMETRY Symmetry
INVARIANT TypeOK
INVARIANT AppliedOnce
INVARIANT ClaimOnLineage
INVARIANT PreviewHasPayload
CHECK_DEADLOCK FALSE
