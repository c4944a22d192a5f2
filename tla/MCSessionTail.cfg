SPECIFICATION Spec
CONSTANTS
  None = None
  a1 = a1
  a2 = a2
  b1 = b1
  p1 = p1
  here = here
  there = there
  Thread = {a1}
  Process = {here}
  ProcessOf <- OneThread
  Ops <- Appends
  Pending = {p1}
  Tears <- AllTears
  MaxLines = 3
  MaxEach = 3
  MaxFailures = 1
  MaxEdits = 0
INVARIANT HistoryReads
CHECK_DEADLOCK FALSE
