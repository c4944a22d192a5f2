SPECIFICATION Spec
CONSTANTS
  None = None
  s1 = s1
  s2 = s2
  t1 = t1
  t2 = t2
  a1 = a1
  a2 = a2
  w1 = w1
  Session = {s1, s2}
  Request = {1, 2}
  Task = {t1, t2}
  Ask = {a1, a2}
  Word = {w1}
  MaxRevision <- Revisions
  Main = s1
  MainRevisions = 4
  ChildRevisions = 1
SYMMETRY Symmetry
INVARIANT TypeOK
INVARIANT PausedStopsWork
INVARIANT CompletedIsDone
INVARIANT AnswerRecorded
PROPERTY TerminalStays
CHECK_DEADLOCK FALSE
