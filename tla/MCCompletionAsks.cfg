SPECIFICATION Spec
CONSTANTS
  None = None
  s1 = s1
  t1 = t1
  t2 = t2
  a1 = a1
  a2 = a2
  w1 = w1
  w2 = w2
  Session = {s1}
  Request = {1}
  Task = {t1, t2}
  Ask = {a1, a2}
  Word = {w1, w2}
  MaxRevision <- Revisions
  Main = s1
  MainRevisions = 6
  ChildRevisions = 6
SYMMETRY Symmetry
INVARIANT AnswerFitsAsk
CHECK_DEADLOCK FALSE
