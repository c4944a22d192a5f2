SPECIFICATION FairSpec
CONSTANTS
  MaxSteps = 3
  Promotions = 1
  Cause = {"c"}
  Answer = {"a"}
  MaxTools = 2
  MaxTurns = 2
  MaxContexts = 1
  MaxSaved = 1
  MaxWindow = 2
INVARIANT TypeOK
INVARIANT ReplayKeeps
INVARIANT BudgetIsAnswers
PROPERTY TurnEnds
CHECK_DEADLOCK FALSE
