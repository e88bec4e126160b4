CONSTANTS
  RetryBudget = 2
  InitBudget = 3
SPECIFICATION FairSpec
CHECK_DEADLOCK FALSE
INVARIANTS PathsAgree RedrawIsComing
PROPERTIES RenderProgresses
