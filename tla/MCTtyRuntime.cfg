CONSTANTS
  RecoverableBudget = 1
  MaxChunks = 2
  MinTimeout = 1
  MaxTimeoutOf <- MCMaxTimeoutOf
SPECIFICATION FairSpec
CHECK_DEADLOCK FALSE
INVARIANTS LoopKeepsPolicy ResultIsHonest NothingIsLeft
PROPERTIES TtyReturns
