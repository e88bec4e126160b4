\* Every call of the handle, from two threads.
SPECIFICATION FairSpec
CONSTANTS
  main = main
  waiter = waiter
  Threads <- MCThreads
  MayCall <- MCAll
  MaxCalls <- MCCalls
  Sizes = {0, 1, 2}
  ReapAttempts = 2
  Nobody = Nobody
INVARIANTS NoOrphan
PROPERTIES ExitIsHonest CallsReturn
