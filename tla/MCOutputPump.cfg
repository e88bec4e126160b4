\* Three chunks through a channel of one, so that the reader blocks; batches of one.
SPECIFICATION FairSpec
CONSTANTS
  MaxChunks = 3
  QueueCapacity = 1
  BatchMax = 1
  ElevatedChunks = 1
  CriticalChunks = 2
  NormalBudget = 1
  ElevatedBudget = 2
  CriticalBudget = 2
INVARIANTS QueueIsServed DrainedExitIsComplete
PROPERTIES ImplementsStream LoopProgresses
