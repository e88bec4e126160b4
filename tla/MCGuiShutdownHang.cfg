\* A fatal failure while the child runs: does shutdown() end?
SPECIFICATION GuiSpec
CONSTANTS
  Main = Main
  Waiter = Waiter
  Nobody = Nobody
  MaxResizes = 1
  Threads <- MCThreads
  MayCall <- MCMayCall
  MaxCalls <- MCCalls
  Sizes = {0, 2}
  ReapAttempts = 2
PROPERTIES
  ShutdownCompletes
