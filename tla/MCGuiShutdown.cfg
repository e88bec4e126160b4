\* Every way the event loop ends, with a child that may never exit.
SPECIFICATION GuiSpec
CONSTANTS
  Main = Main
  Waiter = Waiter
  Nobody = Nobody
  MaxResizes = 1
  Threads <- MCThreads
  MayCall <- MCMayCall
  MaxCalls <- MCCalls
  Sizes = {0, 2}
  ReapAttempts = 2
INVARIANTS ShutdownSignals OneShell
PROPERTIES ShutdownReturns
