SPECIFICATION FramesSpec
CONSTANTS
  None = None
  Blank = Blank
  Find = Find
  Texts = {a, b}
  Slots = 3
  MaxRows = 2
  ScrollbackCap = 1
  InitialCapacity = 1
  ShrinkDivisor = 4
  ShrinkStreak = 2
  AcquireBudget = 1
  ReconfigureBudget = 1
  MaxChanges = 3
  MaxFaults = 2
INVARIANTS CpuFrameShowsTerminal GpuFramesAreSound
PROPERTIES PictureSettles
