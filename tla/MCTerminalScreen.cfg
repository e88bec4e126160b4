\* Every kind of step, few of each.
SPECIFICATION Spec
CONSTANTS
  None = None
  Narrow = {"a"}
  Wide = {"W"}
  StartSize <- MCStartSize
  Sizes <- MCSizes
  ScrollbackCap = 6
  TabInterval = 2
  Counts = {1, 3}
  Margins <- MCMargins
  Limit <- MCLimit
  MaxSteps = 5
  MaxPrint = 3
  MaxLine = 2
  MaxMode = 2
  MaxSwitch = 2
  MaxResize = 2
  MaxOther = 1
CHECK_DEADLOCK FALSE
PROPERTIES ScreenIsInBounds RegionsAreKept TextIsKept PrintKeepsPairs
