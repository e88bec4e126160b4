SPECIFICATION Spec
CONSTANTS
  Sessions <- MCSessions
  Cols = 2
  HistoryCap = 2
  MaxQuery = 2
  NoticeText <- MCNotice
  Bad = "["
  None = None
INVARIANTS SearchIsSound ProgramIsTold SizesAgree
PROPERTIES ActiveMatchKept SelectionFollowsDrag
