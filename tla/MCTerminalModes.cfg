CONSTANTS
  None = None
  MAX_CSI_LEN = 14
  MAX_OSC_LEN = 10
  MAX_DCS_LEN = 12
  MAX_CSI_PARAMS = 4
  MAX_SGR_PARAMS = 16
  MAX_SGR_SUBPARAMS = 5
  MAX_FEED_BYTES_PER_CALL = 8
  FEED_CHUNK_BYTES = 3
  KittyDepth = 1
  Inputs <- MCInputs
  CallSizes = {1, 2, 5, 20}
SPECIFICATION Spec
CHECK_DEADLOCK FALSE
INVARIANTS ParserIsUncut PrimaryKeepsModes StatusStringRestoresPen
