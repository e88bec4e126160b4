\* Seconds 0 to 7 and four failures: two failure windows of three seconds
\* that follow each other, with twice the retry budget of failures.
SPECIFICATION ProgramSpec
CONSTANTS
  RecoverableBudget = 3
  RetryBudget = 2
  FailureWindow = 3
  Times = {0, 1, 3, 4, 7}
  MaxFailures = 4
  DefaultRate = 60
  Rates = {0, 60, 144}
  PaletteInputs <- MCInputs
  MaxInitRetries = 5
  CapBytes = 5
  Texts <- MCTexts
INVARIANTS SettingsHold FallbackIsEarned PasteIsTheLastCopy
PROPERTIES SessionKeepsPolicy
