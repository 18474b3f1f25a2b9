SPECIFICATION MCSpec
CONSTANTS
  DxCalls = {"call1", "call2"}
  MaxPeriods = 3
  MaxAgain = 2
  MaxClicks = 1
  MaxLines = 2
  Crashes = TRUE
  MaxOps = 2
  MaxRuns = 2
  MaxErrors = 2
INVARIANTS OneJob JobWhole DecodesTrue
PROPERTIES Answered DecoderEnds RecordingsTrue
CHECK_DEADLOCK FALSE
