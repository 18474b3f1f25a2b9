SPECIFICATION Spec
CONSTANTS
  DxCalls = {"call1", "call2"}
  MaxPeriods = 3
  MaxAgain = 2
  MaxClicks = 1
  MaxLines = 2
  Crashes = FALSE
PROPERTY DecoderStarts
CHECK_DEADLOCK FALSE
