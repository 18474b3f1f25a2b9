CONSTANTS
  Station = {"A", "B"}
  First = "A"
  Other = "C"
  NoCall = "none"
  Reports = {1}
  OtherReports = {2}
  SkipTx1 = FALSE
  QuickCall = TRUE
  DisableTxOn73 = FALSE
  Autolog = TRUE
  ClearDXset = TRUE
  Tab2 = {"B"}
  BackToCQ = 1
  Retransmit = 1
  SameReport = 2
  Same73 = 0
  Watchdog = 0
  HaltFor = 6
  HistLen = 7
  LateLines = FALSE
  Free73 = FALSE
  MaxClicks = 3
  MaxLoss = 1
  MaxOther = 1
SPECIFICATION Spec
PROPERTIES QsoEarned NotCalledOver LogRight
