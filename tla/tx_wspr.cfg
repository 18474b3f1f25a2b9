CONSTANTS
  cq = cq
  rr73 = rr73
  none = none
  Wspr = TRUE
  Period = 6
  TxTicks = 3
  CwTicks = 1
  SecTicks = 1
  PttDelay = 2
  TuneDelay = 3
  AutoDelay = 1
  AtuDelay = 3
  HaltDelay = 1
  Watchdog = TRUE
  WatchdogLimit = 2
  DisableTxOn73 = TRUE
  PctTx = 20
  MaxLate = 0
  Messages = {cq}
  NoMessage = none
  Msgs73 = {}
  MaxOps = 1
  MaxAudioLag = 2
SPECIFICATION Spec

PROPERTIES WsprIntervalCloses
