CONSTANTS
  cq = cq
  rr73 = rr73
  none = none
  Wspr = FALSE
  Period = 5
  TxTicks = 2
  CwTicks = 1
  SecTicks = 1
  PttDelay = 2
  TuneDelay = 3
  AutoDelay = 1
  AtuDelay = 3
  HaltDelay = 1
  Watchdog = TRUE
  WatchdogLimit = 2
  DisableTxOn73 = TRUE
  PctTx = 20
  MaxLate = 1
  Messages = {cq, rr73}
  NoMessage = none
  Msgs73 = {rr73}
  MaxOps = 2
  MaxAudioLag = 2
SPECIFICATION Spec

INVARIANTS PttReleased StopEdgeKept TuneOver NoRxWhileTx
PROPERTIES TxInSlot TransmitterStops WatchdogStops
