SPECIFICATION Spec
CONSTANTS
  Freqs = {1, 2}
  Bogus = {9}
  Garbled = 7
  Modes = {"USB"}
  UNK = "unknown"
  AskedRx = {1, 2}
  AskedTx = {0, 2, 9}
  AskedModes = {"USB"}
  PollsToStabilize = 3
  MaxLag = 2
  MaxSets = 2
  MaxStarts = 1
  Controls = {"dial", "Tx VFO", "split", "time-out"}
  MaxTurns = 1
  MaxFaults = 1
INVARIANTS ClosedAndUnkeyed ClientToldState
PROPERTIES KeyedOnTxFrequency ClientLearnsDial
CHECK_DEADLOCK FALSE
