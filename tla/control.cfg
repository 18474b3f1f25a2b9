SPECIFICATION Spec
CONSTANTS
  Freqs = {1, 2}
  MaxOpens = 2
  MaxCommands = 1
  MaxReports = 1
  MaxTurns = 0
  MaxFaults = 2
  Reconfigures = TRUE
  Closes = TRUE
INVARIANT FreshUpdate
INVARIANT NoStuckKey
PROPERTY LinkKept
CHECK_DEADLOCK FALSE
